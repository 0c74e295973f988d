----------------------- MODULE TrainingPipelineProofs -----------------------
(***************************************************************************)
(* Theorems about TrainingPipeline, for any experiences, clients, approvals *)
(* and rounds of feedback, and any number of crashes: what is compiled has  *)
(* its papers, its split is sound, and the registries implement the ledger. *)
(*                                                                          *)
(* Five sets only ever grow: the experiences that passed Dany's gate, the   *)
(* versions registered, those promoted, the exports registered, and what    *)
(* approvals were spent for. A call in progress relies on its arguments     *)
(* being in some of them, which no step of another call can take back.      *)
(*                                                                          *)
(* And what holds while one process curates, and one promotes, exports and  *)
(* compiles: no item is stored twice, and what is registered keeps its files.*)
(***************************************************************************)
EXTENDS TrainingPipeline, FiniteSetTheorems, SequenceTheorems, WellFoundedInduction, TLAPS

papers ==
    [passed     |-> {e \in Exps : PassesDany(exps[e])},
     registered |-> DOMAIN versions,
     promoted   |-> {v \in DOMAIN versions : versions[v] = "approved-for-export"},
     exported   |-> exports,
     spent      |-> {token[t].call : t \in {u \in Ids : token[u].status = "consumed"}}]

Grown(p, q) ==
    /\ p.passed \subseteq q.passed
    /\ p.registered \subseteq q.registered
    /\ p.promoted \subseteq q.promoted
    /\ p.exported \subseteq q.exported
    /\ p.spent \subseteq q.spent

\* Items fit for a version.
ItemsSound(p, items) ==
    /\ items # {} /\ IsFiniteSet(items)
    /\ \A i \in items : i.type = "conversation" =>
        i.exp \in p.passed /\ i.review \in {"user_accepted", "user_corrected"}

Paid(p, op, about) == [tool |-> op, args |-> about] \in p.spent

\* What a call in progress relies on.
CallSound(p, k) ==
    /\ k.op = "collect" /\ k.at = "feedback" =>
        \A e \in Exps : PassesDany(k.seen[e]) => e \in p.passed
    /\ k.op = "create" \/ (k.op = "collect" /\ k.at = "collected") =>
        \A n \in 1..Len(k.todo) : ItemsSound(p, k.todo[n].items)
    /\ k.op = "create" => k.todo # <<>>
    /\ k.op = "create" /\ k.at \in {"publish", "register"} => ItemsSound(p, k.about.items)
    /\ k.op = "approve" =>
        /\ k.about \in p.registered /\ DanyAccepts(k.about)
        /\ k.at = "transition" => Paid(p, "approve", k.about)
    /\ k.op = "export" =>
        /\ k.about.version \in p.promoted
        /\ k.at # "consume" => Paid(p, "export", k.about)
    /\ k.op = "compile" =>
        /\ k.about \in p.exported
        /\ k.at # "consume" => Paid(p, "compile", k.about)

CallsSound == \A c \in Clients : CallSound(papers, call[c])

VersionsSound == \A v \in DOMAIN versions : ItemsSound(papers, v.items)

PromotedSound ==
    \A v \in papers.promoted : DanyAccepts(v) /\ Paid(papers, "approve", v)

ExportsSound ==
    \A x \in exports : x.version \in papers.promoted /\ Paid(papers, "export", x)

CompiledSound == \A x \in compiled : x \in exports /\ Paid(papers, "compile", x)

\* Some version of each type has the highest number.
Numbered(known) ==
    \A v \in known : \E w \in known :
        w.type = v.type /\ \A u \in known : u.type = v.type => u.number <= w.number

IInv ==
    /\ TypeOK
    /\ Numbered(DOMAIN versions)
    /\ CallsSound
    /\ VersionsSound
    /\ PromotedSound
    /\ ExportsSound
    /\ CompiledSound

USE TrainingAssumption

-----------------------------------------------------------------------------
\* Numbers and finite sets

LEMMA Least ==
    ASSUME NEW S, S \subseteq Nat, S # {}
    PROVE  \E x \in S : \A y \in S : x <= y
<1> DEFINE R == OpToRel(<, Nat)
<1>1. IsWellFoundedOn(R, Nat)
  BY NatLessThanWellFounded
<1>2. \A x, y \in Nat : <<y, x>> \in R <=> y < x
  BY DEF OpToRel
<1> HIDE DEF R
<1>3. PICK x \in S : \A y \in S : ~ (<<y, x>> \in R)
  BY <1>1, WFMin
<1>4. \A y \in S : ~ (y < x)
  BY <1>2, <1>3
<1>. QED
  BY <1>4

LEMMA Greatest ==
    ASSUME NEW n \in Nat, NEW S, S \subseteq 0..n, S # {}
    PROVE  \E m \in S : \A k \in S : k <= m
<1> DEFINE T == {n - s : s \in S}
<1>1. T \subseteq Nat /\ T # {}
  <2>1. \A s \in S : s \in 0..n /\ n - s \in Nat
    OBVIOUS
  <2>2. T \subseteq Nat
    BY <2>1
  <2>3. PICK s \in S : TRUE
    OBVIOUS
  <2>4. n - s \in T
    OBVIOUS
  <2>. QED
    BY <2>2, <2>4
<1>2. PICK x \in T : \A y \in T : x <= y
  <2> HIDE DEF T
  <2>. QED
    BY <1>1, Least
<1>3. PICK m \in S : x = n - m
  OBVIOUS
<1>4. ASSUME NEW k \in S PROVE k <= m
  <2>1. n - k \in T
    OBVIOUS
  <2>2. n - m <= n - k
    BY <2>1, <1>2, <1>3
  <2>. QED
    BY <2>2
<1>. QED
  BY <1>4

LEMMA FiniteImage ==
    ASSUME NEW S, IsFiniteSet(S), NEW f
    PROVE  IsFiniteSet({f[x] : x \in S})
<1> DEFINE T == {f[x] : x \in S}
           g == [x \in S |-> f[x]]
<1>1. g \in Surjection(S, T)
  BY DEF Surjection
<1>. QED
  BY <1>1, FS_Surjection

-----------------------------------------------------------------------------
\* What grows

LEMMA GrownKeepsItems ==
    ASSUME NEW p, NEW q, Grown(p, q), NEW items, ItemsSound(p, items)
    PROVE  ItemsSound(q, items)
  BY DEF Grown, ItemsSound

LEMMA GrownKeepsCall ==
    ASSUME NEW p, NEW q, Grown(p, q), NEW k, CallSound(p, k)
    PROVE  CallSound(q, k)
<1>1. \A items : ItemsSound(p, items) => ItemsSound(q, items)
  BY GrownKeepsItems
<1>2. \A op, about : Paid(p, op, about) => Paid(q, op, about)
  BY DEF Grown, Paid
<1>. QED
  BY <1>1, <1>2 DEF Grown, CallSound

\* So a step keeps the invariant if what it writes is sound where it writes.
LEMMA Frame ==
    ASSUME IInv, Grown(papers, papers'), TypeOK', Numbered(DOMAIN versions)',
           \A c \in Clients : call'[c] \in {call[c], Idle} \/ CallSound(papers', call'[c]),
           \A v \in DOMAIN versions' : v \in DOMAIN versions \/ ItemsSound(papers', v.items),
           \A v \in papers'.promoted :
               v \in papers.promoted \/ (DanyAccepts(v) /\ Paid(papers', "approve", v)),
           \A x \in exports' :
               x \in exports \/ (x.version \in papers'.promoted /\ Paid(papers', "export", x)),
           \A x \in compiled' :
               x \in compiled \/ (x \in exports' /\ Paid(papers', "compile", x)),
           exports \subseteq exports'
    PROVE  IInv'
<1>1. CallsSound'
  <2>1. CallSound(papers', Idle)
    BY DEF CallSound, Idle
  <2>. QED
    BY <2>1, GrownKeepsCall DEF IInv, CallsSound
<1>2. VersionsSound'
  BY GrownKeepsItems DEF IInv, VersionsSound
<1>3. PromotedSound'
  BY DEF IInv, PromotedSound, Grown, Paid
<1>4. ExportsSound'
  BY DEF IInv, ExportsSound, Grown, Paid
<1>5. CompiledSound'
  BY DEF IInv, CompiledSound, Grown, Paid
<1>. QED
  BY <1>1, <1>2, <1>3, <1>4, <1>5 DEF IInv

-----------------------------------------------------------------------------
\* Approvals

LEMMA SamePapers ==
    ASSUME UNCHANGED <<exps, versions, exports, token>>
    PROVE  papers' = papers /\ Grown(papers, papers')
  BY DEF papers, Grown

LEMMA IssueKeeps ==
    ASSUME Cyber!TokenTypeOK, NEW t \in Ids, NEW k \in Calls, Cyber!Issue(t, k),
           UNCHANGED <<exps, versions, exports>>
    PROVE  Cyber!TokenTypeOK' /\ Grown(papers, papers') /\ papers' = papers
<1>1. token' = [token EXCEPT ![t] = [status |-> "pending", call |-> k]]
      /\ token[t] = Cyber!Unissued
  BY DEF Cyber!Issue
<1>2. [status |-> "pending", call |-> k] \in Cyber!Token
  BY DEF Cyber!Token
<1>3. Cyber!TokenTypeOK'
  BY <1>1, <1>2 DEF Cyber!TokenTypeOK
<1>4. \A u \in Ids : token'[u].status = "consumed" <=> token[u].status = "consumed"
  BY <1>1 DEF Cyber!TokenTypeOK, Cyber!Unissued
<1>5. \A u \in Ids : token[u].status = "consumed" => token'[u].call = token[u].call
  BY <1>1 DEF Cyber!TokenTypeOK, Cyber!Unissued
<1>6. papers'.spent = papers.spent
  BY <1>4, <1>5 DEF papers
<1>. QED
  BY <1>3, <1>6 DEF papers, Grown

LEMMA StatusKeeps ==
    ASSUME Cyber!TokenTypeOK, NEW t \in Ids, token[t].status \in {"pending", "approved"},
           NEW s \in {"approved", "denied", "expired", "consumed"}, Cyber!SetStatus(t, s),
           UNCHANGED <<exps, versions, exports>>
    PROVE  /\ Cyber!TokenTypeOK' /\ Grown(papers, papers')
           /\ papers'.promoted = papers.promoted
           /\ s = "consumed" => token[t].call \in papers'.spent
<1>1. token[t] \in Cyber!Token
  BY DEF Cyber!TokenTypeOK, Cyber!Unissued
<1> DEFINE r == [token[t] EXCEPT !.status = s]
<1>2. r \in Cyber!Token /\ r.status = s /\ r.call = token[t].call
  BY <1>1 DEF Cyber!Token
<1>3. token' = [token EXCEPT ![t] = r]
  BY DEF Cyber!SetStatus
<1> HIDE DEF r
<1>4. Cyber!TokenTypeOK'
  BY <1>2, <1>3 DEF Cyber!TokenTypeOK
<1>5. \A u \in Ids : token[u].status = "consumed" => token'[u] = token[u]
  BY <1>3 DEF Cyber!TokenTypeOK
<1>6. papers.spent \subseteq papers'.spent
  BY <1>5 DEF papers
<1>7. token'[t].status = s /\ token'[t].call = token[t].call
  BY <1>2, <1>3 DEF Cyber!TokenTypeOK
<1>8. s = "consumed" => token[t].call \in papers'.spent
  BY <1>7 DEF papers
<1>. QED
  BY <1>4, <1>6, <1>8 DEF papers, Grown

-----------------------------------------------------------------------------
\* Calls that go on or end

LEMMA FinishKeeps ==
    ASSUME IInv, NEW c \in Clients, Finish(c)
    PROVE  /\ call' \in [Clients -> Locals]
           /\ \A d \in Clients : call'[d] \in {call[d], Idle}
  BY DEF IInv, TypeOK, Finish, Locals

LEMMA StartKeeps ==
    ASSUME IInv, NEW c \in Clients, NEW k \in Locals, call' = [call EXCEPT ![c] = k]
    PROVE  /\ call' \in [Clients -> Locals]
           /\ call'[c] = k
           /\ \A d \in Clients \ {c} : call'[d] = call[d]
<1> USE DEF IInv, TypeOK
<1>1. call \in [Clients -> Locals]
  OBVIOUS
<1>. QED
  BY <1>1

\* A step that touches no table and no approval.
LEMMA QuietStep ==
    ASSUME IInv, UNCHANGED <<vault, versions, exports, compiled, token>>,
           crashes' \in 0..MaxCrashes,
           versionDirs' \subseteq Version, exportDirs' \cup compiledDirs' \subseteq Export,
           call' \in [Clients -> Locals],
           \A c \in Clients : call'[c] \in {call[c], Idle} \/ CallSound(papers, call'[c])
    PROVE  IInv'
<1>1. TypeOK'
  BY DEF IInv, TypeOK, vault, Cyber!TokenTypeOK
<1>2. papers' = papers /\ Grown(papers, papers')
  BY SamePapers DEF vault
<1>. QED
  BY <1>1, <1>2, Frame DEF IInv, Numbered

\* A call that ends with nothing written to a table.
LEMMA QuietEnd ==
    ASSUME IInv, UNCHANGED <<vault, versions, exports, compiled, token>>,
           crashes' \in 0..MaxCrashes,
           versionDirs' \subseteq Version, exportDirs' \cup compiledDirs' \subseteq Export,
           NEW c \in Clients, Finish(c)
    PROVE  IInv'
<1>1. /\ call' \in [Clients -> Locals]
      /\ \A d \in Clients : call'[d] \in {call[d], Idle}
  BY FinishKeeps
<1>. QED
  BY <1>1, QuietStep

-----------------------------------------------------------------------------
\* The locals of a call in progress, by what it does

LEMMA LocalsOf ==
    ASSUME NEW k \in Locals
    PROVE  /\ k.op = "collect" /\ k.at = "feedback" =>
                k.seen \in [Exps -> Experience \cup {NotCaptured}]
           /\ k.op = "collect" /\ k.at = "collected" => k.todo \in Todo
           /\ k.op = "create" => k.todo \in Todo
           /\ k.op = "create" /\ k.at \in {"look", "number"} =>
                k = [op |-> "create", at |-> k.at, todo |-> k.todo]
           /\ k.op = "create" /\ k.at \in {"publish", "register"} =>
                /\ k.about \in Version
                /\ k = [op |-> "create", at |-> k.at, todo |-> k.todo, about |-> k.about]
           /\ k.op = "approve" =>
                /\ k.about \in Version /\ k.token \in Ids
                /\ k = [op |-> "approve", at |-> k.at, about |-> k.about, token |-> k.token]
           /\ k.op \in {"export", "compile"} =>
                /\ k.about \in Export /\ k.token \in Ids
                /\ k = [op |-> k.op, at |-> k.at, about |-> k.about, token |-> k.token]
<1> USE DEF Locals, Idle
<1>1. CASE k.op = "idle"
  BY <1>1
<1>2. CASE k.op = "collect"
  BY <1>2
<1>3. CASE k.op = "create"
  <2>1. CASE k.at \in {"look", "number"}
    BY <1>3, <2>1
  <2>2. CASE k.at \in {"publish", "register"}
    BY <1>3, <2>2
  <2>. QED
    BY <1>3, <2>1, <2>2
<1>4. CASE k.op = "approve"
  BY <1>4
<1>5. CASE k.op \in {"export", "compile"}
  BY <1>5
<1>. QED
  BY <1>1, <1>2, <1>3, <1>4, <1>5

LEMMA GotoRecord ==
    ASSUME IInv, NEW c \in Clients, NEW at, Goto(c, at)
    PROVE  call' = [call EXCEPT ![c] = [call[c] EXCEPT !.at = at]]
  BY DEF IInv, TypeOK, Goto

\* A call that goes on with sound locals, nothing else written to a table.
LEMMA QuietGoOn ==
    ASSUME IInv, UNCHANGED <<vault, versions, exports, compiled, token, crashes>>,
           versionDirs' \subseteq Version, exportDirs' \cup compiledDirs' \subseteq Export,
           NEW c \in Clients, NEW k \in Locals,
           call' = [call EXCEPT ![c] = k], CallSound(papers, k)
    PROVE  IInv'
<1>1. /\ call' \in [Clients -> Locals]
      /\ \A d \in Clients : call'[d] = call[d] \/ CallSound(papers, call'[d])
  BY StartKeeps
<1>2. crashes' \in 0..MaxCrashes
  BY DEF IInv, TypeOK
<1>. QED
  BY <1>1, <1>2, QuietStep

-----------------------------------------------------------------------------
\* Curation

LEMMA FinalTextType ==
    ASSUME NEW rows \in Seq(Feedback), NEW e \in Exps
    PROVE  FinalText(e, rows) \in Texts
<1> DEFINE C == CorrectionsOf(e, rows)
<1>1. CASE C = {}
  BY <1>1 DEF FinalText, Texts
<1>2. CASE C # {}
  <2>1. C \subseteq 0..Len(rows) /\ C \subseteq DOMAIN rows
    BY DEF CorrectionsOf
  <2>2. \E m \in C : \A k \in C : k <= m
    <3> HIDE DEF C
    <3>. QED
      BY <1>2, <2>1, Greatest
  <2>3. Latest(C) \in C
    BY <2>2 DEF Latest
  <2>4. rows[Latest(C)] \in Feedback
    BY <2>1, <2>3
  <2>. QED
    BY <1>2, <2>4 DEF FinalText, Feedback
<1>. QED
  BY <1>1, <1>2

LEMMA ConversationsSound ==
    ASSUME NEW p, NEW rows \in Seq(Feedback),
           NEW seen \in [Exps -> Experience \cup {NotCaptured}],
           \A e \in Exps : PassesDany(seen[e]) => e \in p.passed
    PROVE  /\ ConversationItems(seen, rows) \subseteq Item
           /\ IsFiniteSet(ConversationItems(seen, rows))
           /\ \A i \in ConversationItems(seen, rows) :
                i.exp \in p.passed /\ i.review \in {"user_accepted", "user_corrected"}
<1> DEFINE S == {x \in Exps : PassesDany(seen[x]) /\ UserAllowed(seen[x])}
           f == [e \in S |-> [type |-> "conversation", exp |-> e, text |-> FinalText(e, rows),
                              review |-> seen[e].review, row |-> 0]]
<1>1. ConversationItems(seen, rows) = {f[e] : e \in S}
  BY DEF ConversationItems
<1>2. IsFiniteSet(S)
  BY FS_Subset
<1>3. \A e \in S : /\ f[e] \in Item
                   /\ f[e].exp \in p.passed
                   /\ f[e].review \in {"user_accepted", "user_corrected"}
  <2> TAKE e \in S
  <2>1. FinalText(e, rows) \in Texts
    BY FinalTextType
  <2>2. seen[e].review \in Reviews /\ seen[e].review \in {"user_accepted", "user_corrected"}
    BY DEF UserAllowed, Reviews
  <2>. QED
    BY <2>1, <2>2 DEF Item, Types
<1> HIDE DEF S, f
<1>. QED
  BY <1>1, <1>2, <1>3, FiniteImage

LEMMA PreferencesSound ==
    ASSUME NEW seen, NEW rows \in Seq(Feedback)
    PROVE  /\ PreferenceItems(seen, rows) \subseteq Item
           /\ IsFiniteSet(PreferenceItems(seen, rows))
           /\ \A i \in PreferenceItems(seen, rows) : i.type = "preference"
<1> DEFINE S == {m \in DOMAIN rows : /\ rows[m].verdict = "corrected"
                                     /\ seen[rows[m].exp] # NotCaptured}
           f == [n \in S |-> [type |-> "preference", exp |-> rows[n].exp,
                              text |-> rows[n].text, review |-> "user_corrected", row |-> n]]
<1>1. PreferenceItems(seen, rows) = {f[n] : n \in S}
  BY DEF PreferenceItems
<1>2. IsFiniteSet(S)
  <2>1. IsFiniteSet(1..Len(rows))
    BY FS_Interval
  <2>. QED
    BY <2>1, FS_Subset
<1>3. \A n \in S : f[n] \in Item /\ f[n].type = "preference"
  <2> TAKE n \in S
  <2>1. rows[n] \in Feedback /\ n \in Nat
    OBVIOUS
  <2>2. f[n] = [type |-> "preference", exp |-> rows[n].exp,
                text |-> rows[n].text, review |-> "user_corrected", row |-> n]
    OBVIOUS
  <2> HIDE DEF S, f
  <2>. QED
    BY <2>1, <2>2 DEF Item, Types, Reviews, Feedback
<1> HIDE DEF S, f
<1>. QED
  BY <1>1, <1>2, <1>3, FiniteImage

LEMMA BucketsSound ==
    ASSUME NEW p, NEW items, items \subseteq Item, IsFiniteSet(items),
           \A i \in items : i.type = "conversation" =>
                i.exp \in p.passed /\ i.review \in {"user_accepted", "user_corrected"}
    PROVE  /\ Buckets(items) \in Todo
           /\ \A n \in 1..Len(Buckets(items)) : ItemsSound(p, Buckets(items)[n].items)
<1> DEFINE B(type) == {i \in items : i.type = type /\ ~InRegistry(i)}
           b(type) == IF B(type) = {} THEN <<>> ELSE <<[type |-> type, items |-> B(type)]>>
<1>1. Buckets(items) = b("conversation") \o b("preference")
  BY DEF Buckets
<1>2. ASSUME NEW type \in Types
      PROVE  /\ b(type) \in Todo
             /\ \A n \in 1..Len(b(type)) : ItemsSound(p, b(type)[n].items)
  <2>1. B(type) \subseteq items /\ IsFiniteSet(B(type))
    BY FS_Subset
  <2>2. B(type) # {} => ItemsSound(p, B(type))
    BY <2>1 DEF ItemsSound
  <2> HIDE DEF B
  <2>3. CASE B(type) = {}
    BY <2>3 DEF Todo
  <2>4. CASE B(type) # {}
    <3> DEFINE r == [type |-> type, items |-> B(type)]
    <3>1. r \in [type : Types, items : SUBSET Item]
      BY <2>1
    <3>2. b(type) = <<r>> /\ ItemsSound(p, r.items)
      BY <2>2, <2>4
    <3> HIDE DEF r, b
    <3>. QED
      BY <3>1, <3>2 DEF Todo
  <2>. QED
    BY <2>3, <2>4
<1> HIDE DEF b
<1>3. "conversation" \in Types /\ "preference" \in Types
  BY DEF Types
<1>4. PICK s, t \in Todo :
        /\ Buckets(items) = s \o t
        /\ \A n \in 1..Len(s) : ItemsSound(p, s[n].items)
        /\ \A n \in 1..Len(t) : ItemsSound(p, t[n].items)
  BY <1>1, <1>2, <1>3
<1>5. s \o t \in Todo /\ Len(s \o t) = Len(s) + Len(t)
      /\ Len(s) \in Nat /\ Len(t) \in Nat
  BY DEF Todo
<1>6. ASSUME NEW n \in 1..Len(s \o t)
      PROVE  (s \o t)[n] = IF n <= Len(s) THEN s[n] ELSE t[n - Len(s)]
  BY <1>5 DEF Todo
<1>. QED
  BY <1>4, <1>5, <1>6

LEMMA ReadExperiencesStep ==
    ASSUME IInv, NEW c \in Clients, ReadExperiences(c)
    PROVE  IInv'
<1> DEFINE k == [op |-> "collect", at |-> "feedback", seen |-> exps]
<1>1. k \in Locals
  BY DEF IInv, TypeOK, Locals
<1>2. CallSound(papers, k)
  BY DEF CallSound, papers
<1>3. call' = [call EXCEPT ![c] = k]
  BY DEF ReadExperiences, Start, CurationExperiences
<1> HIDE DEF k
<1>. QED
  BY <1>1, <1>2, <1>3, QuietGoOn
     DEF ReadExperiences, IInv, TypeOK, factory, released, compilation

LEMMA ReadFeedbackStep ==
    ASSUME IInv, NEW c \in Clients, ReadFeedback(c)
    PROVE  IInv'
<1> DEFINE rows == CurationFeedback
           seen == call[c].seen
           items == ConversationItems(seen, rows) \cup PreferenceItems(seen, rows)
           k == [op |-> "collect", at |-> "collected", todo |-> Buckets(items)]
<1>1. rows \in Seq(Feedback)
  BY DEF IInv, TypeOK, CurationFeedback
<1>2. /\ seen \in [Exps -> Experience \cup {NotCaptured}]
      /\ \A e \in Exps : PassesDany(seen[e]) => e \in papers.passed
  BY LocalsOf DEF IInv, TypeOK, CallsSound, CallSound, ReadFeedback, At
<1>3. call' = [call EXCEPT ![c] = k]
  BY DEF ReadFeedback
<1> HIDE DEF rows, seen
<1>4. /\ items \subseteq Item /\ IsFiniteSet(items)
      /\ \A i \in items : i.type = "conversation" =>
            i.exp \in papers.passed /\ i.review \in {"user_accepted", "user_corrected"}
  BY <1>1, <1>2, ConversationsSound, PreferencesSound, FS_Union
<1> HIDE DEF items
<1>5. Buckets(items) \in Todo
      /\ \A n \in 1..Len(Buckets(items)) : ItemsSound(papers, Buckets(items)[n].items)
  BY <1>4, BucketsSound
<1>6. k \in Locals /\ CallSound(papers, k)
  BY <1>5 DEF Locals, CallSound
<1> HIDE DEF k
<1>. QED
  BY <1>3, <1>6, QuietGoOn
     DEF ReadFeedback, IInv, TypeOK, factory, released, compilation

LEMMA MaterializeStep ==
    ASSUME IInv, NEW c \in Clients, Materialize(c)
    PROVE  IInv'
<1> DEFINE todo == call[c].todo
           k == IF todo = <<>> THEN Idle ELSE [op |-> "create", at |-> "look", todo |-> todo]
<1>1. todo \in Todo /\ \A n \in 1..Len(todo) : ItemsSound(papers, todo[n].items)
  BY LocalsOf DEF IInv, TypeOK, CallsSound, CallSound, Materialize, At
<1>2. call' = [call EXCEPT ![c] = k]
  BY DEF Materialize
<1> HIDE DEF todo
<1>3. k \in Locals /\ CallSound(papers, k)
  BY <1>1 DEF Locals, CallSound, Idle
<1> HIDE DEF k
<1>. QED
  BY <1>2, <1>3, QuietGoOn
     DEF Materialize, IInv, TypeOK, factory, released, compilation

-----------------------------------------------------------------------------
\* The factory

LEMMA NextNumberType ==
    ASSUME IInv, NEW type
    PROVE  NextNumber(type) \in Nat
<1>1. CASE OfType(type) = {}
  BY <1>1 DEF NextNumber
<1>2. CASE OfType(type) # {}
  <2>1. \A v \in OfType(type) : v.number \in Nat
    BY DEF IInv, TypeOK, OfType, Version
  <2>2. \E n \in {v.number : v \in OfType(type)} : \A v \in OfType(type) : v.number <= n
    <3>1. PICK v \in DOMAIN versions : v.type = type
      BY <1>2 DEF OfType
    <3>2. PICK w \in DOMAIN versions :
            w.type = type /\ \A u \in DOMAIN versions : u.type = type => u.number <= w.number
      BY <3>1 DEF IInv, Numbered
    <3>. QED
      BY <3>2 DEF OfType
  <2> DEFINE top == CHOOSE n \in {v.number : v \in OfType(type)} :
                        \A v \in OfType(type) : v.number <= n
  <2>3. top \in {v.number : v \in OfType(type)}
    BY <2>2
  <2>4. NextNumber(type) = 1 + top
    BY <1>2 DEF NextNumber
  <2> HIDE DEF top
  <2>. QED
    BY <2>1, <2>3, <2>4
<1>. QED
  BY <1>1, <1>2

\* What a creation in progress has at hand.
LEMMA CreateLocals ==
    ASSUME IInv, NEW c \in Clients, call[c].op = "create"
    PROVE  LET todo == call[c].todo
           IN /\ todo \in Todo /\ todo # <<>>
              /\ \A n \in 1..Len(todo) : ItemsSound(papers, todo[n].items)
              /\ Bucket(c) \in [type : Types, items : SUBSET Item]
              /\ ItemsSound(papers, Bucket(c).items)
<1> DEFINE todo == call[c].todo
<1>1. todo \in Todo /\ todo # <<>>
      /\ \A n \in 1..Len(todo) : ItemsSound(papers, todo[n].items)
  BY LocalsOf DEF IInv, TypeOK, CallsSound, CallSound
<1>2. Bucket(c) = todo[1] /\ 1 \in 1..Len(todo)
  BY <1>1 DEF Bucket, Todo
<1> HIDE DEF todo
<1>3. todo[1] \in [type : Types, items : SUBSET Item]
  BY <1>1, <1>2, ElementOfSeq DEF Todo
<1>. QED
  BY <1>1, <1>2, <1>3 DEF todo

LEMMA LookForIdenticalStep ==
    ASSUME IInv, NEW c \in Clients, LookForIdentical(c)
    PROVE  IInv'
<1> USE DEF LookForIdentical
<1>1. UNCHANGED <<vault, versions, exports, compiled, token, crashes>>
      /\ versionDirs' \subseteq Version /\ exportDirs' \cup compiledDirs' \subseteq Export
  BY DEF IInv, TypeOK, factory, released, compilation
<1>2. CASE Finish(c)
  BY <1>1, <1>2, QuietEnd DEF IInv, TypeOK
<1>3. CASE Goto(c, "number")
  <2> DEFINE k == [op |-> "create", at |-> "number", todo |-> call[c].todo]
  <2>1. call[c].op = "create" /\ call[c].at = "look"
    BY DEF At
  <2>2. call' = [call EXCEPT ![c] = k]
    BY <1>3, <2>1, GotoRecord, LocalsOf DEF IInv, TypeOK
  <2>3. k \in Locals /\ CallSound(papers, k)
    BY <2>1, CreateLocals DEF Locals, CallSound
  <2> HIDE DEF k
  <2>. QED
    BY <1>1, <2>2, <2>3, QuietGoOn
<1>. QED
  BY <1>2, <1>3

LEMMA TakeNumberStep ==
    ASSUME IInv, NEW c \in Clients, TakeNumber(c)
    PROVE  IInv'
<1> DEFINE b == Bucket(c)
           v == [type |-> b.type, number |-> NextNumber(b.type), items |-> b.items]
           k == [op |-> "create", at |-> "publish", todo |-> call[c].todo, about |-> v]
<1>1. UNCHANGED <<vault, versions, exports, compiled, token, crashes>>
      /\ versionDirs' \subseteq Version /\ exportDirs' \cup compiledDirs' \subseteq Export
  BY DEF IInv, TypeOK, factory, released, compilation, TakeNumber
<1>2. call[c].op = "create"
  BY DEF TakeNumber, At
<1>3. Finish(c) \/ call' = [call EXCEPT ![c] = k]
  BY DEF TakeNumber
<1>4. v \in Version /\ ItemsSound(papers, v.items)
  BY <1>2, CreateLocals, NextNumberType DEF Version
<1> HIDE DEF v
<1>5. k \in Locals /\ CallSound(papers, k)
  BY <1>2, <1>4, CreateLocals DEF Locals, CallSound
<1> HIDE DEF k
<1>6. CASE Finish(c)
  BY <1>1, <1>6, QuietEnd DEF IInv, TypeOK
<1>7. CASE call' = [call EXCEPT ![c] = k]
  BY <1>1, <1>5, <1>7, QuietGoOn
<1>. QED
  BY <1>3, <1>6, <1>7

LEMMA PublishVersionStep ==
    ASSUME IInv, NEW c \in Clients, PublishVersion(c)
    PROVE  IInv'
<1> DEFINE v == call[c].about
           k == [op |-> "create", at |-> "register", todo |-> call[c].todo, about |-> v]
<1>1. call[c].op = "create" /\ call[c].at = "publish"
  BY DEF PublishVersion, At
<1>2. /\ v \in Version
      /\ call[c] = [op |-> "create", at |-> "publish", todo |-> call[c].todo, about |-> v]
  BY <1>1, LocalsOf DEF IInv, TypeOK
<1>3. ItemsSound(papers, v.items)
  BY <1>1 DEF IInv, CallsSound, CallSound
<1>4. UNCHANGED <<vault, versions, exports, compiled, token, crashes>>
      /\ versionDirs' \subseteq Version /\ exportDirs' \cup compiledDirs' \subseteq Export
  BY <1>2 DEF IInv, TypeOK, released, compilation, PublishVersion
<1>5. Finish(c) \/ Goto(c, "register")
  BY DEF PublishVersion
<1>6. k \in Locals /\ CallSound(papers, k)
  BY <1>1, <1>2, <1>3, CreateLocals DEF Locals, CallSound
<1>7. CASE Finish(c)
  BY <1>4, <1>7, QuietEnd DEF IInv, TypeOK
<1>8. CASE Goto(c, "register")
  <2>1. call' = [call EXCEPT ![c] = k]
    BY <1>2, <1>8, GotoRecord
  <2> HIDE DEF k
  <2>. QED
    BY <1>4, <1>6, <2>1, QuietGoOn
<1>. QED
  BY <1>5, <1>7, <1>8

\* A version added under a number of its own.
LEMMA AddVersion ==
    ASSUME IInv, NEW v \in Version, ~Conflicts(v), ItemsSound(papers, v.items),
           versions' = [w \in DOMAIN versions \cup {v} |->
                            IF w = v THEN "candidate" ELSE versions[w]],
           UNCHANGED <<exps, exports, token>>
    PROVE  /\ Grown(papers, papers')
           /\ papers'.promoted = papers.promoted
           /\ Numbered(DOMAIN versions)'
           /\ \A w \in DOMAIN versions' :
                w \in Version /\ versions'[w] \in {"candidate", "approved-for-export"}
           /\ \A w \in DOMAIN versions' : w \in DOMAIN versions \/ ItemsSound(papers', w.items)
<1>1. v \notin DOMAIN versions
  BY DEF Conflicts, OfType
<1>2. DOMAIN versions' = DOMAIN versions \cup {v}
      /\ versions'[v] = "candidate"
      /\ \A w \in DOMAIN versions : versions'[w] = versions[w]
  BY <1>1
<1>3. papers'.promoted = papers.promoted
  BY <1>1, <1>2 DEF papers
<1>4. Grown(papers, papers')
  BY <1>2, <1>3 DEF papers, Grown
<1>5. Numbered(DOMAIN versions)'
  <2> USE DEF IInv, TypeOK, Version
  <2>1. SUFFICES ASSUME NEW u \in DOMAIN versions \cup {v}
                 PROVE  \E w \in DOMAIN versions \cup {v} :
                            /\ w.type = u.type
                            /\ \A x \in DOMAIN versions \cup {v} :
                                    x.type = u.type => x.number <= w.number
    BY <1>2 DEF Numbered
  <2>2. CASE u.type # v.type
    BY <2>2 DEF Numbered
  <2>3. CASE u.type = v.type /\ OfType(v.type) = {}
    BY <2>3 DEF OfType
  <2>4. CASE u.type = v.type /\ OfType(v.type) # {}
    <3>1. PICK w \in DOMAIN versions :
            w.type = v.type /\ \A x \in DOMAIN versions : x.type = v.type => x.number <= w.number
      BY <2>4 DEF Numbered, OfType
    <3>2. CASE w.number <= v.number
      <4>1. \A x \in DOMAIN versions : x.type = v.type => x.number <= v.number
        BY <3>1, <3>2
      <4>. QED
        BY <2>4, <4>1
    <3>3. CASE v.number <= w.number
      BY <2>4, <3>1, <3>3
    <3>. QED
      BY <3>2, <3>3
  <2>. QED
    BY <2>2, <2>3, <2>4
<1>6. \A w \in DOMAIN versions' :
        w \in Version /\ versions'[w] \in {"candidate", "approved-for-export"}
  BY <1>2 DEF IInv, TypeOK
<1>7. \A w \in DOMAIN versions' : w \in DOMAIN versions \/ ItemsSound(papers', w.items)
  BY <1>2, <1>4, GrownKeepsItems
<1>. QED
  BY <1>3, <1>4, <1>5, <1>6, <1>7

LEMMA NextBucketKeeps ==
    ASSUME IInv, NEW c \in Clients, call[c].op = "create", NextBucket(c)
    PROVE  /\ call' \in [Clients -> Locals]
           /\ \A d \in Clients : call'[d] \in {call[d], Idle} \/ CallSound(papers, call'[d])
<1> DEFINE todo == call[c].todo
           k == IF Len(todo) = 1 THEN Idle
                ELSE [op |-> "create", at |-> "look", todo |-> Tail(todo)]
<1>1. todo \in Todo /\ todo # <<>> /\ \A n \in 1..Len(todo) : ItemsSound(papers, todo[n].items)
  BY CreateLocals
<1>2. call' = [call EXCEPT ![c] = k]
  BY DEF NextBucket
<1> HIDE DEF todo
<1>3. CASE Len(todo) = 1
  <2>1. k = Idle
    BY <1>3
  <2>. QED
    BY <1>2, <2>1, StartKeeps DEF Locals
<1>4. CASE Len(todo) # 1
  <2>1. /\ Tail(todo) \in Todo /\ Tail(todo) # <<>>
        /\ Len(Tail(todo)) = Len(todo) - 1
        /\ \A n \in 1..Len(Tail(todo)) : Tail(todo)[n] = todo[n + 1]
    <3>1. /\ Tail(todo) \in Todo /\ Len(Tail(todo)) = Len(todo) - 1
          /\ \A n \in 1..Len(Tail(todo)) : Tail(todo)[n] = todo[n + 1]
      BY <1>1, HeadTailProperties DEF Todo
    <3>2. Len(todo) \in Nat /\ Len(todo) # 0
      BY <1>1, EmptySeq DEF Todo
    <3>3. Tail(todo) # <<>>
      <4> DEFINE rest == Tail(todo)
      <4>1. Len(rest) # 0
        BY <1>4, <3>1, <3>2
      <4> HIDE DEF rest
      <4>2. rest # <<>>
        BY <4>1
      <4>. QED
        BY <4>2 DEF rest
    <3>. QED
      BY <3>1, <3>3
  <2>2. \A n \in 1..Len(Tail(todo)) : n + 1 \in 1..Len(todo)
    BY <1>1, <2>1 DEF Todo
  <2>3. k \in Locals /\ CallSound(papers, k)
    BY <1>1, <1>4, <2>1, <2>2 DEF Locals, CallSound
  <2> HIDE DEF k
  <2>. QED
    BY <1>2, <2>3, StartKeeps
<1>. QED
  BY <1>3, <1>4

LEMMA RegisterVersionStep ==
    ASSUME IInv, NEW c \in Clients, RegisterVersion(c)
    PROVE  IInv'
<1> DEFINE v == call[c].about
<1>1. call[c].op = "create" /\ call[c].at = "register"
  BY DEF RegisterVersion, At
<1>2. v \in Version /\ ItemsSound(papers, v.items)
  BY <1>1, LocalsOf DEF IInv, TypeOK, CallsSound, CallSound
<1>3. UNCHANGED <<exps, feedback, exports, exportDirs, compiled, compiledDirs, token, crashes>>
  BY DEF RegisterVersion, vault, released, compilation
<1>4. CASE Conflicts(v)
  BY <1>3, <1>4, QuietEnd DEF IInv, TypeOK, RegisterVersion, vault
<1>5. CASE ~Conflicts(v)
  <2>1. /\ versions' = [w \in DOMAIN versions \cup {v} |->
                            IF w = v THEN "candidate" ELSE versions[w]]
        /\ versionDirs' = versionDirs
        /\ NextBucket(c)
    BY <1>5 DEF RegisterVersion
  <2> HIDE DEF v
  <2>2. /\ Grown(papers, papers')
        /\ papers'.promoted = papers.promoted
        /\ Numbered(DOMAIN versions)'
        /\ \A w \in DOMAIN versions' :
                w \in Version /\ versions'[w] \in {"candidate", "approved-for-export"}
        /\ \A w \in DOMAIN versions' : w \in DOMAIN versions \/ ItemsSound(papers', w.items)
    BY <1>2, <1>3, <1>5, <2>1, AddVersion
  <2>3. /\ call' \in [Clients -> Locals]
        /\ \A d \in Clients : call'[d] \in {call[d], Idle} \/ CallSound(papers, call'[d])
    BY <1>1, <2>1, NextBucketKeeps
  <2>4. \A d \in Clients : call'[d] \in {call[d], Idle} \/ CallSound(papers', call'[d])
    BY <2>2, <2>3, GrownKeepsCall
  <2>5. TypeOK'
    BY <1>3, <2>1, <2>2, <2>3 DEF IInv, TypeOK, Cyber!TokenTypeOK
  <2>. QED
    BY <1>3, <2>2, <2>4, <2>5, Frame
<1>. QED
  BY <1>4, <1>5

-----------------------------------------------------------------------------
\* The vault

LEMMA VaultKeeps ==
    ASSUME IInv, UNCHANGED <<factory, released, compilation, token, call, crashes>>,
           exps' \in [Exps -> Experience \cup {NotCaptured}], feedback' \in Seq(Feedback),
           \A e \in Exps : PassesDany(exps[e]) => PassesDany(exps'[e])
    PROVE  IInv'
<1>1. Grown(papers, papers') /\ papers'.promoted = papers.promoted
  BY DEF papers, Grown, factory, released
<1>2. TypeOK'
  BY DEF IInv, TypeOK, factory, released, compilation, Cyber!TokenTypeOK
<1>3. Numbered(DOMAIN versions)'
  BY DEF IInv, Numbered, factory
<1>. QED
  BY <1>1, <1>2, <1>3, Frame DEF factory, released, compilation

LEMMA VaultSteps ==
    ASSUME IInv, NEW e \in Exps,
           \/ CaptureChat(e)
           \/ \E q \in {"failed", "passed"} : UpdateQuality(e, q)
           \/ \E verdict \in Verdicts, text \in Texts : CaptureFeedback(e, verdict, text)
    PROVE  IInv'
<1> USE DEF PassesDany, Experience
<1>0. exps \in [Exps -> Experience \cup {NotCaptured}] /\ feedback \in Seq(Feedback)
      /\ Reviews = {"unreviewed", "user_accepted", "user_rejected", "user_corrected"}
  BY DEF IInv, TypeOK, Reviews
<1>1. CASE CaptureChat(e)
  <2>1. /\ exps[e].quality = "absent"
        /\ exps' = [exps EXCEPT ![e] = Unjudged]
    BY <1>1 DEF CaptureChat, NotCaptured
  <2>2. Unjudged \in Experience
    BY <1>0 DEF Unjudged
  <2>. QED
    BY <1>0, <1>1, <2>1, <2>2, VaultKeeps DEF CaptureChat
<1>2. ASSUME NEW q \in {"failed", "passed"}, UpdateQuality(e, q) PROVE IInv'
  <2> DEFINE r == [quality |-> q, review |-> exps[e].review]
  <2>1. exps[e].quality = "none" /\ exps[e] \in Experience
    BY <1>0, <1>2 DEF UpdateQuality, NotCaptured
  <2>2. exps' = [exps EXCEPT ![e] = r] /\ r \in Experience
    <3>1. r \in Experience /\ [exps[e] EXCEPT !.quality = q] = r
      BY <2>1
    <3>2. exps' = [exps EXCEPT ![e] = [exps[e] EXCEPT !.quality = q]]
      BY <1>0, <1>2 DEF UpdateQuality
    <3>. QED
      BY <3>1, <3>2
  <2> HIDE DEF r
  <2>. QED
    BY <1>0, <1>2, <2>1, <2>2, VaultKeeps DEF UpdateQuality
<1>3. ASSUME NEW verdict \in Verdicts, NEW text \in Texts, CaptureFeedback(e, verdict, text)
      PROVE  IInv'
  <2> DEFINE r == [quality |-> exps[e].quality, review |-> ReviewState(verdict)]
             row == [exp |-> e, verdict |-> verdict, text |-> text]
  <2>1. exps[e] \in Experience
    BY <1>0, <1>3 DEF CaptureFeedback
  <2>2. ReviewState(verdict) \in Reviews
    BY <1>0 DEF ReviewState, Verdicts
  <2>3. exps' = [exps EXCEPT ![e] = r] /\ r \in Experience /\ r.quality = exps[e].quality
    <3> DEFINE review == ReviewState(verdict)
    <3>1. exps' = [exps EXCEPT ![e] = [exps[e] EXCEPT !.review = review]]
      BY <1>0, <1>3 DEF CaptureFeedback
    <3> HIDE DEF review
    <3>2. r \in Experience /\ [exps[e] EXCEPT !.review = review] = r
      BY <2>1, <2>2 DEF review
    <3>. QED
      BY <3>1, <3>2
  <2>4. feedback' = Append(feedback, row) /\ row \in Feedback
    BY <1>3 DEF CaptureFeedback, Feedback
  <2> HIDE DEF r, row
  <2>. QED
    BY <1>0, <1>3, <2>3, <2>4, VaultKeeps DEF CaptureFeedback
<1>. QED
  BY <1>1, <1>2, <1>3

-----------------------------------------------------------------------------
\* Approvals asked for, decided and spent

\* A step that changes approvals, and perhaps the call of a client.
LEMMA TokenKeeps ==
    ASSUME IInv, UNCHANGED <<vault, factory, released, compilation, crashes>>,
           Cyber!TokenTypeOK', Grown(papers, papers'),
           papers'.promoted = papers.promoted, call' \in [Clients -> Locals],
           \A c \in Clients : call'[c] \in {call[c], Idle} \/ CallSound(papers', call'[c])
    PROVE  IInv'
<1>1. TypeOK'
  BY DEF IInv, TypeOK, vault, factory, released, compilation
<1>2. Numbered(DOMAIN versions)'
  BY DEF IInv, Numbered, factory
<1>. QED
  BY <1>1, <1>2, Frame DEF factory, released, compilation

LEMMA RequestKeeps ==
    ASSUME IInv, NEW t \in Ids, NEW k \in Calls, Cyber!Issue(t, k),
           UNCHANGED <<vault, factory, released, compilation, call, crashes>>
    PROVE  IInv'
<1>1. Cyber!TokenTypeOK' /\ Grown(papers, papers') /\ papers' = papers
  BY IssueKeeps DEF IInv, TypeOK, vault, factory, released
<1>. QED
  BY <1>1, TokenKeeps DEF IInv, TypeOK

LEMMA RequestSteps ==
    ASSUME IInv, NEW t \in Ids,
           \/ \E v \in DOMAIN versions : RequestPromotion(t, v)
           \/ \E v \in DOMAIN versions, p \in Percents :
                RequestExport(t, [version |-> v, percent |-> p])
           \/ \E x \in exports : RequestCompile(t, x)
    PROVE  IInv'
<1>0. /\ \A v \in DOMAIN versions : v \in Version
      /\ \A x \in exports : x \in Export
  BY DEF IInv, TypeOK
<1>1. ASSUME NEW v \in DOMAIN versions, RequestPromotion(t, v) PROVE IInv'
  <2>1. [tool |-> "approve", args |-> v] \in Calls
    BY <1>0 DEF Calls
  <2>. QED
    BY <1>1, <2>1, RequestKeeps DEF RequestPromotion
<1>2. ASSUME NEW v \in DOMAIN versions, NEW p \in Percents,
             RequestExport(t, [version |-> v, percent |-> p])
      PROVE  IInv'
  <2>1. [tool |-> "export", args |-> [version |-> v, percent |-> p]] \in Calls
    BY <1>0 DEF Calls, Export
  <2>. QED
    BY <1>2, <2>1, RequestKeeps DEF RequestExport
<1>3. ASSUME NEW x \in exports, RequestCompile(t, x) PROVE IInv'
  <2>1. [tool |-> "compile", args |-> x] \in Calls
    BY <1>0 DEF Calls
  <2>. QED
    BY <1>3, <2>1, RequestKeeps DEF RequestCompile
<1>. QED
  BY <1>1, <1>2, <1>3

LEMMA DecideStep ==
    ASSUME IInv, NEW t \in Ids, Decide(t)
    PROVE  IInv'
<1>1. PICK s \in {"approved", "expired"} :
        token[t].status \in {"pending", "approved"} /\ Cyber!SetStatus(t, s)
  BY DEF Decide, Cyber!Decide, Cyber!Lapse
<1>2. Cyber!TokenTypeOK' /\ Grown(papers, papers') /\ papers'.promoted = papers.promoted
  BY <1>1, StatusKeeps DEF IInv, TypeOK, Decide, vault, factory, released
<1>. QED
  BY <1>2, TokenKeeps DEF IInv, TypeOK, Decide

LEMMA BeginSteps ==
    ASSUME IInv, NEW c \in Clients, NEW t \in Ids,
           \/ \E v \in DOMAIN versions : BeginApprove(c, t, v)
           \/ \E v \in DOMAIN versions, p \in Percents :
                BeginExport(c, t, [version |-> v, percent |-> p])
           \/ \E x \in exports : BeginCompile(c, t, x)
    PROVE  IInv'
<1>0. /\ \A v \in DOMAIN versions : v \in Version
      /\ \A x \in exports : x \in Export
      /\ versionDirs \subseteq Version /\ exportDirs \cup compiledDirs \subseteq Export
  BY DEF IInv, TypeOK
<1> USE <1>0 DEF factory, released, compilation
<1>1. ASSUME NEW v \in DOMAIN versions, BeginApprove(c, t, v) PROVE IInv'
  <2> DEFINE k == [op |-> "approve", at |-> "consume", about |-> v, token |-> t]
  <2>1. k \in Locals
    BY DEF Locals
  <2>2. CallSound(papers, k)
    BY <1>1 DEF CallSound, papers, BeginApprove, Reviewable
  <2>3. call' = [call EXCEPT ![c] = k]
    BY <1>1 DEF BeginApprove, Start
  <2> HIDE DEF k
  <2>. QED
    BY <1>1, <2>1, <2>2, <2>3, QuietGoOn DEF BeginApprove
<1>2. ASSUME NEW v \in DOMAIN versions, NEW p \in Percents,
             BeginExport(c, t, [version |-> v, percent |-> p])
      PROVE  IInv'
  <2> DEFINE x == [version |-> v, percent |-> p]
             k == [op |-> "export", at |-> "consume", about |-> x, token |-> t]
  <2>1. x \in Export /\ x.version = v
    BY DEF Export
  <2>2. versions[v] = "approved-for-export"
    BY <1>2 DEF BeginExport, Exportable
  <2>3. call' = [call EXCEPT ![c] = k]
    BY <1>2 DEF BeginExport, Start
  <2>4. UNCHANGED <<vault, factory, released, compilation, token, crashes>>
    BY <1>2 DEF BeginExport
  <2> HIDE DEF x
  <2>5. k \in Locals /\ CallSound(papers, k)
    BY <2>1, <2>2 DEF Locals, CallSound, papers
  <2> HIDE DEF k
  <2>. QED
    BY <2>3, <2>4, <2>5, QuietGoOn
<1>3. ASSUME NEW x \in exports, BeginCompile(c, t, x) PROVE IInv'
  <2> DEFINE k == [op |-> "compile", at |-> "consume", about |-> x, token |-> t]
  <2>1. k \in Locals /\ CallSound(papers, k)
    BY DEF Locals, CallSound, papers
  <2>2. call' = [call EXCEPT ![c] = k]
    BY <1>3 DEF BeginCompile, Start
  <2> HIDE DEF k
  <2>. QED
    BY <1>3, <2>1, <2>2, QuietGoOn DEF BeginCompile
<1>. QED
  BY <1>1, <1>2, <1>3

LEMMA ConsumeKeeps ==
    ASSUME IInv, NEW c \in Clients, NEW op, NEW next,
           <<op, next>> \in {<<"approve", "transition">>, <<"export", "place">>,
                             <<"compile", "place">>},
           Consume(c, op, next),
           UNCHANGED <<vault, factory, released, compilation, crashes>>
    PROVE  IInv'
<1> DEFINE t == call[c].token
           x == call[c].about
           k == [op |-> op, at |-> next, about |-> x, token |-> t]
<1>1. call[c].op = op /\ call[c].at = "consume"
  BY DEF Consume, At
<1>2. /\ t \in Ids
      /\ call[c] = [op |-> op, at |-> "consume", about |-> x, token |-> t]
      /\ op = "approve" => x \in Version
      /\ op \in {"export", "compile"} => x \in Export
  BY <1>1, LocalsOf DEF IInv, TypeOK
<1>3. CallSound(papers, call[c])
  BY DEF IInv, CallsSound
<1>4. CASE Cyber!Spend(t, [tool |-> op, args |-> x]) /\ Goto(c, next)
  <2>1. /\ token[t].status = "approved" /\ token[t].call = [tool |-> op, args |-> x]
        /\ Cyber!SetStatus(t, "consumed")
    BY <1>4 DEF Cyber!Spend, Cyber!Spendable
  <2>2. /\ Cyber!TokenTypeOK' /\ Grown(papers, papers')
        /\ papers'.promoted = papers.promoted
        /\ Paid(papers', op, x)
    BY <1>2, <2>1, StatusKeeps DEF IInv, TypeOK, vault, factory, released, Paid
  <2>3. call' = [call EXCEPT ![c] = k]
    BY <1>2, <1>4, GotoRecord
  <2>4. k \in Locals
    BY <1>2 DEF Locals
  <2>5. CallSound(papers', call[c])
    BY <1>3, <2>2, GrownKeepsCall
  <2>6. CallSound(papers', k)
    BY <1>1, <1>2, <2>2, <2>5 DEF CallSound
  <2> HIDE DEF k
  <2>. QED
    BY <2>2, <2>3, <2>4, <2>6, StartKeeps, TokenKeeps
<1>5. CASE Finish(c) /\ UNCHANGED token
  BY <1>5, QuietEnd DEF IInv, TypeOK, factory, released, compilation
<1>. QED
  BY <1>4, <1>5 DEF Consume

LEMMA ConsumeSteps ==
    ASSUME IInv, NEW c \in Clients, ConsumeApproval(c) \/ ConsumeExport(c) \/ ConsumeCompile(c)
    PROVE  IInv'
<1>1. CASE ConsumeApproval(c)
  BY <1>1, ConsumeKeeps DEF ConsumeApproval
<1>2. CASE ConsumeExport(c)
  BY <1>2, ConsumeKeeps DEF ConsumeExport
<1>3. CASE ConsumeCompile(c)
  BY <1>3, ConsumeKeeps DEF ConsumeCompile
<1>. QED
  BY <1>1, <1>2, <1>3

-----------------------------------------------------------------------------
\* What approvals were spent for

LEMMA PromoteStep ==
    ASSUME IInv, NEW c \in Clients, RecordReviewTransition(c)
    PROVE  IInv'
<1> DEFINE v == call[c].about
<1>1. call[c].op = "approve" /\ call[c].at = "transition"
  BY DEF RecordReviewTransition, At
<1>2. DanyAccepts(v) /\ Paid(papers, "approve", v)
  BY <1>1 DEF IInv, CallsSound, CallSound
<1>3. UNCHANGED <<exps, feedback, versionDirs, exports, exportDirs, compiled, compiledDirs,
                  token, crashes>>
      /\ Finish(c)
  BY DEF RecordReviewTransition, vault, released, compilation
<1>4. \/ UNCHANGED versions
      \/ /\ v \in DOMAIN versions
         /\ versions' = [versions EXCEPT ![v] = "approved-for-export"]
  BY DEF RecordReviewTransition
<1> HIDE DEF v
<1>5. CASE UNCHANGED versions
  BY <1>3, <1>5, QuietEnd DEF IInv, TypeOK, vault
<1>6. CASE /\ v \in DOMAIN versions
           /\ versions' = [versions EXCEPT ![v] = "approved-for-export"]
  <2>1. DOMAIN versions' = DOMAIN versions
        /\ versions'[v] = "approved-for-export"
        /\ \A w \in DOMAIN versions \ {v} : versions'[w] = versions[w]
    BY <1>6
  <2>2. papers'.promoted = papers.promoted \cup {v}
    BY <1>6, <2>1 DEF papers
  <2>3. Grown(papers, papers')
    BY <1>3, <2>1, <2>2 DEF papers, Grown
  <2>4. /\ call' \in [Clients -> Locals]
        /\ \A d \in Clients : call'[d] \in {call[d], Idle}
    BY <1>3, FinishKeeps
  <2>5. TypeOK'
    BY <1>3, <2>1, <2>4 DEF IInv, TypeOK, Cyber!TokenTypeOK
  <2>6. Numbered(DOMAIN versions)'
    BY <2>1 DEF IInv, Numbered
  <2>7. Paid(papers', "approve", v)
    BY <1>2, <2>3 DEF Grown, Paid
  <2>. QED
    BY <1>2, <1>3, <2>1, <2>2, <2>3, <2>4, <2>5, <2>6, <2>7, Frame
<1>. QED
  BY <1>4, <1>5, <1>6

LEMMA ExportQuietSteps ==
    ASSUME IInv, NEW c \in Clients, PlaceExport(c) \/ PublishExport(c)
    PROVE  IInv'
<1> DEFINE x == call[c].about
           k(at) == [op |-> "export", at |-> at, about |-> x, token |-> call[c].token]
<1>1. call[c].op = "export" /\ call[c].at \in {"place", "publish"}
  BY DEF PlaceExport, PublishExport, At
<1>2. /\ x \in Export /\ call[c].token \in Ids
      /\ call[c] = k(call[c].at)
  BY <1>1, LocalsOf DEF IInv, TypeOK
<1>3. UNCHANGED <<vault, versions, exports, compiled, token, crashes>>
      /\ versionDirs' \subseteq Version /\ exportDirs' \cup compiledDirs' \subseteq Export
  BY <1>2 DEF IInv, TypeOK, factory, released, compilation, PlaceExport, PublishExport
<1>4. Finish(c) \/ Goto(c, "publish") \/ Goto(c, "register")
  BY DEF PlaceExport, PublishExport
<1>5. ASSUME NEW at \in {"publish", "register"}, Goto(c, at) PROVE IInv'
  <2>1. call' = [call EXCEPT ![c] = k(at)]
    BY <1>2, <1>5, GotoRecord
  <2>2. k(at) \in Locals
    BY <1>2 DEF Locals
  <2>3. CallSound(papers, k(at))
    BY <1>1, <1>2 DEF IInv, CallsSound, CallSound
  <2> HIDE DEF k
  <2>. QED
    BY <1>3, <2>1, <2>2, <2>3, QuietGoOn
<1>6. CASE Finish(c)
  BY <1>3, <1>6, QuietEnd DEF IInv, TypeOK
<1>. QED
  BY <1>4, <1>5, <1>6

LEMMA RegisterExportStep ==
    ASSUME IInv, NEW c \in Clients, RegisterExport(c)
    PROVE  IInv'
<1> DEFINE x == call[c].about
<1>1. call[c].op = "export" /\ call[c].at = "register"
  BY DEF RegisterExport, At
<1>2. x \in Export
  BY <1>1, LocalsOf DEF IInv, TypeOK
<1>3. x.version \in papers.promoted /\ Paid(papers, "export", x)
  <2>1. CallSound(papers, call[c])
    BY DEF IInv, CallsSound
  <2>. QED
    BY <1>1, <2>1 DEF CallSound, papers
<1>4. UNCHANGED <<exps, feedback, versions, versionDirs, compiled, compiledDirs,
                  token, crashes>>
      /\ Finish(c) /\ exportDirs' \subseteq exportDirs
      /\ (UNCHANGED exports \/ exports' = exports \cup {x})
  BY DEF RegisterExport, vault, factory, compilation
<1>5. papers'.promoted = papers.promoted /\ Grown(papers, papers')
  BY <1>4 DEF papers, Grown
<1>6. /\ call' \in [Clients -> Locals]
      /\ \A d \in Clients : call'[d] \in {call[d], Idle}
  BY <1>4, FinishKeeps
<1> HIDE DEF x
<1>7. TypeOK'
  BY <1>2, <1>4, <1>6 DEF IInv, TypeOK, Cyber!TokenTypeOK
<1>8. Numbered(DOMAIN versions)'
  BY <1>4 DEF IInv, Numbered
<1>9. Paid(papers', "export", x)
  BY <1>3, <1>5 DEF Grown, Paid
<1>. QED
  BY <1>3, <1>4, <1>5, <1>6, <1>7, <1>8, <1>9, Frame

LEMMA CompileQuietSteps ==
    ASSUME IInv, NEW c \in Clients, PlaceCompiled(c) \/ PublishCompiled(c)
    PROVE  IInv'
<1> DEFINE x == call[c].about
           k(at) == [op |-> "compile", at |-> at, about |-> x, token |-> call[c].token]
<1>1. call[c].op = "compile" /\ call[c].at \in {"place", "publish"}
  BY DEF PlaceCompiled, PublishCompiled, At
<1>2. /\ x \in Export /\ call[c].token \in Ids
      /\ call[c] = k(call[c].at)
  BY <1>1, LocalsOf DEF IInv, TypeOK
<1>3. UNCHANGED <<vault, versions, exports, compiled, token, crashes>>
      /\ versionDirs' \subseteq Version /\ exportDirs' \cup compiledDirs' \subseteq Export
  BY <1>2 DEF IInv, TypeOK, factory, released, compilation, PlaceCompiled, PublishCompiled
<1>4. Finish(c) \/ Goto(c, "publish") \/ Goto(c, "register")
  BY DEF PlaceCompiled, PublishCompiled
<1>5. ASSUME NEW at \in {"publish", "register"}, Goto(c, at) PROVE IInv'
  <2>1. call' = [call EXCEPT ![c] = k(at)]
    BY <1>2, <1>5, GotoRecord
  <2>2. k(at) \in Locals
    BY <1>2 DEF Locals
  <2>3. CallSound(papers, k(at))
    BY <1>1, <1>2 DEF IInv, CallsSound, CallSound
  <2> HIDE DEF k
  <2>. QED
    BY <1>3, <2>1, <2>2, <2>3, QuietGoOn
<1>6. CASE Finish(c)
  BY <1>3, <1>6, QuietEnd DEF IInv, TypeOK
<1>. QED
  BY <1>4, <1>5, <1>6

LEMMA RegisterCompiledStep ==
    ASSUME IInv, NEW c \in Clients, RegisterCompiled(c)
    PROVE  IInv'
<1> DEFINE x == call[c].about
<1>1. call[c].op = "compile" /\ call[c].at = "register"
  BY DEF RegisterCompiled, At
<1>2. x \in Export
  BY <1>1, LocalsOf DEF IInv, TypeOK
<1>3. x \in exports /\ Paid(papers, "compile", x)
  <2>1. CallSound(papers, call[c])
    BY DEF IInv, CallsSound
  <2>. QED
    BY <1>1, <2>1 DEF CallSound, papers
<1>4. UNCHANGED <<exps, feedback, versions, versionDirs, exports, exportDirs,
                  token, crashes>>
      /\ Finish(c) /\ compiledDirs' \subseteq compiledDirs
      /\ (UNCHANGED compiled \/ compiled' = compiled \cup {x})
  BY DEF RegisterCompiled, vault, factory, released
<1>5. papers'.promoted = papers.promoted /\ Grown(papers, papers')
  BY <1>4 DEF papers, Grown
<1>6. /\ call' \in [Clients -> Locals]
      /\ \A d \in Clients : call'[d] \in {call[d], Idle}
  BY <1>4, FinishKeeps
<1> HIDE DEF x
<1>7. TypeOK'
  BY <1>2, <1>4, <1>6 DEF IInv, TypeOK, Cyber!TokenTypeOK
<1>8. Numbered(DOMAIN versions)'
  BY <1>4 DEF IInv, Numbered
<1>9. Paid(papers', "compile", x)
  BY <1>3, <1>5 DEF Grown, Paid
<1>. QED
  BY <1>3, <1>4, <1>5, <1>6, <1>7, <1>8, <1>9, Frame

LEMMA CrashStep ==
    ASSUME IInv, NEW c \in Clients, Crash(c)
    PROVE  IInv'
<1>1. crashes' \in 0..MaxCrashes
  BY DEF IInv, TypeOK, Crash
<1>. QED
  BY <1>1, QuietEnd DEF IInv, TypeOK, Crash, factory, released, compilation

-----------------------------------------------------------------------------
\* Every step

LEMMA InitIInv == Init => IInv
<1> SUFFICES ASSUME Init PROVE IInv
  OBVIOUS
<1>1. TypeOK
  BY DEF Init, TypeOK, Locals, Cyber!TokenTypeOK
<1>2. CallsSound
  BY DEF Init, CallsSound, CallSound, Idle
<1>3. DOMAIN versions = {} /\ exports = {} /\ compiled = {}
  BY DEF Init
<1>4. papers.promoted = {}
  BY <1>3 DEF papers
<1>. QED
  BY <1>1, <1>2, <1>3, <1>4
     DEF IInv, Numbered, VersionsSound, PromotedSound, ExportsSound, CompiledSound

LEMMA StutterIInv == IInv /\ UNCHANGED vars => IInv'
<1> SUFFICES ASSUME IInv, UNCHANGED vars PROVE IInv'
  OBVIOUS
<1>. QED
  BY QuietStep DEF IInv, TypeOK, vars, factory, released, compilation

LEMMA NextIInv == IInv /\ [Next]_vars => IInv'
<1> SUFFICES ASSUME IInv, [Next]_vars PROVE IInv'
  OBVIOUS
<1>0. Approved \subseteq Ids /\ Operators \subseteq Clients
  BY DEF Approved
<1>1. CASE VaultNext
  BY <1>1, VaultSteps, ReadExperiencesStep, ReadFeedbackStep, MaterializeStep DEF VaultNext
<1>2. CASE FactoryNext
  BY <1>0, <1>2, RequestSteps, BeginSteps, LookForIdenticalStep, TakeNumberStep,
     PublishVersionStep, RegisterVersionStep, ConsumeSteps, PromoteStep DEF FactoryNext
<1>3. CASE ExportNext
  BY <1>0, <1>3, RequestSteps, BeginSteps, ConsumeSteps, ExportQuietSteps, RegisterExportStep
     DEF ExportNext
<1>4. CASE CompilerNext
  BY <1>0, <1>4, RequestSteps, BeginSteps, ConsumeSteps, CompileQuietSteps,
     RegisterCompiledStep DEF CompilerNext
<1>5. CASE \E t \in Ids : Decide(t)
  BY <1>5, DecideStep
<1>6. CASE \E c \in Clients : Crash(c)
  BY <1>6, CrashStep
<1>7. CASE UNCHANGED vars
  BY <1>7, StutterIInv
<1>. QED
  BY <1>1, <1>2, <1>3, <1>4, <1>5, <1>6, <1>7 DEF Next

-----------------------------------------------------------------------------
\* The split

LEMMA SubsetOfSize ==
    ASSUME NEW S, IsFiniteSet(S), NEW k \in 0..Cardinality(S)
    PROVE  \E T \in SUBSET S : Cardinality(T) = k
<1>1. PICK f \in Bijection(1..Cardinality(S), S) : TRUE
  BY FS_CardinalityType DEF ExistsBijection
<1> DEFINE T == {f[i] : i \in 1..k}
           g == [i \in 1..k |-> f[i]]
<1>2. Cardinality(S) \in Nat
  BY FS_CardinalityType
<1>3. 1..k \subseteq 1..Cardinality(S)
  BY <1>2
<1>4. T \subseteq S
  BY <1>1, <1>3 DEF Bijection, Injection
<1>5. g \in Bijection(1..k, T)
  <2>1. g \in [1..k -> T] /\ \A i \in 1..k : g[i] = f[i]
    OBVIOUS
  <2>2. \A i, j \in 1..k : f[i] = f[j] => i = j
    BY <1>1, <1>3 DEF Bijection, Injection, IsInjective
  <2>3. \A t \in T : \E i \in 1..k : t = f[i]
    OBVIOUS
  <2> HIDE DEF T, g
  <2>. QED
    BY <2>1, <2>2, <2>3 DEF Bijection, Injection, IsInjective, Surjection
<1>6. IsFiniteSet(1..k) /\ Cardinality(1..k) = k
  BY <1>2, FS_Interval
<1>7. Cardinality(T) = k
  BY <1>5, <1>6, FS_Bijection DEF ExistsBijection
<1>. QED
  BY <1>4, <1>7

LEMMA EvalCountBounds ==
    ASSUME NEW n \in Nat \ {0}, NEW p \in Nat
    PROVE  /\ EvalCount(n, p) \in 0..(n - 1)
           /\ p > 0 /\ n > 1 => EvalCount(n, p) > 0
<1> DEFINE desired == RoundHalfEven(n * p, 100)
<1>1. desired \in Int
  <2>1. n * p \in Int
    OBVIOUS
  <2>. QED
    BY <2>1 DEF RoundHalfEven
<1>2. EvalCount(n, p) =
        IF n < 2 \/ p = 0 THEN 0
        ELSE IF desired < 1 THEN 1 ELSE IF desired > n - 1 THEN n - 1 ELSE desired
  BY DEF EvalCount
<1> HIDE DEF desired
<1>. QED
  BY <1>1, <1>2

LEMMA EvalItemsSize ==
    ASSUME NEW x \in Export, IsFiniteSet(x.version.items), x.version.items # {}
    PROVE  /\ EvalItems(x) \subseteq x.version.items
           /\ EvalItems(x) # x.version.items
           /\ x.percent > 0 /\ Cardinality(x.version.items) > 1 => EvalItems(x) # {}
<1> DEFINE items == x.version.items
           n == Cardinality(items)
           k == EvalCount(n, x.percent)
<1>1. n \in Nat \ {0}
  BY FS_CardinalityType, FS_EmptySet
<1>2. x.percent \in Nat
  <2>1. x.percent \in Percents
    BY DEF Export
  <2>2. Percents \subseteq Nat
    OBVIOUS
  <2>. QED
    BY <2>1, <2>2
<1>3. k \in 0..(n - 1) /\ (x.percent > 0 /\ n > 1 => k > 0)
  BY <1>1, <1>2, EvalCountBounds
<1>4. \E s \in SUBSET items : Cardinality(s) = k
  <2>1. k \in 0..n
    BY <1>1, <1>3
  <2> HIDE DEF k
  <2>. QED
    BY <2>1, SubsetOfSize
<1>5. EvalItems(x) \in SUBSET items /\ Cardinality(EvalItems(x)) = k
  <2>1. EvalItems(x) = CHOOSE s \in SUBSET items : Cardinality(s) = k
    BY DEF EvalItems
  <2> HIDE DEF k, items
  <2>. QED
    BY <1>4, <2>1
<1>6. Cardinality(EvalItems(x)) # n
  BY <1>1, <1>3, <1>5
<1>7. Cardinality({}) = 0
  BY FS_EmptySet
<1>. QED
  BY <1>3, <1>5, <1>6, <1>7

LEMMA SplitSound ==
    ASSUME NEW x \in Export, IsFiniteSet(x.version.items), x.version.items # {}
    PROVE  /\ TrainRows(x) # {}
           /\ TrainRows(x) \cap EvalRows(x) = {}
           /\ x.percent > 0 /\ Cardinality(x.version.items) > 1 => EvalRows(x) # {}
           /\ Cardinality(TrainRows(x) \cup EvalRows(x)) = Cardinality(x.version.items)
<1> DEFINE items == x.version.items
           row == [i \in items |-> CompileRow(x, i)]
<1>1. /\ EvalItems(x) \subseteq items /\ EvalItems(x) # items
      /\ x.percent > 0 /\ Cardinality(items) > 1 => EvalItems(x) # {}
  BY EvalItemsSize
<1>2. \A i, j : CompileRow(x, i) = CompileRow(x, j) => i = j
  BY DEF CompileRow
<1>3. PICK i \in items : i \notin EvalItems(x)
  BY <1>1
<1>4. TrainRows(x) # {}
  BY <1>3 DEF TrainRows, TrainItems
<1>5. TrainRows(x) \cap EvalRows(x) = {}
  BY <1>2 DEF TrainRows, EvalRows, TrainItems
<1>6. EvalItems(x) # {} => EvalRows(x) # {}
  BY DEF EvalRows
<1>7. row \in Bijection(items, TrainRows(x) \cup EvalRows(x))
  <2> DEFINE rows == TrainRows(x) \cup EvalRows(x)
  <2>1. \A j \in items : CompileRow(x, j) \in rows
    BY DEF TrainRows, EvalRows, TrainItems
  <2>2. \A r \in rows : \E j \in items : r = CompileRow(x, j)
    BY <1>1 DEF TrainRows, EvalRows, TrainItems
  <2> HIDE DEF rows
  <2>3. row \in [items -> rows] /\ \A j \in items : row[j] = CompileRow(x, j)
    BY <2>1
  <2> HIDE DEF row
  <2>4. row \in Injection(items, rows)
    BY <1>2, <2>3 DEF Injection, IsInjective
  <2>5. row \in Surjection(items, rows)
    BY <2>2, <2>3 DEF Surjection
  <2>6. row \in Bijection(items, rows)
    BY <2>4, <2>5 DEF Bijection
  <2>. QED
    BY <2>6 DEF rows
<1>8. Cardinality(TrainRows(x) \cup EvalRows(x)) = Cardinality(items)
  BY <1>7, FS_Bijection DEF ExistsBijection
<1>. QED
  BY <1>1, <1>4, <1>5, <1>6, <1>8

-----------------------------------------------------------------------------
\* Steps and the ledger

LEMMA VersionToLedger ==
    ASSUME IInv, NEW c \in Clients, RegisterVersion(c)
    PROVE  Ledger!LedgerNext \/ UNCHANGED Ledger!entries
<1> DEFINE v == call[c].about
<1>1. call[c].op = "create" /\ call[c].at = "register"
  BY DEF RegisterVersion, At
<1>2. ItemsSound(papers, v.items)
  BY <1>1 DEF IInv, CallsSound, CallSound
<1>3. UNCHANGED <<exports, compiled>>
  BY DEF RegisterVersion, released, compilation
<1>4. CASE Conflicts(v)
  BY <1>3, <1>4 DEF RegisterVersion, Ledger!entries
<1>5. CASE ~Conflicts(v)
  <2>1. versions' = [w \in DOMAIN versions \cup {v} |->
                        IF w = v THEN "candidate" ELSE versions[w]]
    BY <1>5 DEF RegisterVersion
  <2>2. Ledger!Fresh(v)
    BY <1>2, <1>5 DEF Ledger!Fresh, Conflicts, OfType, ItemsSound
  <2>3. v \in DOMAIN versions'
    BY <2>1
  <2>4. Ledger!Add(v)
    BY <1>3, <2>1, <2>2 DEF Ledger!Add
  <2>. QED
    BY <2>3, <2>4 DEF Ledger!LedgerNext
<1>. QED
  BY <1>4, <1>5

LEMMA PromotionToLedger ==
    ASSUME IInv, NEW c \in Clients, RecordReviewTransition(c)
    PROVE  Ledger!LedgerNext \/ UNCHANGED Ledger!entries
<1> DEFINE v == call[c].about
<1>1. UNCHANGED <<exports, compiled>>
  BY DEF RecordReviewTransition, released, compilation
<1>2. CASE v \in DOMAIN versions /\ versions[v] = "candidate"
  <2>1. versions' = [versions EXCEPT ![v] = "approved-for-export"]
    BY <1>2 DEF RecordReviewTransition
  <2>2. v \in DOMAIN versions'
    BY <1>2, <2>1
  <2>3. Ledger!Promote(v)
    BY <1>1, <1>2, <2>1 DEF Ledger!Promote
  <2>. QED
    BY <2>2, <2>3 DEF Ledger!LedgerNext
<1>3. CASE ~(v \in DOMAIN versions /\ versions[v] = "candidate")
  BY <1>1, <1>3 DEF RecordReviewTransition, Ledger!entries
<1>. QED
  BY <1>2, <1>3

LEMMA ExportToLedger ==
    ASSUME IInv, NEW c \in Clients, RegisterExport(c)
    PROVE  Ledger!LedgerNext \/ UNCHANGED Ledger!entries
<1> DEFINE x == call[c].about
<1>1. call[c].op = "export" /\ call[c].at = "register"
  BY DEF RegisterExport, At
<1>2. x.version \in DOMAIN versions /\ versions[x.version] = "approved-for-export"
  <2>1. CallSound(papers, call[c])
    BY DEF IInv, CallsSound
  <2>. QED
    BY <1>1, <2>1 DEF CallSound, papers
<1>3. UNCHANGED <<versions, compiled>>
  BY DEF RegisterExport, factory, compilation
<1>4. CASE x \in exports
  BY <1>3, <1>4 DEF RegisterExport, Ledger!entries
<1>5. CASE x \notin exports
  <2>1. exports' = exports \cup {x}
    BY <1>5 DEF RegisterExport
  <2>2. Ledger!AddExport(x)
    BY <1>2, <1>3, <1>5, <2>1 DEF Ledger!AddExport
  <2>. QED
    BY <2>1, <2>2 DEF Ledger!LedgerNext
<1>. QED
  BY <1>4, <1>5

LEMMA CompiledToLedger ==
    ASSUME IInv, NEW c \in Clients, RegisterCompiled(c)
    PROVE  Ledger!LedgerNext \/ UNCHANGED Ledger!entries
<1> DEFINE x == call[c].about
<1>1. call[c].op = "compile" /\ call[c].at = "register"
  BY DEF RegisterCompiled, At
<1>2. x \in exports
  <2>1. CallSound(papers, call[c])
    BY DEF IInv, CallsSound
  <2>. QED
    BY <1>1, <2>1 DEF CallSound, papers
<1>3. UNCHANGED <<versions, exports>>
  BY DEF RegisterCompiled, factory, released
<1>4. CASE x \in compiled
  BY <1>3, <1>4 DEF RegisterCompiled, Ledger!entries
<1>5. CASE x \notin compiled
  <2>1. compiled' = compiled \cup {x}
    BY <1>5 DEF RegisterCompiled
  <2>2. Ledger!AddCompiled(x)
    BY <1>2, <1>3, <1>5, <2>1 DEF Ledger!AddCompiled
  <2>. QED
    BY <2>1, <2>2 DEF Ledger!LedgerNext
<1>. QED
  BY <1>4, <1>5

LEMMA StepToLedger ==
    ASSUME IInv, [Next]_vars
    PROVE  [Ledger!LedgerNext]_(Ledger!entries)
<1> USE DEF Ledger!entries, factory, released, compilation
<1>1. CASE VaultNext
  BY <1>1 DEF VaultNext, CaptureChat, UpdateQuality, CaptureFeedback, ReadExperiences,
     ReadFeedback, Materialize
<1>2. CASE FactoryNext
  <2>1. ASSUME NEW c \in Clients,
               \/ LookForIdentical(c) \/ TakeNumber(c) \/ PublishVersion(c)
               \/ ConsumeApproval(c)
        PROVE  UNCHANGED Ledger!entries
    BY <2>1 DEF LookForIdentical, TakeNumber, PublishVersion, ConsumeApproval
  <2>2. ASSUME NEW t, NEW c, NEW v, RequestPromotion(t, v) \/ BeginApprove(c, t, v)
        PROVE  UNCHANGED Ledger!entries
    BY <2>2 DEF RequestPromotion, BeginApprove
  <2>. QED
    BY <1>2, <2>1, <2>2, VersionToLedger, PromotionToLedger DEF FactoryNext
<1>3. CASE ExportNext
  <2>1. ASSUME NEW c \in Clients, ConsumeExport(c) \/ PlaceExport(c) \/ PublishExport(c)
        PROVE  UNCHANGED Ledger!entries
    BY <2>1 DEF ConsumeExport, PlaceExport, PublishExport
  <2>2. ASSUME NEW t, NEW c, NEW x, RequestExport(t, x) \/ BeginExport(c, t, x)
        PROVE  UNCHANGED Ledger!entries
    BY <2>2 DEF RequestExport, BeginExport
  <2>. QED
    BY <1>3, <2>1, <2>2, ExportToLedger DEF ExportNext
<1>4. CASE CompilerNext
  <2>1. ASSUME NEW c \in Clients, ConsumeCompile(c) \/ PlaceCompiled(c) \/ PublishCompiled(c)
        PROVE  UNCHANGED Ledger!entries
    BY <2>1 DEF ConsumeCompile, PlaceCompiled, PublishCompiled
  <2>2. ASSUME NEW t, NEW c, NEW x, RequestCompile(t, x) \/ BeginCompile(c, t, x)
        PROVE  UNCHANGED Ledger!entries
    BY <2>2 DEF RequestCompile, BeginCompile
  <2>. QED
    BY <1>4, <2>1, <2>2, CompiledToLedger DEF CompilerNext
<1>5. CASE (\E t \in Ids : Decide(t)) \/ (\E c \in Clients : Crash(c)) \/ UNCHANGED vars
  BY <1>5 DEF Decide, Crash, vars
<1>. QED
  BY <1>1, <1>2, <1>3, <1>4, <1>5 DEF Next

-----------------------------------------------------------------------------
\* The theorems

\* What every call in progress relies on, and every table records, holds in
\* every reachable state.
THEOREM InductiveInvariant == Spec => []IInv
  BY InitIInv, NextIInv, PTL DEF Spec

\* Every variable keeps its type: every call in progress holds the locals of
\* a step of the code, every table and directory only what belongs there.
THEOREM TypeCorrectness == Spec => []TypeOK
<1>1. IInv => TypeOK
  BY DEF IInv
<1>. QED
  BY <1>1, InductiveInvariant, PTL

\* Whatever clients curate, promote, export and compile side by side, and
\* wherever they die, a compiled set comes of a registered export of a
\* promoted version, each step paid by an approval of its own, with Dany's
\* acceptance of every text and the gate and the user's word on every answer.
THEOREM CompiledOnlyWithPapers == Spec => []CompiledHasProvenance
<1>1. ASSUME IInv, NEW x \in compiled
      PROVE  LET v == x.version
             IN /\ x \in exports
                /\ v \in DOMAIN versions /\ versions[v] = "approved-for-export"
                /\ Consumed("approve", v) /\ Consumed("export", x) /\ Consumed("compile", x)
                /\ DanyAccepts(v)
                /\ \A i \in v.items : i.type = "conversation" =>
                     /\ exps[i.exp].quality = "passed"
                     /\ i.review \in {"user_accepted", "user_corrected"}
  <2> DEFINE v == x.version
  <2>1. \A op, about : Paid(papers, op, about) => Consumed(op, about)
    BY DEF Paid, papers, Consumed
  <2>2. x \in exports /\ Paid(papers, "compile", x)
    BY <1>1 DEF IInv, CompiledSound
  <2>3. v \in papers.promoted /\ Paid(papers, "export", x)
    BY <1>1, <2>2 DEF IInv, ExportsSound
  <2>4. DanyAccepts(v) /\ Paid(papers, "approve", v)
    BY <1>1, <2>3 DEF IInv, PromotedSound
  <2>5. v \in DOMAIN versions /\ versions[v] = "approved-for-export"
    BY <2>3 DEF papers
  <2>6. ItemsSound(papers, v.items)
    BY <1>1, <2>5 DEF IInv, VersionsSound
  <2>7. \A i \in v.items : i.type = "conversation" =>
            /\ exps[i.exp].quality = "passed"
            /\ i.review \in {"user_accepted", "user_corrected"}
    BY <2>6 DEF ItemsSound, papers, PassesDany
  <2>. QED
    BY <2>1, <2>2, <2>3, <2>4, <2>5, <2>7
<1>2. IInv => CompiledHasProvenance
  BY <1>1 DEF CompiledHasProvenance
<1>. QED
  BY <1>2, InductiveInvariant, PTL

\* Every compiled set, of any size and at any percentage, has rows to train
\* on, evaluates on rows of its own when it was asked to and can, and loses
\* or repeats no item between the two.
THEOREM SplitsAreSound == Spec => []SplitIsSound
<1>1. ASSUME IInv, NEW x \in compiled
      PROVE  x \in Export /\ IsFiniteSet(x.version.items) /\ x.version.items # {}
  <2>1. x \in Export /\ x.version \in papers.promoted
    BY <1>1 DEF IInv, TypeOK, CompiledSound, ExportsSound
  <2>2. ItemsSound(papers, x.version.items)
    BY <1>1, <2>1 DEF IInv, VersionsSound, papers
  <2>. QED
    BY <2>1, <2>2 DEF ItemsSound
<1>2. IInv => SplitIsSound
  BY <1>1, SplitSound DEF SplitIsSound
<1>. QED
  BY <1>2, InductiveInvariant, PTL

\* The registries implement the ledger: whatever files, approvals, crashes
\* and clients do, versions are added under fresh numbers and contents,
\* promoted once, exported only when promoted, compiled only when exported,
\* and nothing is taken back.
THEOREM PipelineImplementsLedger == Spec => ImplementsLedger
<1>1. Init => Ledger!LedgerInit
  BY DEF Init, Ledger!LedgerInit
<1>2. IInv /\ [Next]_vars => [Ledger!LedgerNext]_(Ledger!entries)
  BY StepToLedger
<1>. QED
  BY <1>1, <1>2, InductiveInvariant, PTL DEF Spec, ImplementsLedger, Ledger!LedgerSpec

-----------------------------------------------------------------------------
\* One curator, one operator

Curating(k) == k.op \in {"collect", "create"}
Collected(k) == k.op = "create" \/ (k.op = "collect" /\ k.at = "collected")
Named(k) == k.op = "create" /\ k.at \in {"publish", "register"}

\* No item of the buckets is in a version, nor in two of them.
FreshTodo(todo, known) ==
    /\ \A n \in 1..Len(todo) : \A v \in known : v.items \cap todo[n].items = {}
    /\ \A m, n \in 1..Len(todo) : m # n => todo[m].items \cap todo[n].items = {}

\* What the only curator relies on: nobody else adds versions or directories.
CurationSound(k, known, dirs) ==
    /\ Collected(k) => FreshTodo(k.todo, known)
    /\ Named(k) => k.about.items = Head(k.todo).items
    /\ Named(k) /\ k.at = "publish" => k.about \notin dirs
    /\ Named(k) /\ k.at = "register" => k.about \in dirs \ known

CuratorInv ==
    /\ \A c \in Clients : Curating(call[c]) => c \in Curators
    /\ \A c \in Clients : CurationSound(call[c], DOMAIN versions, versionDirs)
    /\ DOMAIN versions \subseteq versionDirs
    /\ NoItemTwice

\* What the only operator relies on while it exports or compiles.
ReleaseSound(k, op, rows, dirs) ==
    k.op = op =>
      /\ k.at = "publish" => k.about \notin dirs
      /\ k.at = "register" => k.about \in dirs \ rows

Releasing(k) == k.op \in {"export", "compile"}

OperatorInv ==
    /\ \A c \in Clients : Releasing(call[c]) => c \in Operators
    /\ \A c \in Clients : ReleaseSound(call[c], "export", exports, exportDirs)
    /\ \A c \in Clients : ReleaseSound(call[c], "compile", compiled, compiledDirs)
    /\ exports \subseteq exportDirs /\ compiled \subseteq compiledDirs

\* What becomes of the locals of a call that goes on.
LEMMA GotoLocals ==
    ASSUME IInv, NEW c \in Clients, NEW at, Goto(c, at),
           call[c].op \in {"create", "approve", "export", "compile"}
    PROVE  /\ call'[c].op = call[c].op /\ call'[c].at = at
           /\ call[c].op = "create" => call'[c].todo = call[c].todo
           /\ Named(call[c]) \/ call[c].op # "create" => call'[c].about = call[c].about
           /\ \A d \in Clients \ {c} : call'[d] = call[d]
<1> DEFINE k == call[c]
<1>1. call' = [call EXCEPT ![c] = [k EXCEPT !.at = at]]
  BY GotoRecord
<1>2. k \in Locals /\ call \in [Clients -> Locals]
  BY DEF IInv, TypeOK
<1>3. call'[c] = [k EXCEPT !.at = at] /\ \A d \in Clients \ {c} : call'[d] = call[d]
  <2> HIDE DEF k
  <2>. QED
    BY <1>1, <1>2
<1>4. PICK l : l = call[c]
  OBVIOUS
<1>5. CASE l.op = "create" /\ l.at \in {"look", "number"}
  <2>1. l = [op |-> "create", at |-> l.at, todo |-> l.todo]
    BY <1>2, <1>4, <1>5, LocalsOf
  <2>. QED
    BY <1>3, <1>4, <1>5, <2>1 DEF Named
<1>6. CASE l.op = "create" /\ l.at \in {"publish", "register"}
  <2>1. l = [op |-> "create", at |-> l.at, todo |-> l.todo, about |-> l.about]
    BY <1>2, <1>4, <1>6, LocalsOf
  <2>. QED
    BY <1>3, <1>4, <1>6, <2>1
<1>7. CASE l.op \in {"approve", "export", "compile"}
  <2>1. l = [op |-> l.op, at |-> l.at, about |-> l.about, token |-> l.token]
    BY <1>2, <1>4, <1>7, LocalsOf
  <2>. QED
    BY <1>3, <1>4, <1>7, <2>1
<1>8. l.op = "create" => l.at \in {"look", "number", "publish", "register"}
  BY <1>2, <1>4 DEF Locals, Idle
<1>. QED
  BY <1>4, <1>5, <1>6, <1>7, <1>8

\* What becomes of the locals of a call that starts anew or ends.
LEMMA NewLocals ==
    ASSUME IInv, NEW c \in Clients, NEW k, call' = [call EXCEPT ![c] = k]
    PROVE  call'[c] = k /\ \A d \in Clients \ {c} : call'[d] = call[d]
<1>1. call \in [Clients -> Locals]
  BY DEF IInv, TypeOK
<1>. QED
  BY <1>1

\* All calls stay as they are, but one that has nothing to do with ops.
Elsewhere(ops) ==
    \A c \in Clients : call'[c] = call[c] \/ call'[c].op \notin ops

LEMMA ElsewhereCases ==
    ASSUME IInv, NEW ops, "idle" \notin ops, NEW c \in Clients,
           \/ Finish(c)
           \/ /\ call[c].op \in {"create", "approve", "export", "compile"} \ ops
              /\ \E at : Goto(c, at)
           \/ \E k : k.op \notin ops /\ call' = [call EXCEPT ![c] = k]
    PROVE  Elsewhere(ops)
<1>1. CASE Finish(c)
  <2>1. call'[c] = Idle /\ \A d \in Clients \ {c} : call'[d] = call[d]
    BY <1>1, NewLocals DEF Finish
  <2>. QED
    BY <2>1 DEF Elsewhere, Idle
<1>2. CASE /\ call[c].op \in {"create", "approve", "export", "compile"} \ ops
           /\ \E at : Goto(c, at)
  BY <1>2, GotoLocals DEF Elsewhere
<1>3. CASE \E k : k.op \notin ops /\ call' = [call EXCEPT ![c] = k]
  BY <1>3, NewLocals DEF Elsewhere
<1>. QED
  BY <1>1, <1>2, <1>3

-----------------------------------------------------------------------------
\* The curator

LEMMA CuratorQuiet ==
    ASSUME CuratorInv, DOMAIN versions' = DOMAIN versions, UNCHANGED versionDirs,
           Elsewhere({"collect", "create"})
    PROVE  CuratorInv'
<1>1. \A c \in Clients : Curating(call'[c]) => c \in Curators
  BY DEF CuratorInv, Elsewhere, Curating
<1>2. \A c \in Clients : CurationSound(call'[c], DOMAIN versions, versionDirs)
  BY DEF CuratorInv, Elsewhere, CurationSound, Collected, Named
<1>3. NoItemTwice'
  BY DEF CuratorInv, NoItemTwice
<1>. QED
  BY <1>1, <1>2, <1>3 DEF CuratorInv

\* A step of the curator, when there is one only.
LEMMA CuratorWorks ==
    ASSUME \A d, e \in Curators : d = e, CuratorInv, NEW c \in Curators,
           \A d \in Clients \ {c} : call'[d] = call[d],
           CurationSound(call'[c], DOMAIN versions', versionDirs'),
           DOMAIN versions' \subseteq versionDirs', NoItemTwice'
    PROVE  CuratorInv'
<1>1. \A d \in Clients \ {c} : ~Curating(call'[d])
  BY DEF CuratorInv
<1>2. \A d \in Clients : Curating(call'[d]) => d \in Curators
  BY <1>1
<1>3. \A d \in Clients : CurationSound(call'[d], DOMAIN versions', versionDirs')
  BY <1>1 DEF CurationSound, Collected, Named, Curating
<1>. QED
  BY <1>2, <1>3 DEF CuratorInv

LEMMA BucketsFresh ==
    ASSUME NEW items
    PROVE  FreshTodo(Buckets(items), DOMAIN versions)
<1> DEFINE B(type) == {i \in items : i.type = type /\ ~InRegistry(i)}
<1>1. PICK A : A = B("conversation")
  OBVIOUS
<1>2. PICK P : P = B("preference")
  OBVIOUS
<1>3. A \cap P = {} /\ \A v \in DOMAIN versions : v.items \cap A = {} /\ v.items \cap P = {}
  BY <1>1, <1>2 DEF InRegistry
<1>4. PICK r : r = [type |-> "conversation", items |-> A]
  OBVIOUS
<1>5. PICK q : q = [type |-> "preference", items |-> P]
  OBVIOUS
<1>6. Buckets(items) = (IF A = {} THEN <<>> ELSE <<r>>) \o (IF P = {} THEN <<>> ELSE <<q>>)
  BY <1>1, <1>2, <1>4, <1>5 DEF Buckets
<1>7. r.items = A /\ q.items = P
  BY <1>4, <1>5
<1>8. Buckets(items) \in {<<>>, <<r>>, <<q>>, <<r, q>>}
  <2>1. /\ <<>> \o <<>> = <<>> /\ <<r>> \o <<>> = <<r>>
        /\ <<>> \o <<q>> = <<q>> /\ <<r>> \o <<q>> = <<r, q>>
    <3>1. <<r>> \in Seq({r, q}) /\ <<q>> \in Seq({r, q}) /\ <<>> \in Seq({r, q})
      OBVIOUS
    <3>2. <<r>> \o <<>> = <<r>> /\ <<>> \o <<q>> = <<q>> /\ <<>> \o <<>> = <<>>
      BY <3>1, ConcatEmptySeq
    <3>3. <<r>> \o <<q>> = <<r, q>>
      <4>1. <<r>> \o <<q>> \in Seq({r, q}) /\ <<r, q>> \in Seq({r, q})
        BY <3>1
      <4>2. Len(<<r>> \o <<q>>) = 2
        BY <3>1
      <4>3. (<<r>> \o <<q>>)[1] = r /\ (<<r>> \o <<q>>)[2] = q
        BY <3>1
      <4>4. PICK s \in Seq({r, q}) : s = <<r>> \o <<q>>
        BY <4>1
      <4>5. PICK t \in Seq({r, q}) : t = <<r, q>> /\ Len(t) = 2 /\ t[1] = r /\ t[2] = q
        BY <4>1
      <4>6. Len(s) = Len(t) /\ \A i \in 1..Len(s) : s[i] = t[i]
        <5>1. \A i \in 1..2 : i = 1 \/ i = 2
          OBVIOUS
        <5>. QED
          BY <4>2, <4>3, <4>4, <4>5, <5>1
      <4>7. s = t
        BY <4>6, SeqEqual
      <4>. QED
        BY <4>4, <4>5, <4>7
    <3>. QED
      BY <3>2, <3>3
  <2>2. CASE A = {} /\ P = {}
    BY <1>6, <2>1, <2>2
  <2>3. CASE A # {} /\ P = {}
    BY <1>6, <2>1, <2>3
  <2>4. CASE A = {} /\ P # {}
    BY <1>6, <2>1, <2>4
  <2>5. CASE A # {} /\ P # {}
    BY <1>6, <2>1, <2>5
  <2>. QED
    BY <2>2, <2>3, <2>4, <2>5
<1>. QED
  BY <1>3, <1>7, <1>8 DEF FreshTodo

\* A call of the curator that is at no later point than a promise of its own.
LEMMA CuratorReads ==
    ASSUME IInv, CuratorInv, \A d, e \in Curators : d = e, NEW c \in Clients,
           ReadExperiences(c) \/ ReadFeedback(c) \/ Materialize(c)
    PROVE  CuratorInv'
<1>1. UNCHANGED <<versions, versionDirs>>
  BY DEF ReadExperiences, ReadFeedback, Materialize, factory
<1>2. c \in Curators
  BY DEF CuratorInv, ReadExperiences, ReadFeedback, Materialize, At, Curating
<1>3. PICK k : /\ call' = [call EXCEPT ![c] = k]
               /\ CurationSound(k, DOMAIN versions, versionDirs)
  <2>1. CASE ReadExperiences(c)
    <3>1. CurationSound([op |-> "collect", at |-> "feedback", seen |-> exps],
                        DOMAIN versions, versionDirs)
      BY DEF CurationSound, Collected, Named
    <3>. QED
      BY <2>1, <3>1 DEF ReadExperiences, Start, CurationExperiences
  <2>2. CASE ReadFeedback(c)
    <3>1. PICK items : call' = [call EXCEPT ![c] =
                [op |-> "collect", at |-> "collected", todo |-> Buckets(items)]]
      BY <2>2 DEF ReadFeedback
    <3>2. PICK todo : todo = Buckets(items)
      OBVIOUS
    <3>3. FreshTodo(todo, DOMAIN versions)
      BY <3>2, BucketsFresh
    <3>4. CurationSound([op |-> "collect", at |-> "collected", todo |-> todo],
                        DOMAIN versions, versionDirs)
      BY <3>3 DEF CurationSound, Collected, Named
    <3>. QED
      BY <3>1, <3>2, <3>4
  <2>3. CASE Materialize(c)
    <3>1. PICK todo : todo = call[c].todo
      OBVIOUS
    <3>2. FreshTodo(todo, DOMAIN versions)
      BY <2>3, <3>1 DEF CuratorInv, CurationSound, Collected, Materialize, At
    <3>3. /\ CurationSound(Idle, DOMAIN versions, versionDirs)
          /\ CurationSound([op |-> "create", at |-> "look", todo |-> todo],
                           DOMAIN versions, versionDirs)
      BY <3>2 DEF CurationSound, Collected, Named, Idle
    <3>4. call' = [call EXCEPT ![c] =
                IF todo = <<>> THEN Idle ELSE [op |-> "create", at |-> "look", todo |-> todo]]
      BY <2>3, <3>1 DEF Materialize
    <3>. QED
      BY <3>3, <3>4
  <2>. QED
    BY <2>1, <2>2, <2>3
<1>4. call'[c] = k /\ \A d \in Clients \ {c} : call'[d] = call[d]
  BY <1>3, NewLocals
<1>5. NoItemTwice' /\ DOMAIN versions' \subseteq versionDirs'
  BY <1>1 DEF CuratorInv, NoItemTwice
<1>. QED
  BY <1>1, <1>2, <1>3, <1>4, <1>5, CuratorWorks

\* The curator ends, having removed at most its own unregistered directory.
LEMMA CuratorEnds ==
    ASSUME IInv, CuratorInv, \A d, e \in Curators : d = e, NEW c \in Curators, Finish(c),
           UNCHANGED versions, DOMAIN versions \subseteq versionDirs'
    PROVE  CuratorInv'
<1>1. c \in Clients
  OBVIOUS
<1>2. call'[c] = Idle /\ \A d \in Clients \ {c} : call'[d] = call[d]
  BY <1>1, NewLocals DEF Finish
<1>3. CurationSound(call'[c], DOMAIN versions', versionDirs')
  BY <1>2 DEF CurationSound, Collected, Named, Idle
<1>4. NoItemTwice'
  BY DEF CuratorInv, NoItemTwice
<1>. QED
  BY <1>2, <1>3, <1>4, CuratorWorks

LEMMA CuratorCreates ==
    ASSUME IInv, CuratorInv, \A d, e \in Curators : d = e, NEW c \in Clients,
           LookForIdentical(c) \/ TakeNumber(c) \/ PublishVersion(c)
    PROVE  CuratorInv'
<1>1. call[c].op = "create" /\ c \in Curators
  BY DEF CuratorInv, LookForIdentical, TakeNumber, PublishVersion, At, Curating
<1>2. /\ CurationSound(call[c], DOMAIN versions, versionDirs)
      /\ FreshTodo(call[c].todo, DOMAIN versions)
      /\ DOMAIN versions \subseteq versionDirs
  BY <1>1 DEF CuratorInv, CurationSound, Collected
<1>3. UNCHANGED versions
  BY DEF LookForIdentical, TakeNumber, PublishVersion, factory
<1>4. NoItemTwice'
  BY <1>3 DEF CuratorInv, NoItemTwice
<1>5. CASE LookForIdentical(c)
  <2>1. UNCHANGED versionDirs /\ (Finish(c) \/ Goto(c, "number"))
    BY <1>5 DEF LookForIdentical, factory
  <2>2. CASE Goto(c, "number")
    <3>1. /\ call'[c].op = "create" /\ call'[c].at = "number"
          /\ call'[c].todo = call[c].todo
          /\ \A d \in Clients \ {c} : call'[d] = call[d]
      BY <1>1, <2>2, GotoLocals
    <3>2. CurationSound(call'[c], DOMAIN versions, versionDirs)
      BY <1>2, <3>1 DEF CurationSound, Collected, Named
    <3>. QED
      BY <1>1, <1>2, <1>3, <1>4, <2>1, <3>1, <3>2, CuratorWorks
  <2>. QED
    BY <1>1, <1>2, <1>3, <2>1, <2>2, CuratorEnds
<1>6. CASE TakeNumber(c)
  <2>1. UNCHANGED versionDirs
    BY <1>6 DEF TakeNumber, factory
  <2>2. PICK v : /\ v.items = Head(call[c].todo).items
                 /\ \/ Finish(c)
                    \/ /\ v \notin versionDirs
                       /\ call' = [call EXCEPT ![c] = [op |-> "create", at |-> "publish",
                                        todo |-> call[c].todo, about |-> v]]
    BY <1>6 DEF TakeNumber, Bucket
  <2>3. CASE ~Finish(c)
    <3> DEFINE k == [op |-> "create", at |-> "publish", todo |-> call[c].todo, about |-> v]
    <3>1. call' = [call EXCEPT ![c] = k] /\ v \notin versionDirs
      BY <2>2, <2>3
    <3>2. CurationSound(k, DOMAIN versions, versionDirs)
      BY <1>2, <2>2, <3>1 DEF CurationSound, Collected, Named
    <3> HIDE DEF k
    <3>3. call'[c] = k /\ \A d \in Clients \ {c} : call'[d] = call[d]
      BY <3>1, NewLocals
    <3>. QED
      BY <1>1, <1>2, <1>3, <1>4, <2>1, <3>2, <3>3, CuratorWorks
  <2>. QED
    BY <1>1, <1>2, <1>3, <2>1, <2>3, CuratorEnds
<1>7. CASE PublishVersion(c)
  <2>1. /\ Named(call[c]) /\ call[c].at = "publish"
        /\ call[c].about \notin versionDirs /\ call[c].about \notin DOMAIN versions
        /\ call[c].about.items = Head(call[c].todo).items
    BY <1>2, <1>7 DEF PublishVersion, At, Named, CurationSound
  <2>2. versionDirs' = versionDirs \cup {call[c].about} /\ Goto(c, "register")
    BY <1>7, <2>1 DEF PublishVersion
  <2>3. /\ call'[c].op = "create" /\ call'[c].at = "register"
        /\ call'[c].todo = call[c].todo /\ call'[c].about = call[c].about
        /\ \A d \in Clients \ {c} : call'[d] = call[d]
    BY <1>1, <2>1, <2>2, GotoLocals
  <2>4. CurationSound(call'[c], DOMAIN versions, versionDirs')
    BY <1>2, <2>1, <2>2, <2>3 DEF CurationSound, Collected, Named
  <2>. QED
    BY <1>1, <1>2, <1>3, <1>4, <2>2, <2>3, <2>4, CuratorWorks
<1>. QED
  BY <1>5, <1>6, <1>7

\* Disjoint as the buckets are, storing the first leaves the rest fresh.
LEMMA StoreFirst ==
    ASSUME NEW S, NEW todo \in Seq(S), todo # <<>>, NEW known, NEW v,
           FreshTodo(todo, known), v.items = Head(todo).items
    PROVE  /\ \A w \in known : w.items \cap v.items = {}
           /\ FreshTodo(Tail(todo), known \cup {v})
<1>1. /\ Head(todo) = todo[1] /\ 1 \in 1..Len(todo)
      /\ Len(Tail(todo)) = Len(todo) - 1 /\ Len(todo) \in Nat
      /\ \A n \in 1..Len(Tail(todo)) : Tail(todo)[n] = todo[n + 1]
  BY HeadTailProperties, EmptySeq
<1>2. \A n \in 1..Len(Tail(todo)) : n + 1 \in 1..Len(todo) /\ n + 1 # 1
  BY <1>1
<1>3. PICK rest : rest = Tail(todo)
  OBVIOUS
<1>4. \A n \in 1..Len(rest) : \A w \in known \cup {v} : w.items \cap rest[n].items = {}
  BY <1>1, <1>2, <1>3 DEF FreshTodo
<1>5. \A m, n \in 1..Len(rest) : m # n => rest[m].items \cap rest[n].items = {}
  <2>1. \A m, n \in 1..Len(rest) : m # n => m + 1 # n + 1
    BY <1>1, <1>3
  <2>. QED
    BY <1>1, <1>2, <1>3, <2>1 DEF FreshTodo
<1>6. \A w \in known : w.items \cap v.items = {}
  BY <1>1 DEF FreshTodo
<1>. QED
  BY <1>3, <1>4, <1>5, <1>6 DEF FreshTodo

LEMMA CuratorRegisters ==
    ASSUME IInv, CuratorInv, \A d, e \in Curators : d = e, NEW c \in Clients,
           RegisterVersion(c)
    PROVE  CuratorInv'
<1> DEFINE v == call[c].about
           todo == call[c].todo
<1>1. call[c].op = "create" /\ call[c].at = "register" /\ c \in Curators
  BY DEF CuratorInv, RegisterVersion, At, Curating
<1>2. /\ FreshTodo(todo, DOMAIN versions)
      /\ v.items = Head(todo).items
      /\ v \in versionDirs \ DOMAIN versions
      /\ DOMAIN versions \subseteq versionDirs
  BY <1>1 DEF CuratorInv, CurationSound, Collected, Named
<1>3. CASE Conflicts(v)
  BY <1>1, <1>2, <1>3, CuratorEnds DEF RegisterVersion
<1>4. CASE ~Conflicts(v)
  <2>1. /\ versions' = [w \in DOMAIN versions \cup {v} |->
                            IF w = v THEN "candidate" ELSE versions[w]]
        /\ UNCHANGED versionDirs /\ NextBucket(c)
    BY <1>4 DEF RegisterVersion
  <2>2. todo \in Todo /\ todo # <<>>
    BY <1>1, CreateLocals
  <2>3. call' = [call EXCEPT ![c] = IF Len(todo) = 1 THEN Idle
                    ELSE [op |-> "create", at |-> "look", todo |-> Tail(todo)]]
    BY <2>1 DEF NextBucket
  <2>4. DOMAIN versions' = DOMAIN versions \cup {v}
    BY <2>1
  <2> HIDE DEF v, todo
  <2>5. /\ \A w \in DOMAIN versions : w.items \cap v.items = {}
        /\ FreshTodo(Tail(todo), DOMAIN versions \cup {v})
    BY <1>2, <2>2, StoreFirst DEF Todo
  <2>6. NoItemTwice'
    BY <2>4, <2>5 DEF CuratorInv, NoItemTwice
  <2>7. PICK k : /\ call' = [call EXCEPT ![c] = k]
                 /\ k = Idle \/ k = [op |-> "create", at |-> "look", todo |-> Tail(todo)]
    BY <2>3
  <2>8. CurationSound(k, DOMAIN versions', versionDirs')
    <3>1. CurationSound([op |-> "create", at |-> "look", todo |-> Tail(todo)],
                        DOMAIN versions', versionDirs')
      BY <2>4, <2>5 DEF CurationSound, Collected, Named
    <3>2. CurationSound(Idle, DOMAIN versions', versionDirs')
      BY DEF CurationSound, Collected, Named, Idle
    <3>. QED
      BY <2>7, <3>1, <3>2
  <2>9. call'[c] = k /\ \A d \in Clients \ {c} : call'[d] = call[d]
    BY <2>7, NewLocals
  <2>. QED
    BY <1>1, <1>2, <2>1, <2>4, <2>6, <2>8, <2>9, CuratorWorks
<1>. QED
  BY <1>3, <1>4

\* Where a call that begins on behalf of the user may be written.
LEMMA BeginsElsewhere ==
    ASSUME IInv, NEW ops, "idle" \notin ops, NEW c \in Clients, NEW t,
           \/ "approve" \notin ops /\ \E v : BeginApprove(c, t, v)
           \/ "export" \notin ops /\ \E x : BeginExport(c, t, x)
           \/ "compile" \notin ops /\ \E x : BeginCompile(c, t, x)
    PROVE  Elsewhere(ops)
<1>1. PICK k : k.op \notin ops /\ call' = [call EXCEPT ![c] = k]
  <2>1. ASSUME NEW op \in {"approve", "export", "compile"}, op \notin ops, NEW x,
               call' = [call EXCEPT ![c] = [op |-> op, at |-> "consume",
                                            about |-> x, token |-> t]]
        PROVE  \E k : k.op \notin ops /\ call' = [call EXCEPT ![c] = k]
    <3> DEFINE k == [op |-> op, at |-> "consume", about |-> x, token |-> t]
    <3>1. k.op \notin ops /\ call' = [call EXCEPT ![c] = k]
      BY <2>1
    <3> HIDE DEF k
    <3>. QED
      BY <3>1
  <2>. QED
    BY <2>1 DEF BeginApprove, BeginExport, BeginCompile, Start
<1>. QED
  BY <1>1, ElsewhereCases

\* What goes on after it has spent, or not, its approval.
LEMMA ConsumesElsewhere ==
    ASSUME IInv, NEW ops, "idle" \notin ops, NEW c \in Clients, NEW next,
           NEW op \in {"approve", "export", "compile"} \ ops, Consume(c, op, next)
    PROVE  Elsewhere(ops)
<1>1. call[c].op = op /\ (Goto(c, next) \/ Finish(c))
  BY DEF Consume, At
<1>. QED
  BY <1>1, ElsewhereCases

\* A step of another call than one of the curator.
LEMMA CuratorElsewhere ==
    ASSUME IInv, CuratorInv,
           \/ \E e \in Exps :
                \/ CaptureChat(e)
                \/ \E q \in {"failed", "passed"} : UpdateQuality(e, q)
                \/ \E verdict \in Verdicts, text \in Texts : CaptureFeedback(e, verdict, text)
           \/ \E t, v : RequestPromotion(t, v) \/ RequestExport(t, v) \/ RequestCompile(t, v)
           \/ \E c \in Clients : \E t, v :
                BeginApprove(c, t, v) \/ BeginExport(c, t, v) \/ BeginCompile(c, t, v)
           \/ \E c \in Clients :
                \/ ConsumeApproval(c) \/ RecordReviewTransition(c)
                \/ ConsumeExport(c) \/ PlaceExport(c) \/ PublishExport(c) \/ RegisterExport(c)
                \/ ConsumeCompile(c) \/ PlaceCompiled(c)
                \/ PublishCompiled(c) \/ RegisterCompiled(c)
                \/ Crash(c)
           \/ \E t \in Ids : Decide(t)
           \/ UNCHANGED vars
    PROVE  CuratorInv'
<1> DEFINE ops == {"collect", "create"}
<1>1. UNCHANGED versionDirs
  BY DEF CaptureChat, UpdateQuality, CaptureFeedback, RequestPromotion, RequestExport,
     RequestCompile, BeginApprove, BeginExport, BeginCompile, ConsumeApproval,
     RecordReviewTransition, ConsumeExport, PlaceExport, PublishExport, RegisterExport,
     ConsumeCompile, PlaceCompiled, PublishCompiled, RegisterCompiled, Crash, Decide,
     vars, factory
<1>2. DOMAIN versions' = DOMAIN versions
  <2>1. ASSUME NEW c \in Clients, RecordReviewTransition(c)
        PROVE  DOMAIN versions' = DOMAIN versions
    BY <2>1 DEF RecordReviewTransition
  <2>. QED
    BY <2>1 DEF CaptureChat, UpdateQuality, CaptureFeedback, RequestPromotion, RequestExport,
     RequestCompile, BeginApprove, BeginExport, BeginCompile, ConsumeApproval,
     ConsumeExport, PlaceExport, PublishExport, RegisterExport,
     ConsumeCompile, PlaceCompiled, PublishCompiled, RegisterCompiled, Crash, Decide,
     vars, factory
<1>3. Elsewhere(ops)
  <2>1. ASSUME UNCHANGED call PROVE Elsewhere(ops)
    BY <2>1 DEF Elsewhere
  <2>2. ASSUME NEW c \in Clients, NEW t, NEW v,
               BeginApprove(c, t, v) \/ BeginExport(c, t, v) \/ BeginCompile(c, t, v)
        PROVE  Elsewhere(ops)
    BY <2>2, BeginsElsewhere
  <2>3. ASSUME NEW c \in Clients, ConsumeApproval(c) \/ ConsumeExport(c) \/ ConsumeCompile(c)
        PROVE  Elsewhere(ops)
    BY <2>3, ConsumesElsewhere DEF ConsumeApproval, ConsumeExport, ConsumeCompile
  <2>4. ASSUME NEW c \in Clients,
               PlaceExport(c) \/ PublishExport(c) \/ PlaceCompiled(c) \/ PublishCompiled(c)
        PROVE  Elsewhere(ops)
    <3>1. call[c].op \in {"export", "compile"}
      BY <2>4 DEF PlaceExport, PublishExport, PlaceCompiled, PublishCompiled, At
    <3>2. Finish(c) \/ \E at : Goto(c, at)
      BY <2>4 DEF PlaceExport, PublishExport, PlaceCompiled, PublishCompiled
    <3>. QED
      BY <3>1, <3>2, ElsewhereCases
  <2>5. ASSUME NEW c \in Clients, \/ RecordReviewTransition(c) \/ RegisterExport(c)
                                  \/ RegisterCompiled(c) \/ Crash(c)
        PROVE  Elsewhere(ops)
    <3>1. Finish(c)
      BY <2>5 DEF RecordReviewTransition, RegisterExport, RegisterCompiled, Crash
    <3>. QED
      BY <3>1, ElsewhereCases
  <2>6. CASE \/ \E e \in Exps :
                  \/ CaptureChat(e)
                  \/ \E q \in {"failed", "passed"} : UpdateQuality(e, q)
                  \/ \E verdict \in Verdicts, text \in Texts :
                        CaptureFeedback(e, verdict, text)
             \/ \E t, v :
                  RequestPromotion(t, v) \/ RequestExport(t, v) \/ RequestCompile(t, v)
             \/ \E t \in Ids : Decide(t)
             \/ UNCHANGED vars
    <3>1. UNCHANGED call
      BY <2>6 DEF CaptureChat, UpdateQuality, CaptureFeedback, RequestPromotion,
         RequestExport, RequestCompile, Decide, vars
    <3>. QED
      BY <2>1, <3>1
  <2> HIDE DEF ops
  <2>. QED
    BY <2>2, <2>3, <2>4, <2>5, <2>6
<1>. QED
  BY <1>1, <1>2, <1>3, CuratorQuiet

LEMMA InitCurator == Init => CuratorInv
<1> SUFFICES ASSUME Init PROVE CuratorInv
  OBVIOUS
<1>1. DOMAIN versions = {} /\ \A c \in Clients : call[c] = [op |-> "idle"]
  BY DEF Init, Idle
<1>. QED
  BY <1>1 DEF CuratorInv, Curating, CurationSound, Collected, Named, NoItemTwice

LEMMA NextCurator ==
    ASSUME \A d, e \in Curators : d = e, IInv, CuratorInv, [Next]_vars
    PROVE  CuratorInv'
<1>0. Operators \subseteq Clients
  OBVIOUS
<1>1. CASE VaultNext
  BY <1>1, CuratorReads, CuratorElsewhere DEF VaultNext
<1>2. CASE FactoryNext
  BY <1>0, <1>2, CuratorCreates, CuratorRegisters, CuratorElsewhere DEF FactoryNext
<1>3. CASE ExportNext
  BY <1>0, <1>3, CuratorElsewhere DEF ExportNext
<1>4. CASE CompilerNext
  BY <1>0, <1>4, CuratorElsewhere DEF CompilerNext
<1>5. CASE (\E t \in Ids : Decide(t)) \/ (\E c \in Clients : Crash(c)) \/ UNCHANGED vars
  BY <1>5, CuratorElsewhere
<1>. QED
  BY <1>1, <1>2, <1>3, <1>4, <1>5 DEF Next

-----------------------------------------------------------------------------
\* The operator

LEMMA OperatorQuiet ==
    ASSUME OperatorInv, UNCHANGED <<exports, exportDirs, compiled, compiledDirs>>,
           Elsewhere({"export", "compile"})
    PROVE  OperatorInv'
<1>1. \A c \in Clients : Releasing(call'[c]) => c \in Operators
  BY DEF OperatorInv, Elsewhere, Releasing
<1>2. \A c \in Clients : ReleaseSound(call'[c], "export", exports, exportDirs)
  BY DEF OperatorInv, Elsewhere, ReleaseSound
<1>3. \A c \in Clients : ReleaseSound(call'[c], "compile", compiled, compiledDirs)
  BY DEF OperatorInv, Elsewhere, ReleaseSound
<1>. QED
  BY <1>1, <1>2, <1>3 DEF OperatorInv

\* A step of the operator, when there is one only.
LEMMA OperatorWorks ==
    ASSUME \A d, e \in Operators : d = e, OperatorInv, NEW c \in Operators,
           \A d \in Clients \ {c} : call'[d] = call[d],
           ReleaseSound(call'[c], "export", exports', exportDirs'),
           ReleaseSound(call'[c], "compile", compiled', compiledDirs'),
           exports' \subseteq exportDirs', compiled' \subseteq compiledDirs'
    PROVE  OperatorInv'
<1>1. \A d \in Clients \ {c} : ~Releasing(call'[d])
  BY DEF OperatorInv
<1>2. \A d \in Clients : Releasing(call'[d]) => d \in Operators
  BY <1>1
<1>3. \A d \in Clients : /\ ReleaseSound(call'[d], "export", exports', exportDirs')
                         /\ ReleaseSound(call'[d], "compile", compiled', compiledDirs')
  BY <1>1 DEF ReleaseSound, Releasing
<1>. QED
  BY <1>2, <1>3 DEF OperatorInv

\* The operator ends: what is registered has its directory.
LEMMA OperatorEnds ==
    ASSUME IInv, OperatorInv, \A d, e \in Operators : d = e, NEW c \in Operators, Finish(c),
           exports' \subseteq exportDirs', compiled' \subseteq compiledDirs'
    PROVE  OperatorInv'
<1>1. c \in Clients
  OBVIOUS
<1>2. call'[c] = Idle /\ \A d \in Clients \ {c} : call'[d] = call[d]
  BY <1>1, NewLocals DEF Finish
<1>3. /\ ReleaseSound(call'[c], "export", exports', exportDirs')
      /\ ReleaseSound(call'[c], "compile", compiled', compiledDirs')
  BY <1>2 DEF ReleaseSound, Idle
<1>. QED
  BY <1>2, <1>3, OperatorWorks

LEMMA OperatorBegins ==
    ASSUME IInv, OperatorInv, \A d, e \in Operators : d = e, NEW c \in Operators, NEW t, NEW x,
           BeginExport(c, t, x) \/ BeginCompile(c, t, x)
    PROVE  OperatorInv'
<1>1. PICK op \in {"export", "compile"} :
        call' = [call EXCEPT ![c] = [op |-> op, at |-> "consume", about |-> x, token |-> t]]
  BY DEF BeginExport, BeginCompile, Start
<1>2. PICK k : k = [op |-> op, at |-> "consume", about |-> x, token |-> t]
  OBVIOUS
<1>3. c \in Clients
  OBVIOUS
<1>4. call'[c] = k /\ \A d \in Clients \ {c} : call'[d] = call[d]
  BY <1>1, <1>2, <1>3, NewLocals
<1>5. UNCHANGED <<exports, exportDirs, compiled, compiledDirs>>
  BY DEF BeginExport, BeginCompile, released, compilation
<1>6. \A rows, dirs : ReleaseSound(k, "export", rows, dirs) /\ ReleaseSound(k, "compile", rows, dirs)
  BY <1>2 DEF ReleaseSound
<1>. QED
  BY <1>4, <1>5, <1>6, OperatorWorks DEF OperatorInv

\* Up to the rename nothing is written but the approval.
LEMMA OperatorPrepares ==
    ASSUME IInv, OperatorInv, \A d, e \in Operators : d = e, NEW c \in Clients,
           ConsumeExport(c) \/ ConsumeCompile(c) \/ PlaceExport(c) \/ PlaceCompiled(c)
    PROVE  OperatorInv'
<1> USE DEF ConsumeExport, ConsumeCompile, PlaceExport, PlaceCompiled
<1>1. call[c].op \in {"export", "compile"}
  BY DEF Consume, At
<1>2. c \in Operators
  BY <1>1 DEF OperatorInv, Releasing
<1>3. UNCHANGED <<exports, exportDirs, compiled, compiledDirs>>
  BY DEF released, compilation
<1>4. CASE Finish(c)
  BY <1>2, <1>3, <1>4, OperatorEnds DEF OperatorInv
<1>5. CASE ~Finish(c)
  <2>1. PICK at : /\ Goto(c, at)
                  /\ \/ at = "place"
                     \/ /\ at = "publish"
                        /\ call[c].op = "export" => call[c].about \notin exportDirs
                        /\ call[c].op = "compile" => call[c].about \notin compiledDirs
    BY <1>5 DEF Consume, At
  <2>2. /\ call'[c].op = call[c].op /\ call'[c].at = at /\ call'[c].about = call[c].about
        /\ \A d \in Clients \ {c} : call'[d] = call[d]
    BY <1>1, <2>1, GotoLocals
  <2>3. /\ ReleaseSound(call'[c], "export", exports, exportDirs)
        /\ ReleaseSound(call'[c], "compile", compiled, compiledDirs)
    BY <2>1, <2>2 DEF ReleaseSound
  <2>. QED
    BY <1>2, <1>3, <2>2, <2>3, OperatorWorks DEF OperatorInv
<1>. QED
  BY <1>4, <1>5

\* The rename finds no directory there: the operator is alone.
LEMMA OperatorPublishes ==
    ASSUME IInv, OperatorInv, \A d, e \in Operators : d = e, NEW c \in Clients,
           PublishExport(c) \/ PublishCompiled(c)
    PROVE  OperatorInv'
<1> DEFINE x == call[c].about
<1>1. call[c].op \in {"export", "compile"} /\ call[c].at = "publish"
  BY DEF PublishExport, PublishCompiled, At
<1>2. c \in Operators
  BY <1>1 DEF OperatorInv, Releasing
<1>3. /\ call[c].op = "export" => x \notin exportDirs
      /\ call[c].op = "compile" => x \notin compiledDirs
      /\ exports \subseteq exportDirs /\ compiled \subseteq compiledDirs
  BY <1>1 DEF OperatorInv, ReleaseSound
<1>4. /\ Goto(c, "register") /\ UNCHANGED <<exports, compiled>>
      /\ \/ /\ call[c].op = "export"
            /\ exportDirs' = exportDirs \cup {x} /\ UNCHANGED compiledDirs
         \/ /\ call[c].op = "compile"
            /\ compiledDirs' = compiledDirs \cup {x} /\ UNCHANGED exportDirs
  BY <1>3 DEF PublishExport, PublishCompiled, At, released, compilation
<1>5. /\ call'[c].op = call[c].op /\ call'[c].at = "register" /\ call'[c].about = x
      /\ \A d \in Clients \ {c} : call'[d] = call[d]
  BY <1>1, <1>4, GotoLocals
<1>6. /\ ReleaseSound(call'[c], "export", exports', exportDirs')
      /\ ReleaseSound(call'[c], "compile", compiled', compiledDirs')
  BY <1>3, <1>4, <1>5 DEF ReleaseSound
<1>. QED
  BY <1>2, <1>3, <1>4, <1>5, <1>6, OperatorWorks

LEMMA OperatorRegisters ==
    ASSUME IInv, OperatorInv, \A d, e \in Operators : d = e, NEW c \in Clients,
           RegisterExport(c) \/ RegisterCompiled(c)
    PROVE  OperatorInv'
<1> DEFINE x == call[c].about
<1>1. call[c].op \in {"export", "compile"} /\ call[c].at = "register"
  BY DEF RegisterExport, RegisterCompiled, At
<1>2. c \in Operators
  BY <1>1 DEF OperatorInv, Releasing
<1>3. /\ call[c].op = "export" => x \in exportDirs \ exports
      /\ call[c].op = "compile" => x \in compiledDirs \ compiled
      /\ exports \subseteq exportDirs /\ compiled \subseteq compiledDirs
  BY <1>1 DEF OperatorInv, ReleaseSound
<1>4. /\ Finish(c) /\ UNCHANGED <<exportDirs, compiledDirs>>
      /\ \/ call[c].op = "export" /\ exports' = exports \cup {x} /\ UNCHANGED compiled
         \/ call[c].op = "compile" /\ compiled' = compiled \cup {x} /\ UNCHANGED exports
  BY <1>3 DEF RegisterExport, RegisterCompiled, At, released, compilation
<1>. QED
  BY <1>2, <1>3, <1>4, OperatorEnds

\* The locals of a curation that goes on are those of no export.
LEMMA CurationElsewhere ==
    ASSUME IInv, NEW c \in Clients,
           \/ ReadExperiences(c) \/ ReadFeedback(c) \/ Materialize(c)
           \/ LookForIdentical(c) \/ TakeNumber(c) \/ PublishVersion(c) \/ RegisterVersion(c)
    PROVE  Elsewhere({"export", "compile"})
<1> DEFINE ops == {"export", "compile"}
           Goes == \E k : k.op \notin ops /\ call' = [call EXCEPT ![c] = k]
<1>1. ASSUME NEW at, NEW todo,
             call' = [call EXCEPT ![c] = [op |-> "collect", at |-> at, todo |-> todo]]
      PROVE  Goes
  <2>1. PICK k : k = [op |-> "collect", at |-> at, todo |-> todo]
    OBVIOUS
  <2>. QED
    BY <1>1, <2>1
<1>2. ASSUME NEW seen,
             call' = [call EXCEPT ![c] = [op |-> "collect", at |-> "feedback", seen |-> seen]]
      PROVE  Goes
  <2>1. PICK k : k = [op |-> "collect", at |-> "feedback", seen |-> seen]
    OBVIOUS
  <2>. QED
    BY <1>2, <2>1
<1>3. ASSUME NEW todo,
             call' = [call EXCEPT ![c] = [op |-> "create", at |-> "look", todo |-> todo]]
      PROVE  Goes
  <2>1. PICK k : k = [op |-> "create", at |-> "look", todo |-> todo]
    OBVIOUS
  <2>. QED
    BY <1>3, <2>1
<1>4. ASSUME NEW todo, NEW v,
             call' = [call EXCEPT ![c] = [op |-> "create", at |-> "publish",
                                          todo |-> todo, about |-> v]]
      PROVE  Goes
  <2>1. PICK k : k = [op |-> "create", at |-> "publish", todo |-> todo, about |-> v]
    OBVIOUS
  <2>. QED
    BY <1>4, <2>1
<1>5. ASSUME \/ LookForIdentical(c) \/ PublishVersion(c)
             \/ Finish(c)
      PROVE  Elsewhere(ops)
  <2>1. Finish(c) \/ (call[c].op = "create" /\ \E at : Goto(c, at))
    BY <1>5 DEF LookForIdentical, PublishVersion, At
  <2>. QED
    BY <2>1, ElsewhereCases
<1>6. Finish(c) \/ LookForIdentical(c) \/ PublishVersion(c) \/ Goes
  <2> HIDE DEF Goes
  <2>1. CASE ReadExperiences(c)
    BY <1>2, <2>1 DEF ReadExperiences, Start
  <2>2. CASE ReadFeedback(c)
    BY <1>1, <2>2 DEF ReadFeedback
  <2>3. CASE Materialize(c)
    BY <1>3, <2>3 DEF Materialize, Finish
  <2>4. CASE TakeNumber(c)
    BY <1>4, <2>4 DEF TakeNumber
  <2>5. CASE RegisterVersion(c)
    BY <1>3, <2>5 DEF RegisterVersion, NextBucket, Finish
  <2>. QED
    BY <2>1, <2>2, <2>3, <2>4, <2>5
<1>. QED
  BY <1>5, <1>6, ElsewhereCases

\* A step of another call than one of the operator's exports.
LEMMA OperatorElsewhere ==
    ASSUME IInv, OperatorInv,
           \/ \E e \in Exps :
                \/ CaptureChat(e)
                \/ \E q \in {"failed", "passed"} : UpdateQuality(e, q)
                \/ \E verdict \in Verdicts, text \in Texts : CaptureFeedback(e, verdict, text)
           \/ \E t, v : RequestPromotion(t, v) \/ RequestExport(t, v) \/ RequestCompile(t, v)
           \/ \E c \in Clients : \E t, v : BeginApprove(c, t, v)
           \/ \E c \in Clients :
                \/ ReadExperiences(c) \/ ReadFeedback(c) \/ Materialize(c)
                \/ LookForIdentical(c) \/ TakeNumber(c)
                \/ PublishVersion(c) \/ RegisterVersion(c)
                \/ ConsumeApproval(c) \/ RecordReviewTransition(c) \/ Crash(c)
           \/ \E t \in Ids : Decide(t)
           \/ UNCHANGED vars
    PROVE  OperatorInv'
<1> DEFINE ops == {"export", "compile"}
<1>1. UNCHANGED <<exports, exportDirs, compiled, compiledDirs>>
  BY DEF CaptureChat, UpdateQuality, CaptureFeedback, RequestPromotion, RequestExport,
     RequestCompile, BeginApprove, ReadExperiences, ReadFeedback, Materialize,
     LookForIdentical, TakeNumber, PublishVersion, RegisterVersion, ConsumeApproval,
     RecordReviewTransition, Crash, Decide, vars, released, compilation
<1>2. Elsewhere(ops)
  <2>1. ASSUME NEW c \in Clients, NEW t, NEW v, BeginApprove(c, t, v) PROVE Elsewhere(ops)
    BY <2>1, BeginsElsewhere
  <2>2. ASSUME NEW c \in Clients, ConsumeApproval(c) PROVE Elsewhere(ops)
    BY <2>2, ConsumesElsewhere DEF ConsumeApproval
  <2>3. ASSUME NEW c \in Clients, RecordReviewTransition(c) \/ Crash(c)
        PROVE  Elsewhere(ops)
    <3>1. Finish(c)
      BY <2>3 DEF RecordReviewTransition, Crash
    <3>. QED
      BY <3>1, ElsewhereCases
  <2>4. ASSUME NEW c \in Clients,
               \/ ReadExperiences(c) \/ ReadFeedback(c) \/ Materialize(c)
               \/ LookForIdentical(c) \/ TakeNumber(c) \/ PublishVersion(c) \/ RegisterVersion(c)
        PROVE  Elsewhere(ops)
    BY <2>4, CurationElsewhere
  <2>5. CASE \/ \E e \in Exps :
                  \/ CaptureChat(e)
                  \/ \E q \in {"failed", "passed"} : UpdateQuality(e, q)
                  \/ \E verdict \in Verdicts, text \in Texts :
                        CaptureFeedback(e, verdict, text)
             \/ \E t, v :
                  RequestPromotion(t, v) \/ RequestExport(t, v) \/ RequestCompile(t, v)
             \/ \E t \in Ids : Decide(t)
             \/ UNCHANGED vars
    <3>1. UNCHANGED call
      BY <2>5 DEF CaptureChat, UpdateQuality, CaptureFeedback, RequestPromotion,
         RequestExport, RequestCompile, Decide, vars
    <3>. QED
      BY <3>1 DEF Elsewhere
  <2> HIDE DEF ops
  <2>. QED
    BY <2>1, <2>2, <2>3, <2>4, <2>5
<1>. QED
  BY <1>1, <1>2, OperatorQuiet

LEMMA InitOperator == Init => OperatorInv
<1> SUFFICES ASSUME Init PROVE OperatorInv
  OBVIOUS
<1>1. exports = {} /\ compiled = {} /\ \A c \in Clients : call[c] = [op |-> "idle"]
  BY DEF Init, Idle
<1>. QED
  BY <1>1 DEF OperatorInv, Releasing, ReleaseSound

LEMMA NextOperator ==
    ASSUME \A d, e \in Operators : d = e, IInv, OperatorInv, [Next]_vars
    PROVE  OperatorInv'
<1>0. Operators \subseteq Clients
  OBVIOUS
<1>1. CASE VaultNext
  BY <1>1, OperatorElsewhere DEF VaultNext
<1>2. CASE FactoryNext
  BY <1>0, <1>2, OperatorElsewhere DEF FactoryNext
<1>3. CASE ExportNext
  BY <1>3, OperatorBegins, OperatorPrepares, OperatorPublishes, OperatorRegisters,
     OperatorElsewhere DEF ExportNext
<1>4. CASE CompilerNext
  BY <1>4, OperatorBegins, OperatorPrepares, OperatorPublishes, OperatorRegisters,
     OperatorElsewhere DEF CompilerNext
<1>5. CASE (\E t \in Ids : Decide(t)) \/ (\E c \in Clients : Crash(c)) \/ UNCHANGED vars
  BY <1>5, OperatorElsewhere
<1>. QED
  BY <1>1, <1>2, <1>3, <1>4, <1>5 DEF Next

-----------------------------------------------------------------------------
\* What one curator and one operator are enough for

\* While one process curates, no item is ever stored twice: not by curating
\* again, not by two buckets of one curation, and not after a crash between
\* the read of the registry and the write of the rows, however the user, the
\* operators and the vault move on meanwhile.
THEOREM ItemsAreStoredOnce ==
    ASSUME \A d, e \in Curators : d = e
    PROVE  Spec => []NoItemTwice
<1>1. Init => CuratorInv
  BY InitCurator
<1>2. IInv /\ CuratorInv /\ [Next]_vars => CuratorInv'
  BY NextCurator
<1>3. CuratorInv => NoItemTwice
  BY DEF CuratorInv
<1>. QED
  BY <1>1, <1>2, <1>3, InductiveInvariant, PTL DEF Spec

\* While, besides, one process promotes, exports and compiles, whatever is
\* registered keeps its directory: the handlers that remove directories never
\* remove one that a registry names, so the preflight is never degraded.
THEOREM RegisteredFilesStay ==
    ASSUME \A d, e \in Curators : d = e, \A d, e \in Operators : d = e
    PROVE  Spec => []RegisteredKeepFiles
<1>1. Init => CuratorInv /\ OperatorInv
  BY InitCurator, InitOperator
<1>2. IInv /\ CuratorInv /\ OperatorInv /\ [Next]_vars => CuratorInv' /\ OperatorInv'
  BY NextCurator, NextOperator
<1>3. CuratorInv /\ OperatorInv => RegisteredKeepFiles
  BY DEF CuratorInv, OperatorInv, RegisteredKeepFiles, PipelineReady, CompiledVerified
<1>. QED
  BY <1>1, <1>2, <1>3, InductiveInvariant, PTL DEF Spec

-----------------------------------------------------------------------------
\* The approvals

LEMMA IssueIsToken ==
    ASSUME IInv, NEW t \in Ids,
           \/ \E v \in DOMAIN versions : RequestPromotion(t, v)
           \/ \E v \in DOMAIN versions, p \in Percents :
                RequestExport(t, [version |-> v, percent |-> p])
           \/ \E x \in exports : RequestCompile(t, x)
    PROVE  Cyber!TokenNext
<1>0. /\ \A v \in DOMAIN versions : v \in Version
      /\ \A x \in exports : x \in Export
  BY DEF IInv, TypeOK
<1>1. \E k \in Calls : Cyber!Issue(t, k)
  <2>1. ASSUME NEW v \in DOMAIN versions, RequestPromotion(t, v)
        PROVE  \E k \in Calls : Cyber!Issue(t, k)
    <3>1. [tool |-> "approve", args |-> v] \in Calls
      BY <1>0 DEF Calls
    <3>. QED
      BY <2>1, <3>1 DEF RequestPromotion
  <2>2. ASSUME NEW v \in DOMAIN versions, NEW p \in Percents,
               RequestExport(t, [version |-> v, percent |-> p])
        PROVE  \E k \in Calls : Cyber!Issue(t, k)
    <3>1. [tool |-> "export", args |-> [version |-> v, percent |-> p]] \in Calls
      BY <1>0 DEF Calls, Export
    <3>. QED
      BY <2>2, <3>1 DEF RequestExport
  <2>3. ASSUME NEW x \in exports, RequestCompile(t, x)
        PROVE  \E k \in Calls : Cyber!Issue(t, k)
    <3>1. [tool |-> "compile", args |-> x] \in Calls
      BY <1>0 DEF Calls
    <3>. QED
      BY <2>3, <3>1 DEF RequestCompile
  <2>. QED
    BY <2>1, <2>2, <2>3
<1>. QED
  BY <1>1 DEF Cyber!TokenNext

LEMMA SpendIsToken ==
    ASSUME IInv, NEW c \in Clients,
           ConsumeApproval(c) \/ ConsumeExport(c) \/ ConsumeCompile(c)
    PROVE  [Cyber!TokenNext]_token
<1>1. PICK op \in {"approve", "export", "compile"}, next \in {"transition", "place"} :
        Consume(c, op, next)
  BY DEF ConsumeApproval, ConsumeExport, ConsumeCompile
<1> DEFINE bound == [tool |-> op, args |-> call[c].about]
<1>2. /\ call[c].token \in Ids
      /\ op = "approve" => call[c].about \in Version
      /\ op \in {"export", "compile"} => call[c].about \in Export
  BY <1>1, LocalsOf DEF Consume, At, IInv, TypeOK
<1>3. bound \in Calls
  BY <1>2 DEF Calls
<1>4. Cyber!Spend(call[c].token, bound) \/ UNCHANGED token
  BY <1>1 DEF Consume
<1> HIDE DEF bound
<1>. QED
  BY <1>2, <1>3, <1>4 DEF Cyber!TokenNext

\* Whatever a step does to the approvals, the approval store promises it.
LEMMA TokenSteps ==
    ASSUME IInv, [Next]_vars
    PROVE  [Cyber!TokenNext]_token
<1>1. CASE VaultNext
  BY <1>1 DEF VaultNext, CaptureChat, UpdateQuality, CaptureFeedback, ReadExperiences,
     ReadFeedback, Materialize
<1>2. CASE FactoryNext
  <2>1. ASSUME NEW c \in Clients,
               \/ LookForIdentical(c) \/ TakeNumber(c) \/ PublishVersion(c)
               \/ RegisterVersion(c) \/ RecordReviewTransition(c)
        PROVE  UNCHANGED token
    BY <2>1 DEF LookForIdentical, TakeNumber, PublishVersion, RegisterVersion,
       RecordReviewTransition
  <2>2. ASSUME NEW c, NEW t, NEW v, BeginApprove(c, t, v)
        PROVE  UNCHANGED token
    BY <2>2 DEF BeginApprove
  <2>. QED
    BY <1>2, <2>1, <2>2, IssueIsToken, SpendIsToken DEF FactoryNext
<1>3. CASE ExportNext
  <2>1. ASSUME NEW c \in Clients, PlaceExport(c) \/ PublishExport(c) \/ RegisterExport(c)
        PROVE  UNCHANGED token
    BY <2>1 DEF PlaceExport, PublishExport, RegisterExport
  <2>2. ASSUME NEW c, NEW t, NEW x, BeginExport(c, t, x)
        PROVE  UNCHANGED token
    BY <2>2 DEF BeginExport
  <2>. QED
    BY <1>3, <2>1, <2>2, IssueIsToken, SpendIsToken DEF ExportNext
<1>4. CASE CompilerNext
  <2>1. ASSUME NEW c \in Clients, PlaceCompiled(c) \/ PublishCompiled(c) \/ RegisterCompiled(c)
        PROVE  UNCHANGED token
    BY <2>1 DEF PlaceCompiled, PublishCompiled, RegisterCompiled
  <2>2. ASSUME NEW c, NEW t, NEW x, BeginCompile(c, t, x)
        PROVE  UNCHANGED token
    BY <2>2 DEF BeginCompile
  <2>. QED
    BY <1>4, <2>1, <2>2, IssueIsToken, SpendIsToken DEF CompilerNext
<1>5. CASE \E t \in Ids : Decide(t)
  BY <1>5 DEF Decide, Cyber!TokenNext
<1>6. CASE (\E c \in Clients : Crash(c)) \/ UNCHANGED vars
  BY <1>6 DEF Crash, vars
<1>. QED
  BY <1>1, <1>2, <1>3, <1>4, <1>5, <1>6 DEF Next

\* Promotion, export and compilation ask for and spend approvals only in ways
\* the approval store promises (ApprovalToken, which Approvals implements): one
\* is issued for one version or export and one of the three steps, and spent at
\* most once and for that, whatever clients race or crash.
THEOREM PipelineUsesTokens == Spec => Cyber!TokenSpec
<1>1. Init => Cyber!TokenInit
  BY DEF Init, Cyber!TokenInit
<1>2. IInv /\ [Next]_vars => [Cyber!TokenNext]_token
  BY TokenSteps
<1>. QED
  BY <1>1, <1>2, InductiveInvariant, PTL DEF Spec, Cyber!TokenSpec

=============================================================================
