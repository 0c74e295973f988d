--------------------------- MODULE DatasetFactory ---------------------------
(***************************************************************************)
(* The dataset factory (dataset_factory.py) and the review that promotes a  *)
(* version (learning_engine_runtime.py).                                    *)
(*                                                                          *)
(* create_version looks for an identical version, takes the next number,    *)
(* writes a temporary directory, renames it into place and only then inserts*)
(* the rows, each in a transaction of its own. Whatever raises after the    *)
(* temporary directory exists removes it AND the version's directory.       *)
(***************************************************************************)
EXTENDS TrainingState

OfType(type) == {v \in DOMAIN versions : v.type = type}

NextNumber(type) ==
    1 + (IF OfType(type) = {} THEN 0
         ELSE CHOOSE n \in {v.number : v \in OfType(type)} :
                \A v \in OfType(type) : v.number <= n)

Bucket(c) == Head(call[c].todo)

IdenticalExists(b) == \E v \in OfType(b.type) : v.items = b.items

\* create_version raised: materialize raises with it, and the types already
\* done stay.
LookForIdentical(c) ==
    /\ At(c, "create", "look")
    /\ IF IdenticalExists(Bucket(c)) THEN Finish(c) ELSE Goto(c, "number")
    /\ UNCHANGED <<vault, factory, released, compilation, token, crashes>>

\* The number is read in its own transaction and fixes the id.
TakeNumber(c) ==
    /\ At(c, "create", "number")
    /\ LET b == Bucket(c)
           v == [type |-> b.type, number |-> NextNumber(b.type), items |-> b.items]
       IN IF v \in versionDirs
          THEN Finish(c)
          ELSE call' = [call EXCEPT ![c] = [op |-> "create", at |-> "publish",
                                            todo |-> @.todo, about |-> v]]
    /\ UNCHANGED <<vault, factory, released, compilation, token, crashes>>

\* os.replace does not replace a directory that has files in it: it raises,
\* and the handler removes what is there.
PublishVersion(c) ==
    /\ At(c, "create", "publish")
    /\ LET v == call[c].about
       IN IF v \in versionDirs
          THEN versionDirs' = versionDirs \ {v} /\ Finish(c)
          ELSE versionDirs' = versionDirs \cup {v} /\ Goto(c, "register")
    /\ UNCHANGED <<vault, versions, released, compilation, token, crashes>>

\* UNIQUE(type, number), UNIQUE(type, content_hash) and the primary key.
Conflicts(v) ==
    \E w \in OfType(v.type) : w.number = v.number \/ w.items = v.items

NextBucket(c) ==
    call' = [call EXCEPT ![c] =
                IF Len(@.todo) = 1 THEN Idle
                ELSE [op |-> "create", at |-> "look", todo |-> Tail(@.todo)]]

\* Mutant of RegisterVersion: the directory is removed on the way out of the
\* handler, whether it raised or not.
RegisterVersionFinally(c) ==
    /\ At(c, "create", "register")
    /\ LET v == call[c].about
       IN /\ versionDirs' = versionDirs \ {v}
          /\ versions' = [w \in DOMAIN versions \cup {v} |->
                            IF w = v THEN "candidate" ELSE versions[w]]
    /\ NextBucket(c)
    /\ UNCHANGED <<vault, released, compilation, token, crashes>>

RegisterVersion(c) ==
    /\ At(c, "create", "register")
    /\ LET v == call[c].about
       IN IF Conflicts(v)
          THEN /\ versionDirs' = versionDirs \ {v}
               /\ Finish(c)
               /\ UNCHANGED versions
          ELSE /\ versions' = [w \in DOMAIN versions \cup {v} |->
                                IF w = v THEN "candidate" ELSE versions[w]]
               /\ NextBucket(c)
               /\ UNCHANGED versionDirs
    /\ UNCHANGED <<vault, released, compilation, token, crashes>>

-----------------------------------------------------------------------------
\* Review by Dany and Cyber

\* verify_version: the files are there and hash to what the rows say. Files
\* change only by being removed with their directory.
Verified(v) == v \in DOMAIN versions /\ v \in versionDirs

\* Dany reads every payload; one that she rejects rejects the version.
DanyAccepts(v) == v.items # {} /\ \A i \in v.items : i.text \notin Poor

\* Mutant of Reviewable: Dany is asked when approval is requested, not again.
ReviewableUnread(v) == v \in DOMAIN versions /\ versions[v] = "candidate"

Reviewable(v) ==
    /\ v \in DOMAIN versions
    /\ versions[v] = "candidate"
    /\ Verified(v)
    /\ DanyAccepts(v)

RequestPromotion(t, v) ==
    /\ Reviewable(v)
    /\ Cyber!Issue(t, [tool |-> "approve", args |-> v])
    /\ UNCHANGED <<vault, factory, released, compilation, call, crashes>>

BeginApprove(c, t, v) ==
    /\ Reviewable(v)
    /\ Start(c, [op |-> "approve", at |-> "consume", about |-> v, token |-> t])
    /\ UNCHANGED <<vault, factory, released, compilation, token, crashes>>

ConsumeApproval(c) ==
    /\ Consume(c, "approve", "transition")
    /\ UNCHANGED <<vault, factory, released, compilation, crashes>>

\* One transaction; a version that is no longer a candidate raises, and the
\* approval is spent for nothing.
RecordReviewTransition(c) ==
    /\ At(c, "approve", "transition")
    /\ LET v == call[c].about
       IN IF v \in DOMAIN versions /\ versions[v] = "candidate"
          THEN versions' = [versions EXCEPT ![v] = "approved-for-export"]
          ELSE UNCHANGED versions
    /\ Finish(c)
    /\ UNCHANGED <<vault, versionDirs, released, compilation, token, crashes>>

FactoryNext ==
    \/ \E t \in Ids, v \in DOMAIN versions : RequestPromotion(t, v)
    \/ \E c \in Operators, t \in Approved, v \in DOMAIN versions : BeginApprove(c, t, v)
    \/ \E c \in Clients :
        \/ LookForIdentical(c) \/ TakeNumber(c)
        \/ PublishVersion(c) \/ RegisterVersion(c)
        \/ ConsumeApproval(c) \/ RecordReviewTransition(c)

=============================================================================
