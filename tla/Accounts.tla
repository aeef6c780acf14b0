------------------------------ MODULE Accounts ------------------------------
(***************************************************************************)
(* User accounts.  Clerk's webhook creates and updates the rows of users;  *)
(* every other request carries a token, which is checked against a cached  *)
(* copy of Clerk's key set and resolved to a row; DELETE /users/me flags    *)
(* the row and then purges the user's points from the Qdrant collections,   *)
(* one after the other.  "ingest" stands for the requests and tasks that    *)
(* upsert points of the user they were authenticated for.                  *)
(*                                                                         *)
(* Clerk's key sets are numbered; a set holds the newest signing key and    *)
(* the one before it.  A user is the number of a row.  Names, avatars and   *)
(* preferences are left out.                                               *)
(***************************************************************************)
EXTENDS Integers, FiniteSets

CONSTANTS
    Subjects,    \* Clerk's user ids
    Emails,
    Existing,    \* the rows of users at first, their points in every collection
    Requests,    \* requests and webhook deliveries, each made once
    Collections, \* number of Qdrant collections, purged in order
    MaxUsers,    \* bound on the rows of users
    MaxKeys,     \* bound on Clerk's key sets
    None

ASSUME AccountAssumption ==
    /\ Collections \in Nat \ {0} /\ MaxUsers \in Nat /\ MaxKeys \in Nat \ {0}
    /\ None \notin Requests \cup (0..MaxUsers) \cup (0..MaxKeys)

\* The table respects its primary key and its unique indexes at first.
ASSUME ExistingAssumption ==
    /\ IsFiniteSet(Existing) /\ Cardinality(Existing) <= MaxUsers
    /\ Existing \subseteq [id : 1..Cardinality(Existing), subject : Subjects,
                           email : Emails, deleted : BOOLEAN]
    /\ \A r, s \in Existing :
           r.id = s.id \/ r.subject = s.subject \/ r.email = s.email => r = s

VARIABLES
    users,     \* PostgreSQL: the rows of users
    vectors,   \* Qdrant: points, each with its user, collection and origin
    jwks,      \* Clerk: the number of the current key set
    cached,    \* Redis: the key set under clerk:jwks, or None
    pc,        \* the step each request is about to take
    kind,      \* what each request asks for
    subject,   \* whom each request is about
    email,     \* the primary address of each webhook's payload, None if not to be written
    token,     \* the key each request's token is signed with
    keys,      \* the key set each request checks its token against
    uid,       \* the row each request has loaded, None for none
    purged,    \* the collections each deletion has purged
    overtaken, \* history: the requests at work for a user when it was flagged
    cold       \* history: the key set current when no copy of one was left

ghosts == <<overtaken, cold>>
input  == <<kind, subject, email, token>>
vars   == <<users, vectors, jwks, cached, pc, input, keys, uid, purged, ghosts>>

Kinds     == {"webhook", "profile", "delete", "ingest"}
KeySteps  == {"store", "decode"}
AuthSteps == {"fetch", "resolve"} \cup KeySteps
Active    == AuthSteps \cup {"select", "write", "flag", "purge", "upsert"}

KeySet(n)   == {n - 1, n}
Row(u)      == CHOOSE r \in users : r.id = u
Rows(s)     == {r \in users : r.subject = s}
Deleted(u)  == \E r \in users : r.id = u /\ r.deleted

Init ==
    /\ users = Existing /\ overtaken = {}
    /\ vectors = {[user |-> r.id, in |-> i, by |-> None] :
                     r \in Existing, i \in 1..Collections}
    /\ jwks = 1 /\ cached = None /\ cold = 1
    /\ pc = [q \in Requests |-> "idle"]
    /\ kind = [q \in Requests |-> None]
    /\ subject = [q \in Requests |-> None]
    /\ email = [q \in Requests |-> None]
    /\ token = [q \in Requests |-> None]
    /\ keys = [q \in Requests |-> None]
    /\ uid = [q \in Requests |-> None]
    /\ purged = [q \in Requests |-> 0]

Goto(q, from, to) ==
    /\ pc[q] = from
    /\ pc' = [pc EXCEPT ![q] = to]

\* What q no longer uses.
Forget(q) ==
    /\ subject' = [subject EXCEPT ![q] = None]
    /\ email' = [email EXCEPT ![q] = None]
    /\ token' = [token EXCEPT ![q] = None]
    /\ keys' = [keys EXCEPT ![q] = None]
    /\ UNCHANGED kind

-----------------------------------------------------------------------------
(* POST /users/sync                                                         *)

Deliver(q) ==
    /\ Goto(q, "idle", "select")
    /\ kind' = [kind EXCEPT ![q] = "webhook"]
    /\ \E s \in Subjects, e \in Emails :
           /\ subject' = [subject EXCEPT ![q] = s]
           /\ email' = [email EXCEPT ![q] = e]
    /\ UNCHANGED <<users, vectors, jwks, cached, token, keys, uid, purged, ghosts>>

\* A deleted row is found as well.  An address that is the row's already will not
\* be written, whatever the row holds by then.
SelectUser(q) ==
    LET found == Rows(subject[q]) IN
    /\ Goto(q, "select", "write")
    /\ uid' = [uid EXCEPT ![q] =
                  IF found = {} THEN None ELSE (CHOOSE r \in found : TRUE).id]
    /\ email' = [email EXCEPT ![q] = IF \E r \in found : r.email = @ THEN None ELSE @]
    /\ UNCHANGED <<users, vectors, jwks, cached, kind, subject, token, keys, purged, ghosts>>

\* Mutant of Conflict: the address is not unique.
SubjectConflict(r) == \E x \in users : x.id # r.id /\ x.subject = r.subject

\* The unique indexes on clerk_user_id and email; deleted rows count.
Conflict(r) ==
    \E x \in users : x.id # r.id /\ (x.subject = r.subject \/ x.email = r.email)

\* Mutant of Synced: a known subject is reactivated.
Reactivated(q) ==
    IF uid[q] # None THEN [Row(uid[q]) EXCEPT !.email = IF email[q] = None THEN @ ELSE email[q],
                                                !.deleted = FALSE]
    ELSE [id |-> Cardinality(users) + 1, subject |-> subject[q],
          email |-> email[q], deleted |-> FALSE]

\* The row found, with the payload's address, or a new one.
Synced(q) ==
    IF uid[q] # None THEN [Row(uid[q]) EXCEPT !.email = IF email[q] = None THEN @ ELSE email[q]]
    ELSE [id |-> Cardinality(users) + 1, subject |-> subject[q],
          email |-> email[q], deleted |-> FALSE]

\* A conflict is answered 409.
WriteUser(q) ==
    /\ pc[q] = "write"
    /\ IF Conflict(Synced(q))
       THEN Goto(q, "write", "failed") /\ UNCHANGED users
       ELSE /\ Goto(q, "write", "done")
            /\ Cardinality(users) < MaxUsers \/ uid[q] # None
            /\ users' = {r \in users : r.id # uid[q]} \cup {Synced(q)}
    /\ Forget(q)
    /\ uid' = [uid EXCEPT ![q] = None]
    /\ UNCHANGED <<vectors, jwks, cached, purged, ghosts>>

-----------------------------------------------------------------------------
(* verify_clerk_token                                                       *)

\* A token signed with any key Clerk has had so far, withdrawn or not, comes in, and
\* the cached key set is read.
Request(q) ==
    /\ Goto(q, "idle", IF cached = None THEN "fetch" ELSE "decode")
    /\ keys' = [keys EXCEPT ![q] = cached]
    /\ \E k \in Kinds \ {"webhook"}, s \in Subjects, t \in 0..jwks :
           /\ kind' = [kind EXCEPT ![q] = k]
           /\ subject' = [subject EXCEPT ![q] = s]
           /\ token' = [token EXCEPT ![q] = t]
    /\ UNCHANGED <<users, vectors, jwks, cached, email, uid, purged, ghosts>>

FetchKeys(q) ==
    /\ Goto(q, "fetch", "store")
    /\ keys' = [keys EXCEPT ![q] = jwks]
    /\ UNCHANGED <<users, vectors, jwks, cached, input, uid, purged, ghosts>>

\* Whatever another request has stored since is overwritten.
StoreKeys(q) ==
    /\ Goto(q, "store", "decode")
    /\ cached' = keys[q]
    /\ UNCHANGED <<users, vectors, jwks, input, keys, uid, purged, ghosts>>

\* Mutant of Decode: a token whose key is not in the set passes.
DecodeUnverified(q) ==
    /\ Goto(q, "decode", "resolve")
    /\ UNCHANGED <<users, vectors, jwks, cached, input, keys, uid, purged, ghosts>>

\* A key that is not in the set is not looked for again: 401.
Decode(q) ==
    /\ Goto(q, "decode", IF token[q] \in KeySet(keys[q]) THEN "resolve" ELSE "refused")
    /\ keys' = [keys EXCEPT ![q] = None]
    /\ UNCHANGED <<users, vectors, jwks, cached, input, uid, purged, ghosts>>

\* Mutant of Resolve: it is not checked that there is a row.
ResolveAnyone(q) ==
    /\ Goto(q, "resolve", CASE kind[q] = "ingest"  -> "upsert"
                            [] kind[q] = "delete"  -> "flag"
                            [] kind[q] = "profile" -> "done")
    /\ Forget(q)
    /\ UNCHANGED <<users, vectors, jwks, cached, uid, purged, ghosts>>

\* The row of the subject, if it is active and not deleted, in a session of its
\* own; the two flags change together.
Resolve(q) ==
    LET found == {r \in Rows(subject[q]) : ~r.deleted} IN
    /\ pc[q] = "resolve"
    /\ IF found = {}
       THEN Goto(q, "resolve", "refused") /\ UNCHANGED uid
       ELSE /\ Goto(q, "resolve", CASE kind[q] = "ingest"  -> "upsert"
                                 [] kind[q] = "delete"  -> "flag"
                                 [] kind[q] = "profile" -> "done")
            /\ uid' = [uid EXCEPT ![q] = (CHOOSE r \in found : TRUE).id]
    /\ Forget(q)
    /\ UNCHANGED <<users, vectors, jwks, cached, purged, ghosts>>

-----------------------------------------------------------------------------
(* DELETE /users/me, and ingestion.  The row is selected again by its id,   *)
(* deleted or not; GET and PATCH, which change no column that is modelled,   *)
(* end there.                                                               *)

FlagUser(q) ==
    LET u == uid[q] IN
    /\ Goto(q, "flag", "purge")
    /\ users' = {r \in users : r.id # u} \cup {[Row(u) EXCEPT !.deleted = TRUE]}
    /\ overtaken' = overtaken \cup
           {p \in Requests : kind[p] = "ingest" /\ pc[p] = "upsert" /\ uid[p] = u}
    /\ UNCHANGED <<vectors, jwks, cached, input, keys, uid, purged, cold>>

\* Mutant of PurgeCollection: the last collection is forgotten.
PurgeAllButOne(q) ==
    /\ Goto(q, "purge", IF purged[q] + 1 < Collections - 1 THEN "purge" ELSE "done")
    /\ purged' = [purged EXCEPT ![q] = @ + 1]
    /\ vectors' = {v \in vectors : ~(v.user = uid[q] /\ v.in = purged[q] + 1)}
    /\ UNCHANGED <<users, jwks, cached, input, keys, uid, ghosts>>

\* delete_by_user, one collection after the other.
PurgeCollection(q) ==
    /\ Goto(q, "purge", IF purged[q] + 1 < Collections THEN "purge" ELSE "done")
    /\ purged' = [purged EXCEPT ![q] = @ + 1]
    /\ vectors' = {v \in vectors : ~(v.user = uid[q] /\ v.in = purged[q] + 1)}
    /\ UNCHANGED <<users, jwks, cached, input, keys, uid, ghosts>>

Upsert(q) ==
    /\ Goto(q, "upsert", "done")
    /\ \E i \in 1..Collections :
           vectors' = vectors \cup {[user |-> uid[q], in |-> i, by |-> q]}
    /\ UNCHANGED <<users, jwks, cached, input, keys, uid, purged, ghosts>>

-----------------------------------------------------------------------------
(* The world.                                                               *)

\* PostgreSQL, Redis, Clerk or Qdrant fails, or the process dies.  Elsewhere a
\* request that fails is like one that takes no further step.
Fail(q) ==
    /\ pc[q] \in KeySteps \cup {"resolve", "purge"}
    /\ pc' = [pc EXCEPT ![q] = "failed"]
    /\ Forget(q)
    /\ uid' = [uid EXCEPT ![q] = None]
    /\ UNCHANGED <<users, vectors, jwks, cached, purged, ghosts>>

\* Clerk rotates its keys.
Rotate ==
    /\ jwks < MaxKeys
    /\ jwks' = jwks + 1
    /\ UNCHANGED <<users, vectors, cached, pc, input, keys, uid, purged, ghosts>>

\* The hour of the cached copy is over.
Expire ==
    /\ cached # None
    /\ cached' = None
    /\ cold' = IF \A q \in Requests : pc[q] \notin KeySteps \cup {"resolve"} THEN jwks ELSE cold
    /\ UNCHANGED <<users, vectors, jwks, pc, input, keys, uid, purged, overtaken>>

Next ==
    \/ \E q \in Requests :
           \/ Deliver(q) \/ SelectUser(q) \/ WriteUser(q)
           \/ Request(q) \/ FetchKeys(q) \/ StoreKeys(q)
           \/ Decode(q) \/ Resolve(q) \/ FlagUser(q)
           \/ PurgeCollection(q) \/ Upsert(q) \/ Fail(q)
    \/ Rotate \/ Expire

Spec == Init /\ [][Next]_vars

-----------------------------------------------------------------------------
User   == [id : 1..MaxUsers, subject : Subjects, email : Emails, deleted : BOOLEAN]
Vector == [user : 1..MaxUsers, in : 1..Collections, by : Requests \cup {None}]

TypeOK ==
    /\ users \subseteq User /\ vectors \subseteq Vector
    /\ jwks \in 1..MaxKeys /\ cold \in 1..MaxKeys /\ cached \in 1..MaxKeys \cup {None}
    /\ pc \in [Requests -> Active \cup {"idle", "done", "failed", "refused"}]
    /\ kind \in [Requests -> Kinds \cup {None}]
    /\ subject \in [Requests -> Subjects \cup {None}]
    /\ email \in [Requests -> Emails \cup {None}]
    /\ token \in [Requests -> 0..MaxKeys \cup {None}]
    /\ keys \in [Requests -> 1..MaxKeys \cup {None}]
    /\ uid \in [Requests -> 1..MaxUsers \cup {None}]
    /\ purged \in [Requests -> 0..Collections]
    /\ overtaken \subseteq Requests
    /\ \A q \in Requests :
           /\ pc[q] \in {"flag", "purge", "upsert"} => uid[q] # None
           /\ pc[q] \in KeySteps => keys[q] # None

\* Deliveries of the webhook that overlap, are repeated or come out of order
\* never make two accounts of one subject or of one address.
OneAccount ==
    \A r, s \in users : r.subject = s.subject \/ r.email = s.email => r = s

\* An account that was deleted is never active again, although the webhook still
\* updates its row.
DeletedStaysDeleted ==
    [][\A u \in 1..MaxUsers : Deleted(u) => Deleted(u)']_vars

\* What the purge of DELETE /users/me achieves: once it went through, the only
\* points of the user are those of requests that had been authenticated when the
\* account was flagged.  It is less than is promised, see PurgeIsComplete.
LeftoversAreExplained ==
    \A v \in vectors :
        (\E q \in Requests : kind[q] = "delete" /\ pc[q] = "done" /\ uid[q] = v.user)
            => v.by \in overtaken

\* What DELETE /users/me promises: "purge all vector data immediately", by "all
\* Qdrant vectors owned by a user across all collections".  A request or a task
\* that was authenticated before upserts after the purge.
PurgeIsComplete ==
    \A v \in vectors, q \in Requests :
        kind[q] = "delete" /\ pc[q] = "done" => uid[q] # v.user

\* A token passes only if its key was in one of Clerk's key sets since the cached
\* copy last ran out with no request holding another.  A token of a key that had
\* been withdrawn by then is refused, whenever it comes in and however slow
\* fetches overwrite newer copies.
WithdrawnKeyIsRefused ==
    \A q \in Requests : pc[q] = "resolve" =>
        \E n \in cold..jwks : token[q] \in KeySet(n)
=============================================================================
