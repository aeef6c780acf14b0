--------------------------- MODULE AccountsProofs ---------------------------
(* Proofs about Accounts.                                                    *)
EXTENDS Accounts, FiniteSetTheorems, TLAPS

USE DEF ghosts, input

-----------------------------------------------------------------------------
(* The inductive invariants.                                                 *)

\* The table: ids are given in order, and the unique indexes hold.
Table ==
    /\ IsFiniteSet(users) /\ Cardinality(users) <= MaxUsers
    /\ \A r \in users : r.id \in 1..Cardinality(users)
    /\ \A r, s \in users : r.id = s.id => r = s
    /\ OneAccount

\* What a request carries at each step: an authenticated one knows what it asks
\* for, a webhook what it will insert, and who has loaded a row finds it again.
Carried ==
    \A q \in Requests :
        /\ pc[q] \in AuthSteps => kind[q] \in Kinds \ {"webhook"}
        /\ pc[q] \in {"flag", "purge"} => kind[q] = "delete"
        /\ pc[q] = "upsert" => kind[q] = "ingest"
        /\ pc[q] \in {"select", "write"} => kind[q] = "webhook" /\ subject[q] \in Subjects
        /\ pc[q] = "select" \/ (pc[q] = "write" /\ uid[q] = None) => email[q] \in Emails
        /\ uid[q] # None => \E r \in users : r.id = uid[q]
        /\ pc[q] \in AuthSteps \cup {"idle", "flag"} => purged[q] = 0
        /\ pc[q] = "purge" => purged[q] < Collections

Base == TypeOK /\ Table /\ Carried

\* A deletion has flagged its user's row, and of the collections it has purged the
\* points left are those of requests it overtook.
PurgedSoFar ==
    \A q \in Requests :
        pc[q] \in {"purge", "done"} /\ kind[q] = "delete" =>
            /\ Deleted(uid[q])
            /\ \A v \in vectors :
                   v.user = uid[q] /\ v.in <= purged[q] => v.by \in overtaken
            /\ pc[q] = "done" => purged[q] = Collections

\* A request about to upsert for a user who is flagged was overtaken.
UpsertsAreKnown ==
    \A q \in Requests :
        kind[q] = "ingest" /\ pc[q] = "upsert" /\ Deleted(uid[q]) => q \in overtaken

DeletionInv == PurgedSoFar /\ UpsertsAreKnown

\* Every copy of a key set, in the cache or in the hands of a request, was current
\* no earlier than `cold', and so was the set a token has passed with.
KeysAreRecent ==
    /\ cold <= jwks
    /\ cached # None => cached \in cold..jwks
    /\ \A q \in Requests :
           /\ pc[q] \in KeySteps => keys[q] \in cold..jwks
           /\ pc[q] = "resolve" => \E n \in cold..jwks : token[q] \in KeySet(n)

IInv == Base /\ DeletionInv /\ KeysAreRecent

-----------------------------------------------------------------------------
(* Rows.                                                                     *)

\* The row of an id that is in the table.
LEMMA RowOf ==
    ASSUME Table, NEW u, \E r \in users : r.id = u
    PROVE  /\ Row(u) \in users /\ Row(u).id = u
           /\ \A r \in users : r.id = u => r = Row(u)
<1>1. Row(u) \in users /\ Row(u).id = u
  BY DEF Row
<1> QED
  BY <1>1 DEF Table

\* A row that takes the place of the one with its id leaves a table of the same
\* size, with the ids it had.
LEMMA Replaced ==
    ASSUME TypeOK, Table, NEW r \in User, \E x \in users : x.id = r.id,
           users' = {x \in users : x.id # r.id} \cup {r}
    PROVE  /\ IsFiniteSet(users') /\ Cardinality(users') = Cardinality(users)
           /\ users' \subseteq User
           /\ \A x \in users' : x.id \in 1..Cardinality(users)
           /\ \A x, y \in users' : x.id = y.id => x = y
           /\ \A x \in users : \E y \in users' : y.id = x.id
<1>1. PICK old \in users : old.id = r.id
  OBVIOUS
<1>2. users' = (users \ {old}) \cup {r} /\ r \notin users \ {old}
  BY <1>1 DEF Table
<1>3. IsFiniteSet(users \ {old}) /\ Cardinality(users \ {old}) = Cardinality(users) - 1
  BY <1>1, FS_RemoveElement DEF Table
<1>4. Cardinality(users) \in Nat
  BY FS_CardinalityType DEF Table
<1>5. IsFiniteSet(users') /\ Cardinality(users') = Cardinality(users)
  <2>1. /\ IsFiniteSet((users \ {old}) \cup {r})
        /\ Cardinality((users \ {old}) \cup {r}) = Cardinality(users \ {old}) + 1
    BY <1>2, <1>3, FS_AddElement
  <2>2. IsFiniteSet(users') /\ Cardinality(users') = Cardinality(users \ {old}) + 1
    BY <1>2, <2>1, Zenon
  <2> QED
    BY <1>3, <1>4, <2>2
<1> QED
  BY <1>1, <1>5 DEF Table, TypeOK

\* A row that is inserted gets the next id.
LEMMA Inserted ==
    ASSUME TypeOK, Table, NEW r \in User, r.id = Cardinality(users) + 1,
           Cardinality(users) < MaxUsers,
           users' = {x \in users : x.id # None} \cup {r}
    PROVE  /\ IsFiniteSet(users') /\ Cardinality(users') = Cardinality(users) + 1
           /\ users' \subseteq User
           /\ \A x \in users' : x.id \in 1..Cardinality(users')
           /\ \A x, y \in users' : x.id = y.id => x = y
           /\ \A x \in users : x \in users'
<1>1. Cardinality(users) \in Nat
  BY FS_CardinalityType DEF Table
<1>2. \A x \in users : x.id # None /\ x.id # r.id
  BY <1>1, AccountAssumption DEF Table, TypeOK, User
<1>3. users' = users \cup {r} /\ r \notin users
  BY <1>2
<1>4. IsFiniteSet(users') /\ Cardinality(users') = Cardinality(users) + 1
  BY <1>3, FS_AddElement, ZenonT(30) DEF Table
<1>5. \A x \in users' : x.id \in 1..Cardinality(users')
  BY <1>1, <1>3, <1>4 DEF Table
<1>6. \A x, y \in users' : x.id = y.id => x = y
  BY <1>2, <1>3 DEF Table
<1> QED
  BY <1>3, <1>4, <1>5, <1>6 DEF TypeOK

\* What the webhook writes: a row of the table, or a new one that it goes with.
LEMMA SyncedRow ==
    ASSUME Base, NEW q \in Requests, pc[q] = "write",
           Cardinality(users) < MaxUsers \/ uid[q] # None
    PROVE  /\ Synced(q) \in User
           /\ uid[q] # None => /\ Synced(q).id = uid[q]
                               /\ Synced(q).deleted = Row(uid[q]).deleted
           /\ uid[q] = None => /\ Synced(q).id = Cardinality(users) + 1
                               /\ Cardinality(users) < MaxUsers
<1> USE DEF Base
<1>1. CASE uid[q] # None
  <2>1. Row(uid[q]) \in users /\ Row(uid[q]).id = uid[q]
    BY <1>1, RowOf DEF Carried
  <2>2. Row(uid[q]) \in User
    BY <2>1 DEF TypeOK
  <2>3. email[q] \in Emails \cup {None}
    BY DEF TypeOK
  <2> QED
    BY <1>1, <2>1, <2>2, <2>3 DEF Synced, User
<1>2. CASE uid[q] = None
  <2>1. Cardinality(users) + 1 \in 1..MaxUsers
    BY <1>2, AccountAssumption, FS_CardinalityType DEF Table
  <2>2. subject[q] \in Subjects /\ email[q] \in Emails
    BY <1>2 DEF Carried
  <2> QED
    BY <1>2, <2>1, <2>2 DEF Synced, User
<1> QED
  BY <1>1, <1>2

\* A write without a conflict keeps the table, every id in it, and what is flagged.
LEMMA WriteKeepsTable ==
    ASSUME Base, NEW q \in Requests, pc[q] = "write", ~Conflict(Synced(q)),
           Cardinality(users) < MaxUsers \/ uid[q] # None,
           users' = {r \in users : r.id # uid[q]} \cup {Synced(q)}
    PROVE  /\ Table' /\ users' \subseteq User
           /\ \A r \in users : \E s \in users' : s.id = r.id
           /\ \A u : Deleted(u) <=> Deleted(u)'
<1> USE DEF Base
<1> DEFINE new == Synced(q)
<1>1. \A x \in users : x.id # new.id => x.subject # new.subject /\ x.email # new.email
  BY DEF Conflict
<1>2. CASE uid[q] # None
  <2>1. new \in User /\ new.id = uid[q] /\ new.deleted = Row(uid[q]).deleted
    BY <1>2, SyncedRow
  <2>2. \E x \in users : x.id = new.id
    BY <1>2, <2>1 DEF Carried
  <2>3. /\ IsFiniteSet(users') /\ Cardinality(users') = Cardinality(users)
        /\ users' \subseteq User
        /\ \A x \in users' : x.id \in 1..Cardinality(users)
        /\ \A x, y \in users' : x.id = y.id => x = y
        /\ \A x \in users : \E y \in users' : y.id = x.id
    BY <2>1, <2>2, Replaced
  <2>4. OneAccount'
    BY <1>1, <2>1 DEF OneAccount, Table
  <2>5. \A u : Deleted(u) <=> Deleted(u)'
    <3>1. Row(new.id) \in users /\ Row(new.id).id = new.id
      BY <2>2, RowOf
    <3> QED
      BY <2>1, <3>1 DEF Deleted, Table
  <2> QED
    BY <2>3, <2>4, <2>5 DEF Table
<1>3. CASE uid[q] = None
  <2>1. new \in User /\ new.id = Cardinality(users) + 1 /\ Cardinality(users) < MaxUsers
    BY <1>3, SyncedRow
  <2>2. /\ IsFiniteSet(users') /\ Cardinality(users') = Cardinality(users) + 1
        /\ users' \subseteq User
        /\ \A x \in users' : x.id \in 1..Cardinality(users')
        /\ \A x, y \in users' : x.id = y.id => x = y
        /\ \A x \in users : x \in users'
    BY <1>3, <2>1, Inserted
  <2>3. OneAccount'
    BY <1>1, <1>3, <2>1, <2>2 DEF OneAccount, Table
  <2>4. ~new.deleted /\ Cardinality(users) \in Nat
    BY <1>3, FS_CardinalityType DEF Synced, Table
  <2>5. Cardinality(users') <= MaxUsers
    BY <2>1, <2>2, <2>4, AccountAssumption
  <2>6. \A u : Deleted(u) <=> Deleted(u)'
    BY <1>3, <2>2, <2>4 DEF Deleted
  <2> QED
    BY <2>2, <2>3, <2>5, <2>6 DEF Table
<1> QED
  BY <1>2, <1>3

\* Flagging a row keeps the table, and flags no other user.
LEMMA FlagKeepsTable ==
    ASSUME Base, NEW q \in Requests, pc[q] = "flag",
           users' = {r \in users : r.id # uid[q]}
                        \cup {[Row(uid[q]) EXCEPT !.deleted = TRUE]}
    PROVE  /\ Table' /\ users' \subseteq User
           /\ \A r \in users : \E s \in users' : s.id = r.id
           /\ \A u : Deleted(u)' <=> Deleted(u) \/ u = uid[q]
<1> USE DEF Base
<1> DEFINE new == [Row(uid[q]) EXCEPT !.deleted = TRUE]
<1>1. Row(uid[q]) \in users /\ Row(uid[q]).id = uid[q]
  BY RowOf DEF Carried, TypeOK
<1>2. /\ new \in User /\ new.id = uid[q] /\ new.deleted
      /\ new.subject = Row(uid[q]).subject /\ new.email = Row(uid[q]).email
  BY <1>1 DEF TypeOK, User
<1>3. /\ IsFiniteSet(users') /\ Cardinality(users') = Cardinality(users)
      /\ users' \subseteq User
      /\ \A x \in users' : x.id \in 1..Cardinality(users)
      /\ \A x, y \in users' : x.id = y.id => x = y
      /\ \A x \in users : \E y \in users' : y.id = x.id
  BY <1>1, <1>2, Replaced
<1>4. OneAccount'
  <2> SUFFICES ASSUME NEW x \in users', NEW y \in users',
                      x.subject = y.subject \/ x.email = y.email
               PROVE  x = y
    BY DEF OneAccount
  <2>1. \A z \in users' : \E o \in users :
            o.id = z.id /\ o.subject = z.subject /\ o.email = z.email
    BY <1>1, <1>2
  <2>2. PICK v \in users : v.id = x.id /\ v.subject = x.subject /\ v.email = x.email
    BY <2>1
  <2>3. PICK w \in users : w.id = y.id /\ w.subject = y.subject /\ w.email = y.email
    BY <2>1
  <2>4. v = w
    BY <2>2, <2>3 DEF Table, OneAccount
  <2> QED
    BY <1>3, <2>2, <2>3, <2>4
<1>5. \A u : Deleted(u)' <=> Deleted(u) \/ u = uid[q]
  BY <1>1, <1>2 DEF Deleted, Table
<1> QED
  BY <1>3, <1>4, <1>5 DEF Table

-----------------------------------------------------------------------------
(* The invariants hold.                                                      *)

LEMMA BaseInit == Init => Base
<1> SUFFICES ASSUME Init PROVE Base
  OBVIOUS
<1>1. Cardinality(users) \in Nat /\ users = Existing
  BY ExistingAssumption, FS_CardinalityType DEF Init
<1>2. Table
  BY <1>1, ExistingAssumption DEF Table, OneAccount
<1>3. users \subseteq User
  <2>1. 1..Cardinality(Existing) \subseteq 1..MaxUsers
    BY <1>1, ExistingAssumption, AccountAssumption
  <2> QED
    BY <1>1, <2>1, ExistingAssumption DEF User
<1>4. vectors \subseteq Vector
  BY <1>1, <1>3 DEF Init, Vector, User
<1>5. TypeOK
  BY <1>3, <1>4, AccountAssumption DEF Init, TypeOK, KeySteps
<1>6. Carried
  BY DEF Init, Carried, AuthSteps, KeySteps
<1> QED
  BY <1>2, <1>5, <1>6 DEF Base

LEMMA BaseStep == Base /\ [Next]_vars => Base'
<1> SUFFICES ASSUME Base, [Next]_vars PROVE Base'
  OBVIOUS
<1> USE AccountAssumption
        DEF Base, TypeOK, Carried, Active, AuthSteps, KeySteps, Kinds, Goto
<1>1. ASSUME NEW q \in Requests, Deliver(q) PROVE Base'
  BY <1>1 DEF Deliver, Table, OneAccount
<1>2. ASSUME NEW q \in Requests, SelectUser(q) PROVE Base'
  <2>1. /\ uid' \in [Requests -> 1..MaxUsers \cup {None}]
        /\ uid'[q] # None => \E r \in users : r.id = uid'[q]
    BY <1>2, ZenonT(30) DEF SelectUser, Rows, User
  <2>2. email' \in [Requests -> Emails \cup {None}] /\ (uid'[q] = None => email'[q] \in Emails)
    BY <1>2 DEF SelectUser, Rows, User
  <2>3. TypeOK'
    BY <1>2, <2>1, <2>2 DEF SelectUser
  <2>4. Table'
    BY <1>2 DEF SelectUser, Table, OneAccount
  <2>5. Carried'
    BY <1>2, <2>1, <2>2 DEF SelectUser
  <2> QED
    BY <2>3, <2>4, <2>5
<1>3. ASSUME NEW q \in Requests, WriteUser(q) PROVE Base'
  <2>1. /\ pc[q] = "write" /\ Forget(q) /\ uid' = [uid EXCEPT ![q] = None]
        /\ UNCHANGED <<vectors, jwks, cached, purged, ghosts>>
    BY <1>3 DEF WriteUser
  <2>2. PICK s \in {"failed", "done"} : Goto(q, "write", s)
    BY <1>3 DEF WriteUser
  <2>3. /\ Table' /\ users' \subseteq User
        /\ \A r \in users : \E x \in users' : x.id = r.id
    <3>1. CASE Conflict(Synced(q))
      BY <1>3, <3>1 DEF WriteUser, Table, OneAccount
    <3>2. CASE ~Conflict(Synced(q))
      BY <1>3, <3>2, WriteKeepsTable DEF WriteUser
    <3> QED
      BY <3>1, <3>2
  <2>4. TypeOK'
    BY <2>1, <2>2, <2>3 DEF Forget
  <2>5. Carried'
    BY <2>1, <2>2, <2>3 DEF Forget
  <2> QED
    BY <2>3, <2>4, <2>5
<1>4. ASSUME NEW q \in Requests, Request(q) PROVE Base'
  BY <1>4 DEF Request, Table, OneAccount
<1>5. ASSUME NEW q \in Requests, FetchKeys(q) PROVE Base'
  BY <1>5 DEF FetchKeys, Table, OneAccount
<1>6. ASSUME NEW q \in Requests, StoreKeys(q) PROVE Base'
  BY <1>6 DEF StoreKeys, Table, OneAccount
<1>7. ASSUME NEW q \in Requests, Decode(q) PROVE Base'
  BY <1>7 DEF Decode, Table, OneAccount
<1>8. ASSUME NEW q \in Requests, Resolve(q) PROVE Base'
  <2> DEFINE found == {r \in Rows(subject[q]) : ~r.deleted}
             next == CASE kind[q] = "ingest"  -> "upsert"
                       [] kind[q] = "delete"  -> "flag"
                       [] kind[q] = "profile" -> "done"
  <2>1. /\ pc[q] = "resolve" /\ Forget(q)
        /\ UNCHANGED <<users, vectors, jwks, cached, purged, ghosts>>
    BY <1>8 DEF Resolve
  <2>2. Table'
    BY <2>1 DEF Table, OneAccount
  <2>3. CASE found = {} /\ Goto(q, "resolve", "refused") /\ UNCHANGED uid
    <3>1. TypeOK'
      BY <2>1, <2>3 DEF Forget
    <3>2. Carried'
      BY <2>1, <2>3 DEF Forget
    <3> QED
      BY <2>2, <3>1, <3>2
  <2>4. CASE /\ found # {} /\ Goto(q, "resolve", next)
             /\ uid' = [uid EXCEPT ![q] = (CHOOSE r \in found : TRUE).id]
    <3>1. PICK s \in {"upsert", "flag", "done"} :
              /\ pc' = [pc EXCEPT ![q] = s]
              /\ s = "upsert" => kind[q] = "ingest"
              /\ s = "flag" => kind[q] = "delete"
      BY <2>1, <2>4
    <3>2. PICK r \in users : uid' = [uid EXCEPT ![q] = r.id]
      BY <2>4 DEF Rows
    <3>3. r.id \in 1..MaxUsers /\ r.id # None
      BY DEF User
    <3>4. TypeOK'
      BY <2>1, <3>1, <3>2, <3>3 DEF Forget
    <3>5. Carried'
      BY <2>1, <3>1, <3>2, <3>3 DEF Forget
    <3> QED
      BY <2>2, <3>4, <3>5
  <2> QED
    BY <1>8, <2>3, <2>4 DEF Resolve
<1>9. ASSUME NEW q \in Requests, FlagUser(q) PROVE Base'
  BY <1>9, FlagKeepsTable DEF FlagUser
<1>10. ASSUME NEW q \in Requests, PurgeCollection(q) PROVE Base'
  BY <1>10 DEF PurgeCollection, Table, OneAccount
<1>11. ASSUME NEW q \in Requests, Upsert(q) PROVE Base'
  BY <1>11 DEF Upsert, Vector, Table, OneAccount
<1>12. ASSUME NEW q \in Requests, Fail(q) PROVE Base'
  BY <1>12 DEF Fail, Forget, Table, OneAccount
<1>13. CASE Rotate
  BY <1>13 DEF Rotate, Table, OneAccount
<1>14. CASE Expire
  BY <1>14 DEF Expire, Table, OneAccount
<1>15. CASE UNCHANGED vars
  BY <1>15 DEF vars, Table, OneAccount
<1> QED
  BY <1>1, <1>2, <1>3, <1>4, <1>5, <1>6, <1>7, <1>8, <1>9, <1>10, <1>11, <1>12,
     <1>13, <1>14, <1>15 DEF Next

\* The webhook writes the row's flag as it finds it.
LEMMA WriteFlagsNobody ==
    ASSUME Base, NEW q \in Requests, WriteUser(q)
    PROVE  \A u : Deleted(u)' <=> Deleted(u)
<1>1. CASE Conflict(Synced(q))
  BY <1>1 DEF WriteUser, Deleted
<1>2. CASE ~Conflict(Synced(q))
  BY <1>2, WriteKeepsTable DEF WriteUser
<1> QED
  BY <1>1, <1>2

\* A step flags no user but the one whose deletion it serves, and takes no flag
\* away.
LEMMA FlagStep ==
    ASSUME Base, [Next]_vars
    PROVE  \/ \A u : Deleted(u)' <=> Deleted(u)
           \/ \E q \in Requests : FlagUser(q) /\ \A u : Deleted(u)' <=> Deleted(u) \/ u = uid[q]
<1>1. ASSUME NEW q \in Requests, WriteUser(q)
      PROVE  \A u : Deleted(u)' <=> Deleted(u)
  BY <1>1, WriteFlagsNobody
<1>2. ASSUME NEW q \in Requests, FlagUser(q)
      PROVE  \A u : Deleted(u)' <=> Deleted(u) \/ u = uid[q]
  BY <1>2, FlagKeepsTable DEF FlagUser, Goto
<1>3. CASE UNCHANGED users
  BY <1>3 DEF Deleted
<1>4. ASSUME NEW q \in Requests,
             \/ Deliver(q) \/ SelectUser(q) \/ Request(q) \/ FetchKeys(q) \/ StoreKeys(q)
             \/ Decode(q) \/ Resolve(q) \/ PurgeCollection(q) \/ Upsert(q) \/ Fail(q)
      PROVE  UNCHANGED users
  BY <1>4 DEF Deliver, SelectUser, Request, FetchKeys, StoreKeys, Decode, Resolve,
     PurgeCollection, Upsert, Fail
<1>5. CASE Rotate \/ Expire \/ UNCHANGED vars
  BY <1>3, <1>5 DEF Rotate, Expire, vars
<1> QED
  BY <1>1, <1>2, <1>3, <1>4, <1>5 DEF Next

\* Where an authenticated request goes: to work, for a user who is not flagged.
LEMMA ResolveGoes ==
    ASSUME Base, NEW q \in Requests, Resolve(q)
    PROVE  \E s \in {"refused", "upsert", "flag", "done"} :
               /\ pc' = [pc EXCEPT ![q] = s]
               /\ s = "done" => kind[q] # "delete"
               /\ s = "upsert" => kind[q] = "ingest"
               /\ s = "flag" => kind[q] = "delete"
               /\ \/ uid' = uid /\ s = "refused"
                  \/ \E r \in users : ~r.deleted /\ uid' = [uid EXCEPT ![q] = r.id]
<1> DEFINE found == {r \in Rows(subject[q]) : ~r.deleted}
           next == CASE kind[q] = "ingest"  -> "upsert"
                     [] kind[q] = "delete"  -> "flag"
                     [] kind[q] = "profile" -> "done"
<1>1. CASE found = {}
  BY <1>1 DEF Resolve, Goto
<1>2. CASE found # {}
  <2>1. PICK r \in users : ~r.deleted /\ uid' = [uid EXCEPT ![q] = r.id]
    BY <1>2 DEF Resolve, Rows
  <2>2. pc[q] = "resolve" /\ pc' = [pc EXCEPT ![q] = next]
    BY <1>2 DEF Resolve, Goto
  <2>3. kind[q] \in {"ingest", "delete", "profile"}
    BY <2>2 DEF Base, Carried, AuthSteps, Kinds
  <2> QED
    BY <2>1, <2>2, <2>3
<1> QED
  BY <1>1, <1>2

LEMMA DeletionInit == Init => DeletionInv
BY DEF Init, DeletionInv, PurgedSoFar, UpsertsAreKnown

LEMMA DeletionStep ==
    ASSUME Base, DeletionInv, [Next]_vars
    PROVE  DeletionInv'
<1> USE AccountAssumption
        DEF Base, TypeOK, Carried, Active, AuthSteps, KeySteps, Goto, DeletionInv,
            PurgedSoFar, UpsertsAreKnown
<1>0. \A u : Deleted(u) => Deleted(u)'
  BY FlagStep
<1>1. ASSUME NEW q \in Requests, Deliver(q) PROVE DeletionInv'
  BY <1>1 DEF Deliver, Deleted
<1>2. ASSUME NEW q \in Requests, SelectUser(q) PROVE DeletionInv'
  BY <1>2 DEF SelectUser, Deleted
<1>3. ASSUME NEW q \in Requests, WriteUser(q) PROVE DeletionInv'
  <2>1. /\ pc[q] = "write" /\ uid' = [uid EXCEPT ![q] = None]
        /\ UNCHANGED <<vectors, kind, purged, overtaken>>
    BY <1>3 DEF WriteUser, Forget
  <2>2. PICK s \in {"failed", "done"} : pc' = [pc EXCEPT ![q] = s]
    BY <1>3 DEF WriteUser
  <2>3. \A u : Deleted(u)' <=> Deleted(u)
    BY <1>3, WriteFlagsNobody
  <2> QED
    BY <2>1, <2>2, <2>3
<1>4. ASSUME NEW q \in Requests, Request(q) PROVE DeletionInv'
  BY <1>4 DEF Request, Deleted
<1>5. ASSUME NEW q \in Requests, FetchKeys(q) PROVE DeletionInv'
  BY <1>5 DEF FetchKeys, Deleted
<1>6. ASSUME NEW q \in Requests, StoreKeys(q) PROVE DeletionInv'
  BY <1>6 DEF StoreKeys, Deleted
<1>7. ASSUME NEW q \in Requests, Decode(q) PROVE DeletionInv'
  BY <1>7 DEF Decode, Deleted
<1>8. ASSUME NEW q \in Requests, Resolve(q) PROVE DeletionInv'
  <2>1. /\ pc[q] = "resolve" /\ UNCHANGED <<users, vectors, kind, purged, overtaken>>
    BY <1>8 DEF Resolve, Forget
  <2>2. \A u : Deleted(u)' <=> Deleted(u)
    BY <2>1 DEF Deleted
  <2>3. PICK s \in {"refused", "upsert", "flag", "done"} :
            /\ pc' = [pc EXCEPT ![q] = s]
            /\ s = "done" => kind[q] # "delete"
            /\ \/ uid' = uid /\ s = "refused"
               \/ \E r \in users : ~r.deleted /\ uid' = [uid EXCEPT ![q] = r.id]
    BY <1>8, ResolveGoes
  <2>4. \A r \in users : ~r.deleted => ~Deleted(r.id)
    BY DEF Deleted, Table
  <2>5. PurgedSoFar'
    BY <2>1, <2>2, <2>3
  <2>6. UpsertsAreKnown'
    BY <2>1, <2>2, <2>3, <2>4
  <2> QED
    BY <2>5, <2>6
<1>9. ASSUME NEW q \in Requests, FlagUser(q) PROVE DeletionInv'
  <2>1. /\ pc[q] = "flag" /\ pc' = [pc EXCEPT ![q] = "purge"]
        /\ UNCHANGED <<vectors, kind, uid, purged>>
        /\ overtaken' = overtaken \cup
               {p \in Requests : kind[p] = "ingest" /\ pc[p] = "upsert" /\ uid[p] = uid[q]}
    BY <1>9 DEF FlagUser
  <2>2. \A u : Deleted(u)' <=> Deleted(u) \/ u = uid[q]
    BY <1>9, FlagKeepsTable DEF FlagUser
  <2>3. purged[q] = 0 /\ \A v \in vectors : ~(v.in <= 0)
    BY <2>1 DEF Vector
  <2>4. PurgedSoFar'
    BY <2>1, <2>2, <2>3
  <2>5. UpsertsAreKnown'
    BY <2>1, <2>2
  <2> QED
    BY <2>4, <2>5
<1>10. ASSUME NEW q \in Requests, PurgeCollection(q) PROVE DeletionInv'
  <2>1. /\ pc[q] = "purge" /\ UNCHANGED <<users, kind, uid, overtaken>>
        /\ purged' = [purged EXCEPT ![q] = @ + 1]
        /\ vectors' = {v \in vectors : ~(v.user = uid[q] /\ v.in = purged[q] + 1)}
    BY <1>10 DEF PurgeCollection
  <2>2. PICK s \in {"purge", "done"} :
            pc' = [pc EXCEPT ![q] = s] /\ (s = "done" => purged[q] + 1 >= Collections)
    <3>1. CASE purged[q] + 1 < Collections
      BY <1>10, <3>1 DEF PurgeCollection
    <3>2. CASE ~(purged[q] + 1 < Collections)
      BY <1>10, <3>2 DEF PurgeCollection
    <3> QED
      BY <3>1, <3>2
  <2>3. \A u : Deleted(u)' <=> Deleted(u)
    BY <2>1 DEF Deleted
  <2>4. purged[q] \in Nat /\ purged[q] < Collections /\ kind[q] = "delete"
    BY <2>1
  <2>5. \A v \in vectors' : v.user = uid[q] /\ v.in <= purged[q] + 1 => v.by \in overtaken
    <3>1. \A v \in vectors : v.in \in Int
      BY DEF Vector
    <3> QED
      BY <2>1, <2>4, <3>1
  <2>6. PurgedSoFar'
    <3> SUFFICES ASSUME NEW p \in Requests, pc'[p] \in {"purge", "done"}, kind[p] = "delete"
                 PROVE  /\ Deleted(uid[p])'
                        /\ \A v \in vectors' : v.user = uid[p] /\ v.in <= purged'[p]
                               => v.by \in overtaken
                        /\ pc'[p] = "done" => purged'[p] = Collections
      BY <2>1
    <3>1. CASE p = q
      BY <2>1, <2>2, <2>3, <2>4, <2>5, <3>1
    <3>2. CASE p # q
      BY <2>1, <2>2, <2>3, <3>2
    <3> QED
      BY <3>1, <3>2
  <2>7. UpsertsAreKnown'
    BY <2>1, <2>2, <2>3
  <2> QED
    BY <2>6, <2>7
<1>11. ASSUME NEW q \in Requests, Upsert(q) PROVE DeletionInv'
  BY <1>11 DEF Upsert, Deleted
<1>12. ASSUME NEW q \in Requests, Fail(q) PROVE DeletionInv'
  BY <1>12 DEF Fail, Forget, Deleted
<1>13. CASE Rotate
  BY <1>13 DEF Rotate, Deleted
<1>14. CASE Expire
  BY <1>14 DEF Expire, Deleted
<1>15. CASE UNCHANGED vars
  BY <1>15 DEF vars, Deleted
<1> QED
  BY <1>1, <1>2, <1>3, <1>4, <1>5, <1>6, <1>7, <1>8, <1>9, <1>10, <1>11, <1>12,
     <1>13, <1>14, <1>15 DEF Next

LEMMA KeysInit == Init => KeysAreRecent
BY AccountAssumption DEF Init, KeysAreRecent, KeySteps

LEMMA KeysStep ==
    ASSUME Base, KeysAreRecent, [Next]_vars
    PROVE  KeysAreRecent'
<1> USE AccountAssumption DEF Base, TypeOK, Active, AuthSteps, KeySteps, Goto, KeysAreRecent
<1>1. ASSUME NEW q \in Requests, Deliver(q) PROVE KeysAreRecent'
  BY <1>1 DEF Deliver
<1>2. ASSUME NEW q \in Requests, SelectUser(q) PROVE KeysAreRecent'
  BY <1>2 DEF SelectUser
<1>3. ASSUME NEW q \in Requests, WriteUser(q) PROVE KeysAreRecent'
  BY <1>3 DEF WriteUser, Forget
<1>4. ASSUME NEW q \in Requests, Request(q) PROVE KeysAreRecent'
  BY <1>4 DEF Request
<1>5. ASSUME NEW q \in Requests, FetchKeys(q) PROVE KeysAreRecent'
  BY <1>5 DEF FetchKeys
<1>6. ASSUME NEW q \in Requests, StoreKeys(q) PROVE KeysAreRecent'
  BY <1>6 DEF StoreKeys
<1>7. ASSUME NEW q \in Requests, Decode(q) PROVE KeysAreRecent'
  BY <1>7 DEF Decode
<1>8. ASSUME NEW q \in Requests, Resolve(q) PROVE KeysAreRecent'
  <2>1. /\ UNCHANGED <<jwks, cached, cold>> /\ pc[q] = "resolve"
        /\ keys' = [keys EXCEPT ![q] = None] /\ token' = [token EXCEPT ![q] = None]
    BY <1>8 DEF Resolve, Forget
  <2>2. PICK s : pc' = [pc EXCEPT ![q] = s] /\ s \in {"refused", "upsert", "flag", "done"}
    BY <1>8, ResolveGoes
  <2> QED
    BY <2>1, <2>2
<1>9. ASSUME NEW q \in Requests, FlagUser(q) PROVE KeysAreRecent'
  BY <1>9 DEF FlagUser
<1>10. ASSUME NEW q \in Requests, PurgeCollection(q) PROVE KeysAreRecent'
  BY <1>10 DEF PurgeCollection
<1>11. ASSUME NEW q \in Requests, Upsert(q) PROVE KeysAreRecent'
  BY <1>11 DEF Upsert
<1>12. ASSUME NEW q \in Requests, Fail(q) PROVE KeysAreRecent'
  BY <1>12 DEF Fail, Forget
<1>13. CASE Rotate
  BY <1>13 DEF Rotate
<1>14. CASE Expire
  BY <1>14 DEF Expire
<1>15. CASE UNCHANGED vars
  BY <1>15 DEF vars
<1> QED
  BY <1>1, <1>2, <1>3, <1>4, <1>5, <1>6, <1>7, <1>8, <1>9, <1>10, <1>11, <1>12,
     <1>13, <1>14, <1>15 DEF Next

LEMMA Invariance == Spec => []IInv
<1>1. Init => IInv
  BY BaseInit, DeletionInit, KeysInit DEF IInv
<1>2. IInv /\ [Next]_vars => IInv'
  BY BaseStep, DeletionStep, KeysStep DEF IInv
<1> QED
  BY <1>1, <1>2, PTL DEF Spec

-----------------------------------------------------------------------------
(* The theorems.                                                             *)

\* Rows, points, key sets and what each request holds are as the program stores
\* them, and a request at a step that needs a row or a key set has one.
THEOREM TypeCorrect == Spec => []TypeOK
<1>1. IInv => TypeOK
  BY DEF IInv, Base
<1> QED
  BY <1>1, Invariance, PTL

\* However many deliveries of the webhook overlap, a subject and an address have
\* one account each.
THEOREM OneAccountEach == Spec => []OneAccount
<1>1. IInv => OneAccount
  BY DEF IInv, Base, Table
<1> QED
  BY <1>1, Invariance, PTL

\* No step of any request reactivates an account that was deleted.
THEOREM DeletionIsFinal == Spec => DeletedStaysDeleted
<1>1. IInv /\ [Next]_vars =>
          [\A u \in 1..MaxUsers : Deleted(u) => Deleted(u)']_vars
  BY FlagStep DEF IInv
<1> QED
  BY <1>1, Invariance, PTL DEF Spec, DeletedStaysDeleted

\* A deletion that went through leaves no points but those of requests it
\* overtook, for any number of collections and requests.
THEOREM DeletionPurges == Spec => []LeftoversAreExplained
<1>1. IInv => LeftoversAreExplained
  <2> SUFFICES ASSUME IInv, NEW v \in vectors, NEW q \in Requests,
                      kind[q] = "delete", pc[q] = "done", uid[q] = v.user
               PROVE  v.by \in overtaken
    BY DEF LeftoversAreExplained
  <2>1. v.in <= purged[q]
    BY AccountAssumption DEF IInv, Base, TypeOK, Vector, DeletionInv, PurgedSoFar
  <2> QED
    BY <2>1 DEF IInv, DeletionInv, PurgedSoFar
<1> QED
  BY <1>1, Invariance, PTL

\* A token whose key Clerk had withdrawn before the last copy of a key set was
\* gone does not pass, for any number of rotations and requests.
THEOREM WithdrawalIsEffective == Spec => []WithdrawnKeyIsRefused
<1>1. IInv => WithdrawnKeyIsRefused
  BY DEF IInv, KeysAreRecent, WithdrawnKeyIsRefused
<1> QED
  BY <1>1, Invariance, PTL
=============================================================================
