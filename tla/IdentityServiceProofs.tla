------------------------ MODULE IdentityServiceProofs ------------------------
(* What holds of the identities' objects whatever the clients, signon-ui and *)
(* the databases do: theorems about IdentityService, for any numbers of       *)
(* objects, calls, identities and faults.                                     *)
EXTENDS IdentityService, CredentialsDBProofs

-----------------------------------------------------------------------------
(* The databases *)

\* As many methods have been given a number as there are numbers given.
Numbered(d) == {m \in Method : d.methods[m] # 0}
Counted(d) == d.nextMethod = 1 + Cardinality(Numbered(d))

\* There is a number for each method.
LEMMA MethodsCounted ==
    ASSUME NEW d \in Tables, Counted(d), NEW ms \in SUBSET Method
    PROVE  /\ InsertMethods(d, ms).nextMethod <= MaxMethodId + 1
           /\ Counted(InsertMethods(d, ms))
<1> DEFINE t == InsertMethods(d, ms)
           new == {m \in ms : d.methods[m] = 0}
           all == Numbered(t)
<1>1. /\ Cardinality(new) \in Nat
      /\ t.nextMethod = d.nextMethod + Cardinality(new)
      /\ \A m \in Method : d.methods[m] # 0 => t.methods[m] = d.methods[m]
      /\ \A m \in Method \ ms : t.methods[m] = d.methods[m]
      /\ \A m \in ms : t.methods[m] # 0
  BY MethodsNumbered
<1> HIDE DEF t
<1>2. all = Numbered(d) \cup new /\ Numbered(d) \cap new = {}
  BY <1>1 DEF Numbered
<1>3. all \subseteq Method /\ new \subseteq Method /\ Numbered(d) \subseteq Method
  BY DEF Numbered
<1> HIDE DEF new, all
<1>4. /\ IsFiniteSet(all) /\ IsFiniteSet(new) /\ IsFiniteSet(Numbered(d))
      /\ Cardinality(all) <= Cardinality(Method)
  BY <1>3, MethodAssumption, FS_Subset
<1>5. Cardinality(all) \in Nat /\ Cardinality(Numbered(d)) \in Nat /\ Cardinality(Method) \in Nat
  BY <1>4, MethodAssumption, FS_CardinalityType
<1>6. Cardinality(all) = Cardinality(Numbered(d)) + Cardinality(new)
  <2>1. Cardinality(Numbered(d) \cup new)
          = Cardinality(Numbered(d)) + Cardinality(new) - Cardinality(Numbered(d) \cap new)
    BY <1>4, FS_Union
  <2>2. Cardinality(Numbered(d) \cap new) = 0
    BY <1>2, FS_EmptySet
  <2>3. QED BY <1>1, <1>2, <1>5, <2>1, <2>2
<1>7. t.nextMethod = 1 + Cardinality(all)
  BY <1>1, <1>5, <1>6 DEF Counted
<1>8. t.nextMethod <= MaxMethodId + 1
  BY <1>4, <1>5, <1>7, InfosAssumption, MaxIdAssumption
<1>9. QED BY <1>7, <1>8 DEF t, all, Counted

LEMMA NoMethodsCounted == Counted(CreateTables)
<1>1. Numbered(CreateTables) = {} /\ CreateTables.nextMethod = 1
  BY DEF Numbered, CreateTables
<1>2. QED BY <1>1, FS_EmptySet DEF Counted

LEMMA SameMethodsCounted ==
    ASSUME NEW d, NEW t, Counted(d), t.methods = d.methods, t.nextMethod = d.nextMethod
    PROVE  Counted(t)
BY DEF Counted, Numbered

\* What the daemon knows of its databases.
Sound(db) == db \in State /\ Coherent(db.meta) /\ Counted(db.meta)

\* updateCredentials(), of an identity that is there, or of a new one.
LEMMA StoreUpdated ==
    ASSUME NEW db, Sound(db), NEW info \in Info, NEW f,
           info.id = NewIdentity => db.meta.nextId \in Id
    PROVE  LET res == UpdateCredentials(db, info, f)
           IN  /\ Sound(res.st)
               /\ db.meta.nextId <= res.st.meta.nextId
               /\ res.id \in 0..MaxId
               /\ info.id # NewIdentity => res.id \in {NewIdentity, info.id}
               /\ info.id = NewIdentity /\ res.id # NewIdentity =>
                     /\ res.id = db.meta.nextId
                     /\ res.st.meta.nextId = res.id + 1
<1> DEFINE d == db.meta
           u == UpdateIdentity(d, info, f)
           id == StoredId(d, info)
           row == UpdateRow(d, id, info)
           ms == DOMAIN info.methods
           res == UpdateCredentials(db, info, f)
<1>1. db \in State /\ d \in Tables /\ Coherent(d) /\ Counted(d)
  BY DEF Sound, State
<1>2. ms \in SUBSET Method /\ info.id \in 0..MaxId
  BY InfoFields
<1>3. InsertMethods(d, ms).nextMethod <= MaxMethodId + 1
  BY <1>1, <1>2, MethodsCounted
<1>4. id \in Id /\ (info.id # NewIdentity => id = info.id)
      /\ (info.id = NewIdentity => id = d.nextId)
  BY <1>2 DEF StoredId, Id, NewIdentity
<1>5. /\ u.st \in Tables /\ Coherent(u.st)
      /\ u.id \in {NewIdentity, id}
      /\ u.id = NewIdentity => \/ u.st = d
                               \/ u.st = [d EXCEPT !.owner = u.st.owner]
      /\ u.id # NewIdentity => u.st = UpdateLists(row, id, info, f)
  BY <1>1, <1>3, IdentityUpdated
<1>6. /\ d.nextId <= u.st.nextId
      /\ u.id \in Id /\ info.id = NewIdentity => u.st.nextId = u.id + 1
  BY <1>1, <1>3, RowsUpdated
<1>7. Counted(u.st)
  <2>1. CASE u.id = NewIdentity
    <3>1. u.st.methods = d.methods /\ u.st.nextMethod = d.nextMethod
      BY <1>1, <1>5, <2>1 DEF Tables
    <3>2. QED BY <1>1, <3>1, SameMethodsCounted
  <2>2. CASE u.id # NewIdentity
    <3>1. /\ row \in Tables
          /\ row.methods = d.methods /\ row.nextMethod = d.nextMethod
      BY <1>1, <1>4, RowUpdated
    <3>2. Counted(row)
      BY <1>1, <3>1, SameMethodsCounted
    <3>3. Coherent(row)
      BY <1>1, RowKeepsCoherence
    <3> HIDE DEF row, d, id
    <3> DEFINE named == IF f = "method" THEN row ELSE InsertMethods(row, ms)
    <3>4. Counted(InsertMethods(row, ms)) /\ InsertMethods(row, ms).nextMethod <= MaxMethodId + 1
      BY <1>2, <3>1, <3>2, MethodsCounted
    <3>5. LET t == UpdateLists(row, id, info, f)
          IN  /\ t.methods = NamesInserted(row, info, f).methods
              /\ t.nextMethod = NamesInserted(row, info, f).nextMethod
      BY <1>4, <3>1, <3>3, <3>4, ListsUpdated
    <3>6. InsertMethods(row, ms) \in Tables
      BY <1>2, <3>1, <3>3, <3>4, MethodsKeepCoherence
    <3>7. named \in Tables /\ Counted(named)
      BY <3>1, <3>2, <3>4, <3>6
    <3>8. /\ NamesInserted(row, info, f).methods = named.methods
          /\ NamesInserted(row, info, f).nextMethod = named.nextMethod
      <4>1. NamesInserted(row, info, f)
              = [named EXCEPT
                   !.mechs = IF f = "mechanism" THEN @
                             ELSE @ \cup UNION {info.methods[m] : m \in DOMAIN info.methods},
                   !.tokens = IF f = "token" THEN @ ELSE @ \cup info.acl \cup info.owners]
        BY DEF NamesInserted
      <4> HIDE DEF named
      <4>2. QED BY <3>7, <4>1 DEF Tables
    <3> HIDE DEF ms, u, named
    <3>9. QED BY <1>5, <2>2, <3>5, <3>7, <3>8, SameMethodsCounted
  <2>3. QED BY <2>1, <2>2
<1> HIDE DEF u, id, row, ms
<1>8. u.id \in 0..MaxId
  <2>1. u.id \in {NewIdentity, id}
    BY <1>5
  <2>2. QED BY <1>4, <2>1, MaxIdAssumption DEF Id, NewIdentity
<1>9. res.id = u.id /\ res.st \in State /\ res.st.meta = u.st
  BY <1>1, <1>5, <1>8, SecretsStored DEF u, UpdateCredentials
<1> HIDE DEF res
<1>10. QED BY <1>1, <1>4, <1>5, <1>6, <1>7, <1>8, <1>9 DEF res, Sound, Id, NewIdentity

LEMMA StoreOpened ==
    ASSUME NEW db, Sound(db)
    PROVE  LET t == InitialSecrets(db)
           IN  Sound(t) /\ t.meta = db.meta
<1>1. LET t == OpenSecretsDB(db, {}, "none")
      IN  t \in State /\ t.meta = db.meta
  BY DatabaseOpened DEF Sound
<1>2. QED BY <1>1 DEF InitialSecrets, Sound

LEMMA NoCrash == \A f \in SomeFaults : f # "crash"
BY FaultsAssumption DEF SomeFaults, Statements, Unchecked

\* removeCredentials() of an identity that is not stored removes nothing.
LEMMA NoneRemoved ==
    ASSUME NEW db, Sound(db), NEW f, f # "crash"
    PROVE  LET res == RemoveCredentials(db, NewIdentity, f)
           IN  res.st = db /\ res.ok \in BOOLEAN
<1> DEFINE id == NewIdentity
           d == db.meta
           meta == RemoveIdentity(d, id, f)
           new == [d EXCEPT !.rows[id] = NoRow,
                            !.acl = {a \in @ : a[1] # id},
                            !.realms = {x \in @ : x[1] # id},
                            !.owner = {o \in @ : o[1] # id}]
           removed == SecretsRemove(db, id)
           store == [x \in Id \X MethodId |-> IF x[1] = id THEN Null ELSE db.store[x]]
<1>1. db \in State /\ d \in Tables
  BY DEF Sound, State
<1>2. id \notin Id /\ ~Exists(d, id)
  BY DEF Id, NewIdentity, Exists
<1> HIDE DEF id
<1>3. new = d
  <2>1. /\ [d.rows EXCEPT ![id] = NoRow] = d.rows
        /\ {a \in d.acl : a[1] # id} = d.acl
        /\ {x \in d.realms : x[1] # id} = d.realms
        /\ {o \in d.owner : o[1] # id} = d.owner
    BY <1>1, <1>2 DEF Tables
  <2>2. new = [d EXCEPT !.rows = d.rows, !.acl = d.acl, !.realms = d.realms, !.owner = d.owner]
    BY <1>1, <2>1 DEF Tables
  <2>3. QED BY <1>1, <2>2 DEF Tables
<1>4. meta.st = d /\ meta.ok \in BOOLEAN
  BY <1>2, <1>3 DEF RemoveIdentity, TransactionalExec, Failed, Done
<1> HIDE DEF new
<1>5. removed = db
  <2>1. [db.creds EXCEPT ![id] = NoSecret] = db.creds
    BY <1>1, <1>2 DEF State
  <2>2. store = db.store
    BY <1>1, <1>2 DEF State
  <2>3. removed = [db EXCEPT !.creds = db.creds, !.store = db.store]
    BY <1>1, <2>1, <2>2 DEF SecretsRemove, State
  <2>4. QED BY <1>1, <2>3 DEF State
<1> HIDE DEF removed, meta
<1>6. [removed EXCEPT !.meta = meta.st] = db
  BY <1>1, <1>4, <1>5 DEF State
<1>7. meta = [st |-> meta.st, ok |-> meta.ok, err |-> meta.err]
  BY DEF meta, RemoveIdentity, TransactionalExec, Failed, Done
<1>8. QED
  BY <1>4, <1>6, <1>7 DEF RemoveCredentials, NoSecretsDB, id, removed, meta

\* removeCredentials(): no identity is new.
LEMMA StoreRemoved ==
    ASSUME NEW db, Sound(db), NEW id \in Id, NEW f
    PROVE  LET res == RemoveCredentials(db, id, f)
           IN  Sound(res.st) /\ res.ok \in BOOLEAN /\ res.st.meta.nextId = db.meta.nextId
<1> DEFINE meta == RemoveIdentity(db.meta, id, f)
           res == RemoveCredentials(db, id, f)
<1>1. db \in State /\ db.meta \in Tables /\ Coherent(db.meta) /\ Counted(db.meta)
  BY DEF Sound, State
<1>2. /\ Coherent(meta.st)
      /\ meta.st.nextId = db.meta.nextId
      /\ meta.st.methods = db.meta.methods /\ meta.st.nextMethod = db.meta.nextMethod
  BY <1>1, IdentityRemoved
<1>3. res.st \in State /\ res.ok \in BOOLEAN
  BY <1>1, CredentialsRemoved
<1>4. res.st = db \/ res.st.meta = db.meta \/ res.st.meta = meta.st
  <2>1. \/ (~db.open \/ f = "secrets") /\ res.st = db /\ ~res.ok
        \/ /\ db.open /\ f = "crash"
           /\ res.st.meta = db.meta /\ ~res.ok
           /\ GoneWithDaemon(db, res.st, {id})
        \/ /\ db.open /\ f \notin {"crash", "secrets"}
           /\ res.st.meta = meta.st /\ res.ok = meta.ok
           /\ GoneOnly(db, res.st, {id})
    BY <1>1, CredentialsRemoved
  <2> HIDE DEF meta, res
  <2>2. QED BY <2>1
<1> HIDE DEF meta, res
<1>5. Counted(meta.st)
  BY <1>1, <1>2, SameMethodsCounted
<1>6. QED BY <1>1, <1>2, <1>3, <1>4, <1>5 DEF Sound, res

\* What is read of an identity is an info of it, or a new one.
LEMMA CredentialsRead ==
    ASSUME NEW db \in State, NEW id, NEW query \in BOOLEAN
    PROVE  LET info == Credentials(db, id, query)
           IN  /\ info \in Info
               /\ info.id # NewIdentity => Exists(db.meta, id) /\ info.id = id
               /\ Exists(db.meta, id) => info.id = id
<1> DEFINE i == Identity(db.meta, id)
           info == Credentials(db, id, query)
<1>1. db.meta \in Tables
  BY DEF State
<1>2. /\ i \in Info /\ (i.id # NewIdentity => Exists(db.meta, id) /\ i.id = id)
      /\ Exists(db.meta, id) => i.id = id
  <2>1. CASE ~Exists(db.meta, id)
    <3>1. i = NoInfo
      BY <2>1 DEF Identity
    <3>2. NoInfo.methods \in [{} -> SUBSET Mechanism] /\ {} \in SUBSET Method
      BY DEF NoInfo
    <3>3. NoInfo \in Info
      BY <3>2, MaxIdAssumption DEF NoInfo, Info, NewIdentity
    <3>4. QED BY <2>1, <3>1, <3>3 DEF NoInfo
  <2>2. CASE Exists(db.meta, id)
    <3>1. id \in Id /\ db.meta.rows[id] \in Row
      BY <1>1, <2>2 DEF Exists, Tables
    <3> DEFINE ms == Methods(db.meta, id, Null)
    <3>2. ms \in SUBSET Method
      BY DEF Methods
    <3>3. \A m \in Method : MechanismsOf(db.meta, id, m) \in SUBSET Mechanism
      BY <1>1 DEF MechanismsOf, Tables
    <3> HIDE DEF ms
    <3>4. [m \in ms |-> MechanismsOf(db.meta, id, m)] \in [ms -> SUBSET Mechanism]
      BY <3>2, <3>3
    <3>5. /\ AccessControlList(db.meta, id) \in SUBSET Token
          /\ OwnerList(db.meta, id) \in SUBSET Token
      BY <1>1 DEF AccessControlList, OwnerList, Tables
    <3> DEFINE methods == [m \in ms |-> MechanismsOf(db.meta, id, m)]
               realms == {x \in Realm : <<id, x>> \in db.meta.realms}
    <3>6. i = [id |-> id, user |-> db.meta.rows[id].user, pass |-> Null, hasPass |-> FALSE,
               remember |-> db.meta.rows[id].remember,
               secretName |-> db.meta.rows[id].secretName, methods |-> methods,
               acl |-> AccessControlList(db.meta, id), owners |-> OwnerList(db.meta, id),
               realms |-> realms]
      BY <2>2 DEF Identity, NoInfo, ms
    <3>7. methods \in UNION {[x -> SUBSET Mechanism] : x \in SUBSET Method}
      BY <3>2, <3>4
    <3>8. realms \in SUBSET Realm
      OBVIOUS
    <3> HIDE DEF methods, realms, i
    <3>9. id \in 0..MaxId
      BY <3>1, MaxIdAssumption DEF Id
    <3>10. i \in Info
      BY <3>1, <3>5, <3>6, <3>7, <3>8, <3>9 DEF Info, Row
    <3>11. i.id = id
      BY <3>6
    <3>12. QED BY <2>2, <3>10, <3>11
  <2>3. QED BY <2>1, <2>2
<1> HIDE DEF i
<1>3. \/ info = i
      \/ \E found \in [user : User \cup {Null}, pass : Pass \cup {Null}] :
            info = [i EXCEPT !.user = IF i.secretName THEN found.user ELSE @,
                             !.pass = found.pass, !.hasPass = TRUE]
  <2>1. CASE ~query \/ i.id = NewIdentity
    BY <2>1 DEF Credentials, i
  <2>2. CASE query /\ i.id # NewIdentity
    <3>1. id \in Id
      BY <1>2, <2>2 DEF Exists
    <3>2. SecretsLoad(db, id) \in [user : User \cup {Null}, pass : Pass \cup {Null}]
      BY <3>1 DEF State, Secret, SecretsLoad
    <3>3. LookupCredentials(db, id) \in [user : User \cup {Null}, pass : Pass \cup {Null}]
      BY <3>1 DEF State, Entry, LookupCredentials
    <3>4. QED BY <2>2, <3>2, <3>3 DEF Credentials, i
  <2>3. QED BY <2>1, <2>2
<1> HIDE DEF info
<1>4. CASE info = i
  BY <1>2, <1>4 DEF info
<1>5. CASE \E found \in [user : User \cup {Null}, pass : Pass \cup {Null}] :
              info = [i EXCEPT !.user = IF i.secretName THEN found.user ELSE @,
                               !.pass = found.pass, !.hasPass = TRUE]
  <2>1. info \in Info /\ info.id = i.id
    BY <1>2, <1>5 DEF Info
  <2>2. QED BY <1>2, <2>1 DEF info
<1>6. QED BY <1>3, <1>4, <1>5
-----------------------------------------------------------------------------
(* The objects: what each operator does to their lives, ids and flags *)

SameLife(v, t, o) == /\ t.obj[o].st = v.obj[o].st
                     /\ t.obj[o].listed = v.obj[o].listed
                     /\ t.obj[o].id = v.obj[o].id
                     /\ t.obj[o].watched = v.obj[o].watched

\* Nothing has happened to the objects but calls, and to the table.
SameLives(v, t) == t.byId = v.byId /\ \A o \in Object : SameLife(v, t, o)
SameFlags(v, t) == \A o \in Object : t.obj[o].auto = v.obj[o].auto

\* destroyUnused(): objects that were on the list, and in nobody's use.
Swept(v, t) ==
    /\ t.byId = v.byId
    /\ SameFlags(v, t)
    /\ \A o \in Object :
          \/ SameLife(v, t, o)
          \/ /\ v.obj[o].listed /\ v.obj[o].auto
             /\ t.obj[o].st = "doomed" /\ t.obj[o].listed = FALSE
             /\ t.obj[o].id = v.obj[o].id /\ t.obj[o].watched = v.obj[o].watched

\* Each copy that a living object has is the one that it had.
Copied(v, t) ==
    \A o \in Object : t.obj[o].st = "alive" /\ t.obj[o].info # NoCache
        => /\ v.obj[o].st = "alive" /\ v.obj[o].info = t.obj[o].info
           /\ v.obj[o].id = t.obj[o].id

\* All that happens happens to one object.
OnlyOf(v, t, o) ==
    \A x \in Object \ {o} : SameLife(v, t, x) /\ t.obj[x].auto = v.obj[x].auto

LEMMA ObjectFields ==
    ASSUME NEW v \in Objects
    PROVE  /\ DOMAIN v.byId = 0..MaxId
           /\ \A i \in 0..MaxId : v.byId[i] \in Object \cup {NoObject}
           /\ \A o \in Object : /\ v.obj[o].st \in {"free", "alive", "doomed", "deleted"}
                                /\ v.obj[o].id \in 0..MaxId
                                /\ v.obj[o].info \in Info \cup {NoCache}
                                /\ v.obj[o].auto \in BOOLEAN
                                /\ v.obj[o].idle \in BOOLEAN
                                /\ v.obj[o].listed \in BOOLEAN
                                /\ v.obj[o].watched \in BOOLEAN
BY DEF Objects

\* The state of an object's life.
Life(v, o, st) == v.obj[o].st = st

ObjectRecord == [st : {"free", "alive", "doomed", "deleted"}, id : 0..MaxId,
                 info : Info \cup {NoCache}, auto : BOOLEAN, idle : BOOLEAN,
                 listed : BOOLEAN, watched : BOOLEAN]

LEMMA ObjectsAre ==
    Objects = [obj : [Object -> ObjectRecord], byId : [0..MaxId -> Object \cup {NoObject}],
               dispose : BOOLEAN, notify : BOOLEAN]
BY DEF Objects, ObjectRecord

LEMMA FieldsChanged ==
    ASSUME NEW one \in ObjectRecord
    PROVE  /\ \A x \in BOOLEAN :
                 /\ [one EXCEPT !.idle = x] \in ObjectRecord
                 /\ [one EXCEPT !.auto = x] \in ObjectRecord
                 /\ [one EXCEPT !.watched = x] \in ObjectRecord
           /\ \A x \in Info \cup {NoCache} : [one EXCEPT !.info = x] \in ObjectRecord
           /\ \A x \in 0..MaxId : [one EXCEPT !.id = x] \in ObjectRecord
           /\ [one EXCEPT !.st = "doomed"] \in ObjectRecord
           /\ [one EXCEPT !.st = "doomed", !.listed = FALSE] \in ObjectRecord
BY DEF ObjectRecord

LEMMA OneChanged ==
    ASSUME NEW v \in Objects, NEW o \in Object, NEW new \in ObjectRecord
    PROVE  LET t == [v EXCEPT !.obj[o] = new]
           IN  /\ t \in Objects /\ t.byId = v.byId
               /\ t.dispose = v.dispose /\ t.notify = v.notify
               /\ t.obj[o] = new
               /\ \A x \in Object \ {o} : t.obj[x] = v.obj[x]
BY ObjectsAre

LEMMA AllChanged ==
    ASSUME NEW v \in Objects, NEW new \in [Object -> ObjectRecord]
    PROVE  LET t == [v EXCEPT !.obj = new]
           IN  t \in Objects /\ t.byId = v.byId /\ t.obj = new
BY ObjectsAre

LEMMA TableChanged ==
    ASSUME NEW v \in Objects, NEW i \in 0..MaxId, NEW o \in Object \cup {NoObject}
    PROVE  LET t == [v EXCEPT !.byId[i] = o]
           IN  /\ t \in Objects /\ t.obj = v.obj
               /\ t.byId[i] = o /\ \A j \in 0..MaxId \ {i} : t.byId[j] = v.byId[j]
BY ObjectsAre

LEMMA TimersChanged ==
    ASSUME NEW v \in Objects, NEW x \in BOOLEAN, NEW y \in BOOLEAN
    PROVE  LET t == [v EXCEPT !.notify = x, !.dispose = y]
           IN  t \in Objects /\ t.obj = v.obj /\ t.byId = v.byId
BY ObjectsAre

LEMMA NoObjectsTyped == NoObjects \in Objects
<1>1. 0 \in 0..MaxId
  BY MaxIdAssumption
<1>2. FreeObject \in ObjectRecord
  BY <1>1 DEF FreeObject, NewIdentity, ObjectRecord
<1>3. QED BY <1>2, ObjectsAre DEF NoObjects

LEMMA KeptInUse ==
    ASSUME NEW v \in Objects, NEW o \in Object
    PROVE  LET t == KeepInUse(v, o)
           IN  /\ t \in Objects /\ SameLives(v, t) /\ SameFlags(v, t)
               /\ Copied(v, t) /\ \A x \in Object : t.obj[x].info = v.obj[x].info
<1> DEFINE new == [v.obj[o] EXCEPT !.idle = FALSE]
           used == [v EXCEPT !.obj[o] = new]
           t == KeepInUse(v, o)
<1>1. v.obj[o] \in ObjectRecord
  BY ObjectsAre
<1>2. new \in ObjectRecord
  BY <1>1, FieldsChanged
<1>3. /\ new.st = v.obj[o].st /\ new.listed = v.obj[o].listed /\ new.id = v.obj[o].id
      /\ new.watched = v.obj[o].watched /\ new.auto = v.obj[o].auto
      /\ new.info = v.obj[o].info
  BY <1>1 DEF ObjectRecord
<1>4. t = [used EXCEPT !.notify = FALSE, !.dispose = TRUE]
  BY ObjectsAre DEF KeepInUse
<1> HIDE DEF new
<1>5. /\ used \in Objects /\ used.byId = v.byId /\ used.obj[o] = new
      /\ \A x \in Object \ {o} : used.obj[x] = v.obj[x]
  BY <1>2, OneChanged
<1> HIDE DEF used, t
<1>6. t \in Objects /\ t.obj = used.obj /\ t.byId = used.byId
  BY <1>4, <1>5, TimersChanged
<1>7. QED BY <1>3, <1>5, <1>6 DEF SameLives, SameLife, SameFlags, Copied, t

LEMMA AutoSet ==
    ASSUME NEW v \in Objects, NEW o \in Object, NEW value \in BOOLEAN
    PROVE  LET t == SetAutoDestruct(v, o, value)
           IN  /\ t \in Objects /\ SameLives(v, t)
               /\ t.obj[o].auto = value
               /\ \A x \in Object \ {o} : t.obj[x].auto = v.obj[x].auto
               /\ Copied(v, t) /\ \A x \in Object : t.obj[x].info = v.obj[x].info
<1> DEFINE u == KeepInUse(v, o)
           new == [u.obj[o] EXCEPT !.auto = value]
           t == SetAutoDestruct(v, o, value)
<1>1. /\ u \in Objects /\ SameLives(v, u) /\ SameFlags(v, u)
      /\ \A x \in Object : u.obj[x].info = v.obj[x].info
  BY KeptInUse
<1> HIDE DEF u
<1>2. u.obj[o] \in ObjectRecord
  BY <1>1, ObjectsAre
<1>3. new \in ObjectRecord
  BY <1>2, FieldsChanged
<1>4. /\ new.st = u.obj[o].st /\ new.listed = u.obj[o].listed /\ new.id = u.obj[o].id
      /\ new.watched = u.obj[o].watched /\ new.auto = value
      /\ new.info = u.obj[o].info
  BY <1>2 DEF ObjectRecord
<1>5. t = [u EXCEPT !.obj[o] = new]
  BY <1>1, ObjectsAre DEF SetAutoDestruct, u
<1> HIDE DEF new, t
<1>6. /\ t \in Objects /\ t.byId = u.byId /\ t.obj[o] = new
      /\ \A x \in Object \ {o} : t.obj[x] = u.obj[x]
  BY <1>1, <1>3, <1>5, OneChanged
<1>7. QED BY <1>1, <1>4, <1>6 DEF SameLives, SameLife, SameFlags, Copied, t

LEMMA CopyReplaced ==
    ASSUME NEW v \in Objects, NEW o \in Object, NEW info \in Info \cup {NoCache}
    PROVE  LET t == [v EXCEPT !.obj[o].info = info]
           IN  /\ t \in Objects /\ SameLives(v, t) /\ SameFlags(v, t)
               /\ t.obj[o].info = info
               /\ \A x \in Object \ {o} : t.obj[x].info = v.obj[x].info
<1> DEFINE new == [v.obj[o] EXCEPT !.info = info]
           t == [v EXCEPT !.obj[o].info = info]
<1>1. v.obj[o] \in ObjectRecord
  BY ObjectsAre
<1>2. new \in ObjectRecord
  BY <1>1, FieldsChanged
<1>3. /\ new.st = v.obj[o].st /\ new.listed = v.obj[o].listed /\ new.id = v.obj[o].id
      /\ new.watched = v.obj[o].watched /\ new.auto = v.obj[o].auto
      /\ new.info = info
  BY <1>1 DEF ObjectRecord
<1>4. t = [v EXCEPT !.obj[o] = new]
  BY ObjectsAre
<1> HIDE DEF new, t
<1>5. /\ t \in Objects /\ t.byId = v.byId /\ t.obj[o] = new
      /\ \A x \in Object \ {o} : t.obj[x] = v.obj[x]
  BY <1>2, <1>4, OneChanged
<1>6. QED BY <1>3, <1>5 DEF SameLives, SameLife, SameFlags, t

\* No living object has a copy of the identity.
NoCopyOf(v, id) ==
    \A o \in Object : v.obj[o].st = "alive" /\ v.obj[o].info # NoCache
        => v.obj[o].id # id \/ id = NewIdentity

LEMMA UpdateHeard ==
    ASSUME NEW v \in Objects, NEW id
    PROVE  LET t == OnCredentialsUpdated(v, id)
           IN  /\ t \in Objects /\ SameLives(v, t) /\ SameFlags(v, t)
               /\ Copied(v, t) /\ NoCopyOf(t, id)
<1> DEFINE one(o) == IF id # NewIdentity /\ v.obj[o].st \in {"alive", "doomed"} /\ v.obj[o].id = id
                     THEN [v.obj[o] EXCEPT !.info = NoCache] ELSE v.obj[o]
           new == [o \in Object |-> one(o)]
           t == OnCredentialsUpdated(v, id)
<1>1. t = [v EXCEPT !.obj = new]
  BY DEF OnCredentialsUpdated
<1>2. ASSUME NEW o \in Object
      PROVE  /\ one(o) \in ObjectRecord
             /\ one(o).st = v.obj[o].st /\ one(o).listed = v.obj[o].listed
             /\ one(o).id = v.obj[o].id /\ one(o).watched = v.obj[o].watched
             /\ one(o).auto = v.obj[o].auto
             /\ one(o).info \in {v.obj[o].info, NoCache}
             /\ id # NewIdentity /\ v.obj[o].st = "alive" /\ v.obj[o].id = id
                  => one(o).info = NoCache
  <2>1. v.obj[o] \in ObjectRecord
    BY ObjectsAre
  <2>2. [v.obj[o] EXCEPT !.info = NoCache] \in ObjectRecord
    BY <2>1, FieldsChanged
  <2>3. QED BY <2>1, <2>2 DEF ObjectRecord
<1> HIDE DEF one
<1>3. new \in [Object -> ObjectRecord] /\ \A o \in Object : new[o] = one(o)
  BY <1>2
<1> HIDE DEF new, t
<1>4. t \in Objects /\ t.byId = v.byId /\ t.obj = new
  BY <1>1, <1>3, AllChanged
<1>5. QED BY <1>2, <1>3, <1>4 DEF SameLives, SameLife, SameFlags, Copied, NoCopyOf, t

LEMMA UnusedDestroyed ==
    ASSUME NEW v \in Objects
    PROVE  LET t == DestroyUnused(v)
           IN  t \in Objects /\ Swept(v, t) /\ Copied(v, t)
<1> DEFINE unused == {o \in Listed(v) : v.obj[o].auto /\ v.obj[o].idle}
           one(o) == IF o \in unused THEN [v.obj[o] EXCEPT !.st = "doomed", !.listed = FALSE]
                     ELSE v.obj[o]
           new == [o \in Object |-> one(o)]
           swept == [v EXCEPT !.obj = new]
           t == DestroyUnused(v)
<1>1. t = [swept EXCEPT !.notify = @ \/ Listed(swept) = {}]
  BY DEF DestroyUnused
<1>2. ASSUME NEW o \in Object
      PROVE  /\ one(o) \in ObjectRecord
             /\ one(o).id = v.obj[o].id /\ one(o).watched = v.obj[o].watched
             /\ one(o).auto = v.obj[o].auto /\ one(o).info = v.obj[o].info
             /\ \/ one(o).st = v.obj[o].st /\ one(o).listed = v.obj[o].listed
                \/ /\ v.obj[o].listed /\ v.obj[o].auto
                   /\ one(o).st = "doomed" /\ one(o).listed = FALSE
  <2>1. v.obj[o] \in ObjectRecord
    BY ObjectsAre
  <2>2. [v.obj[o] EXCEPT !.st = "doomed", !.listed = FALSE] \in ObjectRecord
    BY <2>1, FieldsChanged
  <2>3. CASE o \in unused
    <3>1. v.obj[o].listed /\ v.obj[o].auto
      BY <2>3 DEF Listed
    <3>2. one(o) = [v.obj[o] EXCEPT !.st = "doomed", !.listed = FALSE]
      BY <2>3
    <3> HIDE DEF one, unused
    <3>3. QED BY <2>1, <2>2, <3>1, <3>2 DEF ObjectRecord
  <2>4. CASE o \notin unused
    <3>1. one(o) = v.obj[o]
      BY <2>4
    <3> HIDE DEF one, unused
    <3>2. QED BY <2>1, <3>1
  <2>5. QED BY <2>3, <2>4
<1> HIDE DEF one, unused
<1>3. new \in [Object -> ObjectRecord] /\ \A o \in Object : new[o] = one(o)
  BY <1>2
<1> HIDE DEF new
<1>4. swept \in Objects /\ swept.byId = v.byId /\ swept.obj = new
  BY <1>3, AllChanged
<1> HIDE DEF swept
<1>5. t \in Objects /\ t.byId = swept.byId /\ t.obj = swept.obj
  BY <1>1, <1>4, ObjectsAre
<1> HIDE DEF t
<1>6. t.byId = v.byId /\ \A o \in Object : t.obj[o] = one(o)
  BY <1>3, <1>4, <1>5
<1>7. SameFlags(v, t)
  BY <1>2, <1>6 DEF SameFlags
<1>8. \A o \in Object :
         \/ SameLife(v, t, o)
         \/ /\ v.obj[o].listed /\ v.obj[o].auto
            /\ t.obj[o].st = "doomed" /\ t.obj[o].listed = FALSE
            /\ t.obj[o].id = v.obj[o].id /\ t.obj[o].watched = v.obj[o].watched
  BY <1>2, <1>6 DEF SameLife
<1>9. Copied(v, t)
  BY <1>2, <1>6 DEF Copied
<1>10. QED BY <1>5, <1>6, <1>7, <1>8, <1>9 DEF Swept, t

LEMMA TimerRuns ==
    ASSUME NEW v \in Objects
    PROVE  LET t == OnDisposeTimer(v)
           IN  t \in Objects /\ Swept(v, t) /\ Copied(v, t)
<1> DEFINE stopped == [v EXCEPT !.dispose = FALSE]
<1>1. stopped \in Objects /\ stopped.byId = v.byId /\ stopped.obj = v.obj
  BY DEF Objects
<1> HIDE DEF stopped
<1>2. Swept(v, stopped) /\ Copied(v, stopped)
  BY <1>1 DEF Swept, SameLife, SameFlags, Copied
<1>3. LET t == DestroyUnused(stopped)
      IN  t \in Objects /\ Swept(stopped, t) /\ Copied(stopped, t)
  BY <1>1, UnusedDestroyed
<1>4. Swept(v, DestroyUnused(stopped)) /\ Copied(v, DestroyUnused(stopped))
  BY <1>1, <1>3 DEF Swept, SameLife, SameFlags, Copied
<1>5. QED BY <1>1, <1>2, <1>3, <1>4 DEF OnDisposeTimer, stopped

\* What a new object is.
New(v, o, id) == /\ v.obj[o].st = "alive" /\ v.obj[o].id = id /\ v.obj[o].info = NoCache
                 /\ v.obj[o].listed /\ v.obj[o].watched = FALSE

LEMMA ObjectCreated ==
    ASSUME NEW v \in Objects, NEW o \in Object, NEW id \in 0..MaxId
    PROVE  LET t == Create(v, o, id)
           IN  /\ t \in Objects /\ t.byId = v.byId /\ OnlyOf(v, t, o)
               /\ New(t, o, id) /\ Copied(v, t)
<1> DEFINE new == [FreeObject EXCEPT !.st = "alive", !.id = id, !.listed = TRUE]
           u == [v EXCEPT !.obj[o] = new]
           t == KeepInUse(u, o)
<1>1. /\ new \in ObjectRecord
      /\ new.st = "alive" /\ new.id = id /\ new.info = NoCache
      /\ new.listed = TRUE /\ new.watched = FALSE
  BY DEF FreeObject, ObjectRecord
<1>2. Create(v, o, id) = t
  BY DEF Create
<1> HIDE DEF new
<1>3. /\ u \in Objects /\ u.byId = v.byId /\ u.obj[o] = new
      /\ \A x \in Object \ {o} : u.obj[x] = v.obj[x]
  BY <1>1, OneChanged
<1> HIDE DEF u
<1>4. /\ t \in Objects /\ SameLives(u, t) /\ SameFlags(u, t)
      /\ \A x \in Object : t.obj[x].info = u.obj[x].info
  BY <1>3, KeptInUse
<1> HIDE DEF t
<1>5. t.byId = v.byId /\ OnlyOf(v, t, o) /\ New(t, o, id) /\ Copied(v, t)
  BY <1>1, <1>3, <1>4 DEF SameLives, SameLife, SameFlags, OnlyOf, New, Copied
<1>6. QED BY <1>2, <1>4, <1>5

\* The entry i of the table is the object's, and no other entry is another.
Entered(v, t, i, o) ==
    /\ t.byId[i] = o
    /\ \A j \in 0..MaxId \ {i} : t.byId[j] = v.byId[j]

LEMMA ObjectWatched ==
    ASSUME NEW v \in Objects, NEW o \in Object
    PROVE  LET t == WatchIdentity(v, o)
           IN  /\ t \in Objects /\ OnlyOf(v, t, o) /\ Copied(v, t)
               /\ t.obj[o].st = v.obj[o].st /\ t.obj[o].listed = v.obj[o].listed
               /\ t.obj[o].id = v.obj[o].id /\ t.obj[o].auto = v.obj[o].auto
               /\ t.obj[o].watched
               /\ v.obj[o].id = NewIdentity => t.byId = v.byId
               /\ v.obj[o].id # NewIdentity => Entered(v, t, v.obj[o].id, o)
<1> DEFINE new == [v.obj[o] EXCEPT !.watched = TRUE]
           u == [v EXCEPT !.obj[o] = new]
           t == WatchIdentity(v, o)
<1>1. v.obj[o] \in ObjectRecord /\ v.obj[o].id \in 0..MaxId
  BY ObjectsAre, ObjectFields
<1>2. new \in ObjectRecord
  BY <1>1, FieldsChanged
<1>3. /\ new.st = v.obj[o].st /\ new.listed = v.obj[o].listed /\ new.id = v.obj[o].id
      /\ new.watched = TRUE /\ new.auto = v.obj[o].auto /\ new.info = v.obj[o].info
  BY <1>1 DEF ObjectRecord
<1>4. u = [v EXCEPT !.obj[o].watched = TRUE]
  BY ObjectsAre
<1>5. t = IF v.obj[o].id = NewIdentity THEN u ELSE OnIdentityStored(u, o)
  BY <1>4 DEF WatchIdentity
<1> HIDE DEF new
<1>6. /\ u \in Objects /\ u.byId = v.byId /\ u.obj[o] = new
      /\ \A x \in Object \ {o} : u.obj[x] = v.obj[x]
  BY <1>2, OneChanged
<1> HIDE DEF u, t
<1>7. LET n == [u EXCEPT !.byId[v.obj[o].id] = o]
      IN  /\ n \in Objects /\ n.obj = u.obj
          /\ Entered(u, n, v.obj[o].id, o)
  BY <1>1, <1>6, TableChanged DEF Entered
<1>8. OnIdentityStored(u, o) = [u EXCEPT !.byId[v.obj[o].id] = o]
  BY <1>3, <1>6 DEF OnIdentityStored
<1>9. /\ t \in Objects /\ t.obj = u.obj
      /\ v.obj[o].id = NewIdentity => t.byId = v.byId
      /\ v.obj[o].id # NewIdentity => Entered(v, t, v.obj[o].id, o)
  BY <1>5, <1>6, <1>7, <1>8 DEF Entered
<1>10. QED BY <1>3, <1>6, <1>9 DEF OnlyOf, SameLife, Copied, t

LEMMA ObjectDestroyed ==
    ASSUME NEW v \in Objects, NEW o \in Object
    PROVE  LET t == Destroy(v, o)
           IN  /\ t \in Objects /\ t.byId = v.byId /\ OnlyOf(v, t, o) /\ Copied(v, t)
               /\ Life(t, o, "doomed")
               /\ t.obj[o].listed = v.obj[o].listed
               /\ t.obj[o].id = v.obj[o].id /\ t.obj[o].watched = v.obj[o].watched
               /\ t.obj[o].auto = v.obj[o].auto
<1> DEFINE new == [v.obj[o] EXCEPT !.st = "doomed"]
           t == Destroy(v, o)
<1>1. v.obj[o] \in ObjectRecord
  BY ObjectsAre
<1>2. new \in ObjectRecord
  BY <1>1, FieldsChanged
<1>3. /\ new.st = "doomed" /\ new.listed = v.obj[o].listed /\ new.id = v.obj[o].id
      /\ new.watched = v.obj[o].watched /\ new.auto = v.obj[o].auto
  BY <1>1 DEF ObjectRecord
<1>4. t = [v EXCEPT !.obj[o] = new]
  BY ObjectsAre DEF Destroy
<1> HIDE DEF new, t
<1>5. /\ t \in Objects /\ t.byId = v.byId /\ t.obj[o] = new
      /\ \A x \in Object \ {o} : t.obj[x] = v.obj[x]
  BY <1>2, <1>4, OneChanged
<1>6. QED BY <1>3, <1>5 DEF OnlyOf, SameLife, Life, Copied, t

\* The destructors: the entry of the object's id goes, and its place is free
\* unless another entry names it.
LEMMA ObjectDeleted ==
    ASSUME NEW v \in Objects, NEW o \in Object
    PROVE  LET t == Delete(v, o)
           IN  /\ t \in Objects /\ OnlyOf(v, t, o) /\ Copied(v, t)
               /\ Life(t, o, "free") \/ Life(t, o, "deleted")
               /\ ~t.obj[o].listed
               /\ v.obj[o].watched => Entered(v, t, v.obj[o].id, NoObject)
               /\ ~v.obj[o].watched => t.byId = v.byId
               /\ Life(t, o, "free") => \A i \in 0..MaxId : t.byId[i] # o
<1> DEFINE byId == IF v.obj[o].watched THEN [v.byId EXCEPT ![v.obj[o].id] = NoObject] ELSE v.byId
           named == \E i \in 0..MaxId : byId[i] = o
           new == [FreeObject EXCEPT !.st = IF named THEN "deleted" ELSE "free"]
           u == [v EXCEPT !.obj[o] = new]
           t == Delete(v, o)
<1>1. v.obj[o].id \in 0..MaxId /\ v.obj[o].watched \in BOOLEAN
      /\ v.byId \in [0..MaxId -> Object \cup {NoObject}]
  BY ObjectsAre, ObjectFields
<1>2. /\ byId \in [0..MaxId -> Object \cup {NoObject}]
      /\ v.obj[o].watched => /\ byId[v.obj[o].id] = NoObject
                             /\ \A j \in 0..MaxId \ {v.obj[o].id} : byId[j] = v.byId[j]
      /\ ~v.obj[o].watched => byId = v.byId
  BY <1>1
<1>3. t = [v EXCEPT !.byId = byId, !.obj[o] = new]
  BY DEF Delete
<1> HIDE DEF byId
<1>4. /\ new \in ObjectRecord
      /\ new.st = IF named THEN "deleted" ELSE "free"
      /\ new.listed = FALSE
  <2>1. FreeObject \in ObjectRecord /\ FreeObject.listed = FALSE
    BY MaxIdAssumption DEF FreeObject, ObjectRecord, NewIdentity
  <2> HIDE DEF named
  <2>2. QED BY <2>1 DEF ObjectRecord
<1>5. new.st \in {"free", "deleted"} /\ (new.st = "free" => \A i \in 0..MaxId : byId[i] # o)
  BY <1>4
<1> HIDE DEF new, named
<1>6. /\ u \in Objects /\ u.byId = v.byId /\ u.obj[o] = new
      /\ \A x \in Object \ {o} : u.obj[x] = v.obj[x]
  BY <1>4, OneChanged
<1>7. t = [u EXCEPT !.byId = byId]
  BY <1>3, ObjectsAre
<1> HIDE DEF u, t
<1>8. t \in Objects /\ t.obj = u.obj /\ t.byId = byId
  BY <1>2, <1>6, <1>7, ObjectsAre
<1>9. QED BY <1>2, <1>4, <1>5, <1>6, <1>8 DEF OnlyOf, SameLife, Life, Entered, Copied, t

\* queryInfo() gives an info of the identity, or a new one, which a copy made now
\* has been read as.
LEMMA InfoQueried ==
    ASSUME NEW db \in State, NEW v \in Objects, NEW o \in Object, NEW query \in BOOLEAN, NEW f
    PROVE  LET got == QueryInfo(db, v, o, query, f)
           IN  /\ got.st \in Objects /\ SameLives(v, got.st) /\ SameFlags(v, got.st)
               /\ v.obj[o].info = NoCache /\ got.info.id # NewIdentity
                     => Exists(db.meta, v.obj[o].id)
<1> DEFINE cached == v.obj[o].info
           read == Credentials(db, v.obj[o].id, query)
           loaded == IF ~(cached = NoCache \/ (query /\ cached.pass = Null)) THEN cached
                     ELSE IF f = "query" THEN NoCache ELSE read
           got == QueryInfo(db, v, o, query, f)
<1>1. cached \in Info \cup {NoCache}
  BY ObjectFields
<1>2. read \in Info /\ (read.id # NewIdentity => Exists(db.meta, v.obj[o].id))
  BY CredentialsRead
<1>3. /\ got.st = [v EXCEPT !.obj[o].info = loaded]
      /\ got.info = IF loaded = NoCache THEN NoInfo ELSE loaded
  BY DEF QueryInfo
<1>4. cached = NoCache => loaded = NoCache \/ loaded = read
  OBVIOUS
<1>5. loaded \in Info \cup {NoCache}
  BY <1>1, <1>2
<1> HIDE DEF loaded, read
<1>6. LET t == [v EXCEPT !.obj[o].info = loaded]
      IN  t \in Objects /\ SameLives(v, t) /\ SameFlags(v, t)
  BY <1>5, CopyReplaced
<1>7. NoInfo.id = NewIdentity
  BY DEF NoInfo
<1>8. cached = NoCache /\ got.info.id # NewIdentity => Exists(db.meta, v.obj[o].id)
  BY <1>2, <1>3, <1>4, <1>7
<1> HIDE DEF got
<1>9. QED BY <1>3, <1>6, <1>8 DEF got

\* What an object has to store.
LEMMA StoredInfo ==
    ASSUME NEW v \in Objects, NEW o \in Object, NEW info \in Info, NEW sent \in 0..MaxId,
           NEW peer \in Peer
    PROVE  InfoToStore(v, o, info, sent, peer) \in Info
<1>1. v.obj[o].info \in Info \cup {NoCache}
  BY ObjectFields
<1>2. AppId[peer] \in Token \cup {Null}
  BY AccessAssumption
<1>3. CASE v.obj[o].info # NoCache
  <2>1. v.obj[o].info \in Info
    BY <1>1, <1>3
  <2>2. MergeInfo(v.obj[o].info, info) \in Info
    BY <2>1 DEF MergeInfo, Info
  <2>3. QED BY <1>3, <2>2 DEF InfoToStore
<1>4. CASE v.obj[o].info = NoCache
  <2>1. info.owners \cup ({AppId[peer]} \ {Null}) \in SUBSET Token
    BY <1>2 DEF Info
  <2>2. [info EXCEPT !.id = sent, !.owners = info.owners \cup ({AppId[peer]} \ {Null})] \in Info
    BY <2>1 DEF Info
  <2>3. QED BY <1>4, <2>2 DEF InfoToStore
<1>5. QED BY <1>3, <1>4

StoredAs(v, o, info, res) == IF info.id # NewIdentity THEN v.obj[o].id
                             ELSE IF res.err THEN NewIdentity ELSE res.id

\* The other objects have the copies that they had, and none of the identity.
OthersHeard(v, t, o, id) ==
    \A x \in Object \ {o} : t.obj[x].st = "alive" /\ t.obj[x].info # NoCache
        => /\ v.obj[x].st = "alive" /\ v.obj[x].info = t.obj[x].info
           /\ v.obj[x].id = t.obj[x].id
           /\ v.obj[x].id # id \/ id = NewIdentity

\* storeCredentials(): the object's id, and its entry.
LEMMA ObjectStored ==
    ASSUME NEW v \in Objects, NEW o \in Object, NEW info \in Info, NEW res,
           res.id \in 0..MaxId
    PROVE  LET t == CredentialsStored(v, o, info, res).r
               id == StoredAs(v, o, info, res)
           IN  /\ t \in Objects /\ OnlyOf(v, t, o)
               /\ t.obj[o].st = v.obj[o].st /\ t.obj[o].listed = v.obj[o].listed
               /\ t.obj[o].watched = v.obj[o].watched /\ t.obj[o].auto = v.obj[o].auto
               /\ id \in 0..MaxId /\ t.obj[o].id = id
               /\ res.err \/ ~v.obj[o].watched => t.byId = v.byId
               /\ ~res.err /\ v.obj[o].watched => Entered(v, t, id, o)
               /\ OthersHeard(v, t, o, res.id)
               /\ ~res.err => t.obj[o].info = NoCache
<1> DEFINE copied == [v EXCEPT !.obj[o].info = info]
           heard == OnCredentialsUpdated(copied, res.id)
           id == StoredAs(v, o, info, res)
           new == [heard.obj[o] EXCEPT !.id = id]
           named == [heard EXCEPT !.obj[o] = new]
           dropped == [named EXCEPT !.obj[o].info = NoCache]
           t == CredentialsStored(v, o, info, res).r
<1>1. id \in 0..MaxId
  BY ObjectFields, MaxIdAssumption DEF StoredAs, NewIdentity
<1>2. /\ copied \in Objects /\ SameLives(v, copied) /\ SameFlags(v, copied)
      /\ \A x \in Object \ {o} : copied.obj[x].info = v.obj[x].info
  BY CopyReplaced
<1> HIDE DEF copied
<1>3. /\ heard \in Objects /\ SameLives(copied, heard) /\ SameFlags(copied, heard)
      /\ Copied(copied, heard) /\ NoCopyOf(heard, res.id)
  BY <1>2, UpdateHeard
<1>4. t = IF res.err THEN [heard EXCEPT !.obj[o].id = id]
          ELSE IF v.obj[o].watched
          THEN OnIdentityStored([[heard EXCEPT !.obj[o].id = id] EXCEPT !.obj[o].info = NoCache], o)
          ELSE [[heard EXCEPT !.obj[o].id = id] EXCEPT !.obj[o].info = NoCache]
  BY DEF CredentialsStored, StoredAs, heard, copied
<1> HIDE DEF heard, id
<1>5. named = [heard EXCEPT !.obj[o].id = id]
  BY <1>3, ObjectsAre
<1>6. heard.obj[o] \in ObjectRecord
  BY <1>3, ObjectsAre
<1>7. new \in ObjectRecord
  BY <1>1, <1>6, FieldsChanged
<1>8. /\ new.st = heard.obj[o].st /\ new.listed = heard.obj[o].listed /\ new.id = id
      /\ new.watched = heard.obj[o].watched /\ new.auto = heard.obj[o].auto
  BY <1>6 DEF ObjectRecord
<1> HIDE DEF new
<1>9. /\ named \in Objects /\ named.byId = heard.byId /\ named.obj[o] = new
      /\ \A x \in Object \ {o} : named.obj[x] = heard.obj[x]
  BY <1>3, <1>7, OneChanged
<1> HIDE DEF named
<1>10. /\ dropped \in Objects /\ SameLives(named, dropped) /\ SameFlags(named, dropped)
       /\ dropped.obj[o].info = NoCache
       /\ \A x \in Object \ {o} : dropped.obj[x].info = named.obj[x].info
  BY <1>9, CopyReplaced
<1>11. t = IF res.err THEN named
           ELSE IF v.obj[o].watched THEN OnIdentityStored(dropped, o) ELSE dropped
  BY <1>4, <1>5
<1> HIDE DEF dropped, t
<1> DEFINE Right(u) == /\ u \in Objects /\ OnlyOf(v, u, o)
                       /\ u.obj[o].st = v.obj[o].st /\ u.obj[o].listed = v.obj[o].listed
                       /\ u.obj[o].watched = v.obj[o].watched
                       /\ u.obj[o].auto = v.obj[o].auto
                       /\ u.obj[o].id = id
                       /\ OthersHeard(v, u, o, res.id)
<1>12. Right(named) /\ named.byId = v.byId
  <2>1. OthersHeard(v, named, o, res.id)
    BY <1>2, <1>3, <1>9 DEF SameLives, SameLife, Copied, NoCopyOf, OthersHeard
  <2>2. QED BY <1>2, <1>3, <1>8, <1>9, <2>1 DEF SameLives, SameFlags, SameLife, OnlyOf
<1>13. Right(dropped) /\ dropped.byId = v.byId /\ dropped.obj[o].info = NoCache
  <2>1. OthersHeard(v, dropped, o, res.id)
    BY <1>10, <1>12 DEF SameLives, SameLife, OthersHeard
  <2>2. QED BY <1>10, <1>12, <2>1 DEF SameLives, SameFlags, SameLife, OnlyOf
<1>14. LET u == OnIdentityStored(dropped, o)
       IN  Right(u) /\ Entered(v, u, id, o) /\ u.obj[o].info = NoCache
  <2>1. OnIdentityStored(dropped, o) = [dropped EXCEPT !.byId[id] = o]
    BY <1>13 DEF OnIdentityStored
  <2> DEFINE u == OnIdentityStored(dropped, o)
  <2> HIDE DEF u
  <2>2. /\ u \in Objects /\ u.obj = dropped.obj
        /\ u.byId[id] = o /\ \A j \in 0..MaxId \ {id} : u.byId[j] = dropped.byId[j]
    BY <1>1, <1>13, <2>1, TableChanged DEF u
  <2>3. QED BY <1>13, <2>2 DEF OnlyOf, SameLife, Entered, OthersHeard, u
<1> HIDE DEF Right
<1>15. /\ Right(t)
       /\ res.err \/ ~v.obj[o].watched => t.byId = v.byId
       /\ ~res.err /\ v.obj[o].watched => Entered(v, t, id, o)
       /\ ~res.err => t.obj[o].info = NoCache
  BY <1>11, <1>12, <1>13, <1>14
<1>16. QED BY <1>1, <1>15 DEF Right, t, id
-----------------------------------------------------------------------------
(* The inductive invariant: what is true of the objects v, the waiting calls   *)
(* cs, the objects stored as new twice, and the next number of an identity.    *)

Exist(v, o) == v.obj[o].st \in {"alive", "doomed"}

\* The list has the objects that live, and maybe some that are doomed.
Lists(v) == \A o \in Object : /\ v.obj[o].st = "alive" => v.obj[o].listed
                              /\ v.obj[o].listed => Exist(v, o)

\* The daemon hears of the deletion of every object that a client can reach.
Connected(v) == \A o \in Object : v.obj[o].st = "alive" => v.obj[o].watched

\* The table names objects, by their ids, and has every one that the daemon will
\* hear of, which all have ids of rows that have been there.
Named(v, twice) ==
    \A i \in Id : v.byId[i] # NoObject /\ v.byId[i] \notin twice
                    => /\ v.byId[i] \in Object /\ Exist(v, v.byId[i])
                       /\ v.obj[v.byId[i]].id = i /\ v.obj[v.byId[i]].watched
Found(v) ==
    \A o \in Object : Exist(v, o) /\ v.obj[o].watched /\ v.obj[o].id # NewIdentity
                        => v.byId[v.obj[o].id] = o
Twice(v, twice) == \A o \in twice : /\ v.obj[o].st # "free"
                                    /\ Exist(v, o) => v.obj[o].watched
Before(v, next) == \A o \in Object : Exist(v, o) /\ v.obj[o].watched => v.obj[o].id < next

Table(v, twice, next) ==
    Named(v, twice) /\ Found(v) /\ Twice(v, twice) /\ Before(v, next)

\* A call that has not been overtaken by another one keeps its object.
Keeps(v, cs) ==
    \A c \in Call : cs[c] # NoCall /\ ~cs[c].over
                      => v.obj[cs[c].o].st = "alive" /\ v.obj[cs[c].o].auto = FALSE

Good(v, cs, twice, next) ==
    v \in Objects /\ Lists(v) /\ Connected(v) /\ Table(v, twice, next) /\ Keeps(v, cs)

IInv == TypeOK /\ Sound(s) /\ Good(r, calls, anew, s.meta.nextId)

-----------------------------------------------------------------------------
(* What the operators keep of it *)

\* Lives that stay as they are.
LEMMA SameLivesKeep ==
    ASSUME NEW v \in Objects, NEW t \in Objects, SameLives(v, t), NEW twice \in SUBSET Object,
           NEW next
    PROVE  /\ Lists(v) => Lists(t)
           /\ Connected(v) => Connected(t)
           /\ Table(v, twice, next) => Table(t, twice, next)
<1>1. /\ t.byId = v.byId
      /\ \A o \in Object : /\ t.obj[o].st = v.obj[o].st /\ t.obj[o].listed = v.obj[o].listed
                           /\ t.obj[o].id = v.obj[o].id /\ t.obj[o].watched = v.obj[o].watched
  BY DEF SameLives, SameLife
<1>2. Lists(v) => Lists(t)
  BY <1>1 DEF Lists, Exist
<1>3. Connected(v) => Connected(t)
  BY <1>1 DEF Connected
<1>4. Named(v, twice) => Named(t, twice)
  BY <1>1 DEF Named, Exist
<1>5. Found(v) => Found(t)
  BY <1>1 DEF Found, Exist
<1>6. Twice(v, twice) => Twice(t, twice)
  BY <1>1 DEF Twice, Exist
<1>7. Before(v, next) => Before(t, next)
  BY <1>1 DEF Before, Exist
<1>8. QED BY <1>2, <1>3, <1>4, <1>5, <1>6, <1>7 DEF Table

\* Calls, each of an object.
Calls(cs) == \A c \in Call : cs[c] # NoCall => cs[c] \in Waiting

LEMMA SameLivesGood ==
    ASSUME NEW v \in Objects, NEW t \in Objects, SameLives(v, t), SameFlags(v, t),
           NEW cs, Calls(cs), NEW twice \in SUBSET Object, NEW next,
           Good(v, cs, twice, next)
    PROVE  Good(t, cs, twice, next)
<1>1. Lists(t) /\ Connected(t) /\ Table(t, twice, next)
  BY SameLivesKeep DEF Good
<1>2. \A c \in Call : cs[c] # NoCall => cs[c].o \in Object
  BY DEF Calls, Waiting
<1>3. Keeps(t, cs)
  BY <1>2 DEF Good, Keeps, SameLives, SameLife, SameFlags
<1>4. QED BY <1>1, <1>3 DEF Good

\* destroyUnused() takes nothing that is in use.
LEMMA SweptGood ==
    ASSUME NEW v \in Objects, NEW t \in Objects, Swept(v, t), NEW cs, Calls(cs),
           NEW twice \in SUBSET Object, NEW next, Good(v, cs, twice, next)
    PROVE  Good(t, cs, twice, next)
<1>1. /\ t.byId = v.byId
      /\ \A o \in Object :
            /\ t.obj[o].id = v.obj[o].id /\ t.obj[o].watched = v.obj[o].watched
            /\ t.obj[o].auto = v.obj[o].auto
            /\ \/ t.obj[o].st = v.obj[o].st /\ t.obj[o].listed = v.obj[o].listed
               \/ /\ v.obj[o].listed /\ v.obj[o].auto
                  /\ t.obj[o].st = "doomed" /\ t.obj[o].listed = FALSE
  BY DEF Swept, SameLife, SameFlags
<1>2. v \in Objects /\ Lists(v) /\ Connected(v) /\ Table(v, twice, next) /\ Keeps(v, cs)
  BY DEF Good
<1>3. Lists(t)
  BY <1>1, <1>2 DEF Lists, Exist
<1>4. Connected(t)
  BY <1>1, <1>2 DEF Connected
<1>5. \A o \in Object : Exist(t, o) <=> Exist(v, o)
  BY <1>1, <1>2 DEF Lists, Exist
<1>6. Named(t, twice)
  BY <1>1, <1>2, <1>5 DEF Named, Table
<1>7. Found(t)
  BY <1>1, <1>2, <1>5 DEF Found, Table
<1>8. Twice(t, twice)
  BY <1>1, <1>2, <1>5 DEF Twice, Table
<1>9. Before(t, next)
  BY <1>1, <1>2, <1>5 DEF Before, Table
<1>10. \A c \in Call : cs[c] # NoCall => cs[c].o \in Object
  BY DEF Calls, Waiting
<1>11. \A o \in Object : v.obj[o].st = "alive" /\ v.obj[o].auto = FALSE =>
                            t.obj[o].st = "alive" /\ t.obj[o].auto = FALSE
  BY <1>1
<1>12. Keeps(t, cs)
  BY <1>2, <1>10, <1>11 DEF Keeps
<1>13. QED BY <1>3, <1>4, <1>6, <1>7, <1>8, <1>9, <1>12 DEF Good, Table

\* A place that is free becomes an object, which nothing names yet.
LEMMA CreatedKeeps ==
    ASSUME NEW v \in Objects, NEW cs, Calls(cs), NEW twice \in SUBSET Object, NEW next,
           Good(v, cs, twice, next),
           NEW o \in Object, v.obj[o].st = "free", NEW id \in 0..MaxId
    PROVE  LET t == Create(v, o, id)
           IN  /\ t \in Objects /\ Lists(t) /\ Table(t, twice, next) /\ Keeps(t, cs)
               /\ \A x \in Object \ {o} : t.obj[x].st = "alive" => t.obj[x].watched
               /\ New(t, o, id) /\ t.byId = v.byId
<1> DEFINE t == Create(v, o, id)
<1>1. v \in Objects /\ Lists(v) /\ Connected(v) /\ Table(v, twice, next) /\ Keeps(v, cs)
  BY DEF Good
<1>2. /\ t \in Objects /\ t.byId = v.byId /\ OnlyOf(v, t, o)
      /\ New(t, o, id)
  BY ObjectCreated
<1> HIDE DEF t
<1>3. \A x \in Object \ {o} :
         /\ t.obj[x].st = v.obj[x].st /\ t.obj[x].listed = v.obj[x].listed
         /\ t.obj[x].id = v.obj[x].id /\ t.obj[x].watched = v.obj[x].watched
         /\ t.obj[x].auto = v.obj[x].auto
  BY <1>2 DEF OnlyOf, SameLife
<1>4. o \notin twice
  BY <1>1 DEF Table, Twice
<1>5. Lists(t)
  BY <1>1, <1>2, <1>3 DEF Lists, Exist, New
<1>6. \A i \in Id : v.byId[i] # o
  BY <1>1, <1>4, ObjectAssumption DEF Table, Named, Exist, New
<1>7. Named(t, twice)
  BY <1>1, <1>2, <1>3, <1>6 DEF Table, Named, Exist, New
<1>8. Found(t)
  BY <1>1, <1>2, <1>3 DEF Table, Found, Exist, New
<1>9. Twice(t, twice)
  BY <1>1, <1>2, <1>3, <1>4 DEF Table, Twice, Exist, New
<1>10. Before(t, next)
  BY <1>1, <1>2, <1>3 DEF Table, Before, Exist, New
<1>11. \A c \in Call : cs[c] # NoCall => cs[c].o \in Object
  BY DEF Calls, Waiting
<1>12. Keeps(t, cs)
  BY <1>1, <1>3, <1>11 DEF Keeps
<1>13. \A x \in Object \ {o} : t.obj[x].st = "alive" => t.obj[x].watched
  BY <1>1, <1>3 DEF Connected
<1>14. QED BY <1>2, <1>5, <1>7, <1>8, <1>9, <1>10, <1>12, <1>13 DEF Table, t

\* watchIdentity() of an object that no other has the entry of.
LEMMA WatchedGood ==
    ASSUME NEW v \in Objects, NEW cs, Calls(cs), NEW twice \in SUBSET Object, NEW next,
           NEW o \in Object, Lists(v), Table(v, twice, next), Keeps(v, cs),
           \A x \in Object \ {o} : v.obj[x].st = "alive" => v.obj[x].watched,
           Exist(v, o), v.obj[o].id < next,
           v.obj[o].id # NewIdentity => v.byId[v.obj[o].id] \in {NoObject, o}
    PROVE  LET t == WatchIdentity(v, o)
           IN  t \in Objects /\ Good(t, cs, twice, next)
<1> DEFINE t == WatchIdentity(v, o)
           id == v.obj[o].id
<1>1. /\ t \in Objects /\ OnlyOf(v, t, o)
      /\ t.obj[o].st = v.obj[o].st /\ t.obj[o].listed = v.obj[o].listed
      /\ t.obj[o].id = id /\ t.obj[o].auto = v.obj[o].auto
      /\ t.obj[o].watched
      /\ id = NewIdentity => t.byId = v.byId
      /\ id # NewIdentity => Entered(v, t, id, o)
  BY ObjectWatched
<1>2. id \in 0..MaxId
  BY ObjectFields
<1> HIDE DEF t, id
<1>3. \A x \in Object :
         /\ t.obj[x].st = v.obj[x].st /\ t.obj[x].listed = v.obj[x].listed
         /\ t.obj[x].id = v.obj[x].id /\ t.obj[x].auto = v.obj[x].auto
         /\ x # o => t.obj[x].watched = v.obj[x].watched
  BY <1>1 DEF OnlyOf, SameLife, id
<1>4. \A x \in Object : Exist(t, x) <=> Exist(v, x)
  BY <1>3 DEF Exist
<1>5. \A i \in Id : t.byId[i] = v.byId[i] \/ (i = id /\ id # NewIdentity /\ t.byId[i] = o)
  BY <1>1, <1>2, MaxIdAssumption DEF Entered, Id
<1>6. Lists(t)
  BY <1>3, <1>4 DEF Lists
<1>7. Connected(t)
  BY <1>1, <1>3 DEF Connected
<1>8. Named(t, twice)
  <2> SUFFICES ASSUME NEW i \in Id, t.byId[i] # NoObject, t.byId[i] \notin twice
               PROVE  /\ t.byId[i] \in Object /\ Exist(t, t.byId[i])
                      /\ t.obj[t.byId[i]].id = i /\ t.obj[t.byId[i]].watched
    BY DEF Named
  <2>1. CASE t.byId[i] = v.byId[i]
    BY <1>1, <1>3, <1>4, <2>1 DEF Table, Named
  <2>2. CASE i = id /\ t.byId[i] = o
    BY <1>1, <1>4, <2>2
  <2>3. QED BY <1>5, <2>1, <2>2
<1>9. Found(t)
  <2> SUFFICES ASSUME NEW x \in Object, Exist(t, x), t.obj[x].watched,
                      t.obj[x].id # NewIdentity
               PROVE  t.byId[t.obj[x].id] = x
    BY DEF Found
  <2>1. CASE x = o
    BY <1>1, <2>1 DEF Entered
  <2>2. CASE x # o
    <3>1. v.byId[v.obj[x].id] = x /\ v.obj[x].id \in 0..MaxId
      BY <1>3, <1>4, <2>2, ObjectFields DEF Table, Found
    <3>2. id # NewIdentity => v.obj[x].id # id
      BY <2>2, <3>1, ObjectAssumption DEF id
    <3>3. t.byId[v.obj[x].id] = x
      BY <1>1, <3>1, <3>2 DEF Entered
    <3>4. QED BY <1>3, <3>3
  <2>3. QED BY <2>1, <2>2
<1>10. Twice(t, twice)
  BY <1>1, <1>3, <1>4 DEF Table, Twice
<1>11. Before(t, next)
  BY <1>1, <1>3, <1>4 DEF Table, Before, id
<1>12. \A c \in Call : cs[c] # NoCall => cs[c].o \in Object
  BY DEF Calls, Waiting
<1>13. Keeps(t, cs)
  BY <1>3, <1>12 DEF Keeps
<1>14. QED BY <1>1, <1>6, <1>7, <1>8, <1>9, <1>10, <1>11, <1>13 DEF Table, Good, t

\* Of the calls cs those of o are over, or gone, in cs2.
Leaves(cs, cs2, o) ==
    \A c \in Call : cs2[c] # NoCall /\ ~cs2[c].over
                      => /\ cs[c] # NoCall /\ ~cs[c].over
                         /\ cs2[c].o = cs[c].o /\ cs[c].o # o

LEMMA DestroyedGood ==
    ASSUME NEW v \in Objects, NEW cs, Calls(cs), NEW cs2, NEW twice \in SUBSET Object, NEW next,
           NEW o \in Object, Lists(v), Table(v, twice, next), Keeps(v, cs),
           \A x \in Object \ {o} : v.obj[x].st = "alive" => v.obj[x].watched,
           Exist(v, o), Leaves(cs, cs2, o)
    PROVE  LET t == Destroy(v, o)
           IN  t \in Objects /\ Good(t, cs2, twice, next)
<1> DEFINE t == Destroy(v, o)
<1>1. /\ t \in Objects /\ t.byId = v.byId /\ OnlyOf(v, t, o)
      /\ Life(t, o, "doomed")
      /\ t.obj[o].listed = v.obj[o].listed
      /\ t.obj[o].id = v.obj[o].id /\ t.obj[o].watched = v.obj[o].watched
      /\ t.obj[o].auto = v.obj[o].auto
  BY ObjectDestroyed
<1> HIDE DEF t
<1>2. \A x \in Object :
         /\ t.obj[x].listed = v.obj[x].listed /\ t.obj[x].watched = v.obj[x].watched
         /\ t.obj[x].id = v.obj[x].id /\ t.obj[x].auto = v.obj[x].auto
         /\ x # o => t.obj[x].st = v.obj[x].st
  BY <1>1 DEF OnlyOf, SameLife
<1>3. \A x \in Object : Exist(t, x) <=> Exist(v, x)
  BY <1>1, <1>2 DEF Exist, Life
<1>4. Lists(t)
  BY <1>1, <1>2, <1>3 DEF Lists, Life
<1>5. Connected(t)
  BY <1>1, <1>2 DEF Connected, Life
<1>6. Named(t, twice)
  BY <1>1, <1>2, <1>3 DEF Table, Named
<1>7. Found(t)
  BY <1>1, <1>2, <1>3 DEF Table, Found
<1>8. Twice(t, twice)
  BY <1>1, <1>2, <1>3 DEF Table, Twice, Life
<1>9. Before(t, next)
  BY <1>1, <1>2, <1>3 DEF Table, Before
<1>10. \A c \in Call : cs[c] # NoCall => cs[c].o \in Object
  BY DEF Calls, Waiting
<1>11. Keeps(t, cs2)
  BY <1>2, <1>10 DEF Keeps, Leaves
<1>12. QED BY <1>1, <1>4, <1>5, <1>6, <1>7, <1>8, <1>9, <1>11 DEF Table, Good, t

\* A deleted object leaves no entry but those of an object stored as new twice.
LEMMA DeletedGood ==
    ASSUME NEW v \in Objects, NEW cs, Calls(cs), NEW cs2, NEW twice \in SUBSET Object, NEW next,
           NEW o \in Object, Good(v, cs, twice, next), v.obj[o].st = "doomed",
           Leaves(cs, cs2, o)
    PROVE  LET t == Delete(v, o)
           IN  t \in Objects /\ Good(t, cs2, {x \in twice : t.obj[x].st # "free"}, next)
<1> DEFINE t == Delete(v, o)
           id == v.obj[o].id
           twice2 == {x \in twice : t.obj[x].st # "free"}
<1>1. /\ t \in Objects /\ OnlyOf(v, t, o)
      /\ Life(t, o, "free") \/ Life(t, o, "deleted")
      /\ ~t.obj[o].listed
      /\ v.obj[o].watched => Entered(v, t, id, NoObject)
      /\ ~v.obj[o].watched => t.byId = v.byId
      /\ Life(t, o, "free") => \A i \in 0..MaxId : t.byId[i] # o
  BY ObjectDeleted
<1>2. Lists(v) /\ Connected(v) /\ Table(v, twice, next) /\ Keeps(v, cs)
  BY DEF Good
<1>3. Exist(v, o)
  BY DEF Exist
<1>4. id \in 0..MaxId /\ v.obj[o].watched \in BOOLEAN
  BY ObjectFields
<1> HIDE DEF t, id
<1>5. \A x \in Object \ {o} :
         /\ t.obj[x].listed = v.obj[x].listed /\ t.obj[x].watched = v.obj[x].watched
         /\ t.obj[x].id = v.obj[x].id /\ t.obj[x].auto = v.obj[x].auto
         /\ t.obj[x].st = v.obj[x].st
  BY <1>1 DEF OnlyOf, SameLife
<1>6. ~Exist(t, o) /\ t.obj[o].st # "alive"
  BY <1>1 DEF Exist, Life
<1>7. \A x \in Object \ {o} : Exist(t, x) <=> Exist(v, x)
  BY <1>5 DEF Exist
<1>8. Lists(t)
  BY <1>1, <1>2, <1>5, <1>6, <1>7 DEF Lists
<1>9. Connected(t)
  BY <1>2, <1>5, <1>6 DEF Connected
<1>10. \A i \in Id : t.byId[i] = NoObject
                     \/ (t.byId[i] = v.byId[i] /\ (v.obj[o].watched => i # id))
  BY <1>1, <1>4, MaxIdAssumption DEF Entered, Id
<1>11. Named(t, twice2)
  <2> SUFFICES ASSUME NEW i \in Id, t.byId[i] # NoObject, t.byId[i] \notin twice2
               PROVE  /\ t.byId[i] \in Object /\ Exist(t, t.byId[i])
                      /\ t.obj[t.byId[i]].id = i /\ t.obj[t.byId[i]].watched
    BY DEF Named
  <2> DEFINE x == t.byId[i]
  <2>1. x = v.byId[i] /\ (v.obj[o].watched => i # id) /\ i \in 0..MaxId
    BY <1>10, MaxIdAssumption DEF Id
  <2>2. x \in Object
    BY <2>1, ObjectFields
  <2>3. CASE x = o
    <3>1. ~Life(t, o, "free")
      BY <1>1, <2>1, <2>3
    <3>2. o \notin twice
      BY <2>3, <3>1 DEF Life
    <3>3. v.obj[o].id = i /\ v.obj[o].watched
      BY <1>2, <2>1, <2>3, <3>2, ObjectAssumption DEF Table, Named
    <3>4. QED BY <2>1, <3>3 DEF id
  <2>4. CASE x # o
    <3>1. x \notin twice
      BY <1>2, <1>5, <2>2, <2>4 DEF Table, Twice
    <3>2. Exist(v, x) /\ v.obj[x].id = i /\ v.obj[x].watched
      BY <1>2, <2>1, <3>1 DEF Table, Named
    <3>3. QED BY <1>5, <1>7, <2>2, <2>4, <3>2
  <2>5. QED BY <2>3, <2>4
<1>12. Found(t)
  <2> SUFFICES ASSUME NEW x \in Object, Exist(t, x), t.obj[x].watched,
                      t.obj[x].id # NewIdentity
               PROVE  t.byId[t.obj[x].id] = x
    BY DEF Found
  <2>1. x # o
    BY <1>6
  <2>2. v.byId[v.obj[x].id] = x /\ v.obj[x].id \in 0..MaxId
    BY <1>2, <1>5, <1>7, <2>1, ObjectFields DEF Table, Found
  <2>3. v.obj[o].watched => v.obj[x].id # id
    BY <1>2, <1>3, <1>5, <2>1, <2>2 DEF Table, Found, id
  <2>4. t.byId[v.obj[x].id] = x
    BY <1>1, <1>4, <2>2, <2>3 DEF Entered
  <2>5. QED BY <1>5, <2>1, <2>4
<1>13. Twice(t, twice2)
  BY <1>2, <1>5, <1>6, <1>7 DEF Table, Twice
<1>14. Before(t, next)
  BY <1>2, <1>5, <1>6, <1>7 DEF Table, Before
<1>15. \A c \in Call : cs[c] # NoCall => cs[c].o \in Object
  BY DEF Calls, Waiting
<1>16. Keeps(t, cs2)
  BY <1>2, <1>5, <1>15 DEF Keeps, Leaves
<1>17. QED BY <1>1, <1>8, <1>9, <1>11, <1>12, <1>13, <1>14, <1>16 DEF Table, Good, t
-----------------------------------------------------------------------------
\* storeCredentials(): a new number is one that no object has had, and the old
\* entry of an object that gets one makes it one that was stored as new twice.
LEMMA StoredGood ==
    ASSUME NEW v \in Objects, NEW cs, Calls(cs), NEW twice \in SUBSET Object,
           NEW next \in Nat, NEW next2 \in Nat, next <= next2,
           Good(v, cs, twice, next),
           NEW o \in Object, v.obj[o].st = "alive", NEW info \in Info, NEW res,
           res.id \in 0..MaxId,
           info.id = NewIdentity /\ res.id # NewIdentity => res.id = next /\ next2 = res.id + 1
    PROVE  LET t == CredentialsStored(v, o, info, res).r
               twice2 == IF info.id = NewIdentity /\ v.obj[o].id # NewIdentity
                         THEN twice \cup {o} ELSE twice
           IN  t \in Objects /\ Good(t, cs, twice2, next2)
<1> DEFINE t == CredentialsStored(v, o, info, res).r
           id == StoredAs(v, o, info, res)
           twice2 == IF info.id = NewIdentity /\ v.obj[o].id # NewIdentity
                     THEN twice \cup {o} ELSE twice
<1>1. /\ t \in Objects /\ OnlyOf(v, t, o)
      /\ t.obj[o].st = v.obj[o].st /\ t.obj[o].listed = v.obj[o].listed
      /\ t.obj[o].watched = v.obj[o].watched /\ t.obj[o].auto = v.obj[o].auto
      /\ id \in 0..MaxId /\ t.obj[o].id = id
      /\ res.err \/ ~v.obj[o].watched => t.byId = v.byId
      /\ ~res.err /\ v.obj[o].watched => Entered(v, t, id, o)
  BY ObjectStored
<1>2. Lists(v) /\ Connected(v) /\ Table(v, twice, next) /\ Keeps(v, cs)
  BY DEF Good
<1>3. Exist(v, o) /\ v.obj[o].watched
  BY <1>2 DEF Exist, Connected
<1>4. /\ v.obj[o].id # NewIdentity => v.byId[v.obj[o].id] = o
      /\ v.obj[o].id < next
      /\ \A x \in Object : Exist(v, x) /\ v.obj[x].watched => v.obj[x].id < next
      /\ \A x \in Object : v.obj[x].id \in 0..MaxId
  BY <1>2, <1>3, ObjectFields DEF Table, Found, Before
<1>5. \/ id = v.obj[o].id
      \/ id = NewIdentity
      \/ id = next /\ next2 = id + 1 /\ ~res.err
  BY DEF StoredAs
<1>6. o \in twice2 \/ v.obj[o].id \in {NewIdentity, id}
  BY DEF StoredAs
<1>7. twice2 \subseteq twice \cup {o} /\ twice \subseteq twice2
  OBVIOUS
<1> HIDE DEF t, id, twice2
<1>8. id < next2
  <2>1. v.obj[o].id < next2
    BY <1>4
  <2>2. id = NewIdentity => id < next2
    BY <1>4, <2>1 DEF NewIdentity
  <2>3. QED BY <1>5, <2>1, <2>2
<1>9. \A i \in Id : \/ i = id /\ t.byId[i] = o
                    \/ i # id /\ t.byId[i] = v.byId[i]
  <2> SUFFICES ASSUME NEW i \in Id
               PROVE  \/ i = id /\ t.byId[i] = o
                      \/ i # id /\ t.byId[i] = v.byId[i]
    OBVIOUS
  <2>1. i \in 0..MaxId /\ i # NewIdentity
    BY MaxIdAssumption DEF Id, NewIdentity
  <2>2. CASE ~res.err
    BY <1>1, <1>3, <2>1, <2>2 DEF Entered
  <2>3. CASE res.err
    BY <1>1, <1>4, <1>5, <2>1, <2>3
  <2>4. QED BY <2>2, <2>3
<1>10. \A x \in Object \ {o} : Exist(v, x) /\ v.obj[x].watched /\ v.obj[x].id # NewIdentity
                                => v.obj[x].id # id /\ v.byId[v.obj[x].id] = x
  <2> SUFFICES ASSUME NEW x \in Object \ {o}, Exist(v, x), v.obj[x].watched,
                      v.obj[x].id # NewIdentity
               PROVE  v.obj[x].id # id /\ v.byId[v.obj[x].id] = x
    OBVIOUS
  <2>1. v.byId[v.obj[x].id] = x /\ v.obj[x].id < next
    BY <1>2, <1>4 DEF Table, Found
  <2>2. id = v.obj[o].id => v.obj[x].id # id
    BY <1>4, <2>1
  <2>3. id = next => v.obj[x].id # id
    BY <1>4, <2>1
  <2>4. QED BY <1>5, <2>1, <2>2, <2>3
<1>11. \A x \in Object :
         /\ t.obj[x].st = v.obj[x].st /\ t.obj[x].listed = v.obj[x].listed
         /\ t.obj[x].watched = v.obj[x].watched /\ t.obj[x].auto = v.obj[x].auto
         /\ x # o => t.obj[x].id = v.obj[x].id
  BY <1>1 DEF OnlyOf, SameLife
<1>12. \A x \in Object : Exist(t, x) <=> Exist(v, x)
  BY <1>11 DEF Exist
<1>13. Lists(t)
  BY <1>2, <1>11, <1>12 DEF Lists
<1>14. Connected(t)
  BY <1>2, <1>11 DEF Connected
<1>15. Named(t, twice2)
  <2> SUFFICES ASSUME NEW i \in Id, t.byId[i] # NoObject, t.byId[i] \notin twice2
               PROVE  /\ t.byId[i] \in Object /\ Exist(t, t.byId[i])
                      /\ t.obj[t.byId[i]].id = i /\ t.obj[t.byId[i]].watched
    BY DEF Named
  <2>1. CASE i = id /\ t.byId[i] = o
    BY <1>1, <1>3, <1>11, <1>12, <2>1
  <2>2. CASE i # id /\ t.byId[i] = v.byId[i]
    <3>1. /\ v.byId[i] \in Object /\ Exist(v, v.byId[i])
          /\ v.obj[v.byId[i]].id = i /\ v.obj[v.byId[i]].watched
      BY <1>2, <1>7, <2>2 DEF Table, Named
    <3>2. v.byId[i] # o
      BY <1>6, <2>2, <3>1 DEF Id, NewIdentity
    <3>3. QED BY <1>11, <1>12, <2>2, <3>1, <3>2
  <2>3. QED BY <1>9, <2>1, <2>2
<1>16. Found(t)
  <2> SUFFICES ASSUME NEW x \in Object, Exist(t, x), t.obj[x].watched,
                      t.obj[x].id # NewIdentity
               PROVE  t.byId[t.obj[x].id] = x
    BY DEF Found
  <2>1. t.obj[x].id \in Id
    BY <1>1, ObjectFields DEF Id, NewIdentity
  <2>2. CASE x = o
    BY <1>1, <1>9, <2>1, <2>2
  <2>3. CASE x # o
    <3>1. v.obj[x].id # id /\ v.byId[v.obj[x].id] = x
      BY <1>10, <1>11, <1>12, <2>3
    <3>2. QED BY <1>9, <1>11, <2>1, <2>3, <3>1
  <2>4. QED BY <2>2, <2>3
<1>17. Twice(t, twice2)
  BY <1>2, <1>3, <1>7, <1>11, <1>12 DEF Table, Twice, Exist
<1>18. Before(t, next2)
  <2> SUFFICES ASSUME NEW x \in Object, Exist(t, x), t.obj[x].watched
               PROVE  t.obj[x].id < next2
    BY DEF Before
  <2>1. CASE x = o
    BY <1>1, <1>8, <2>1
  <2>2. CASE x # o
    <3>1. v.obj[x].id < next /\ v.obj[x].id \in Nat
      BY <1>4, <1>11, <1>12
    <3>2. QED BY <1>11, <2>2, <3>1
  <2>3. QED BY <2>1, <2>2
<1>19. \A c \in Call : cs[c] # NoCall => cs[c].o \in Object
  BY DEF Calls, Waiting
<1>20. Keeps(t, cs)
  BY <1>2, <1>11, <1>19 DEF Keeps
<1>21. QED BY <1>1, <1>13, <1>14, <1>15, <1>16, <1>17, <1>18, <1>20 DEF Table, Good, t, twice2

\* The numbers only grow.
LEMMA LaterGood ==
    ASSUME NEW v \in Objects, NEW cs, NEW twice \in SUBSET Object,
           NEW next \in Nat, NEW next2 \in Nat, next <= next2, Good(v, cs, twice, next)
    PROVE  Good(v, cs, twice, next2)
<1>1. \A o \in Object : v.obj[o].id \in Nat
  BY ObjectFields, MaxIdAssumption
<1>2. Before(v, next) => Before(v, next2)
  BY <1>1 DEF Before
<1>3. QED BY <1>2 DEF Good, Table

\* A call starts to wait for signon-ui: its object is kept.
LEMMA WaitingGood ==
    ASSUME NEW v \in Objects, NEW cs, Calls(cs), NEW twice \in SUBSET Object, NEW next,
           Good(v, cs, twice, next),
           NEW o \in Object, v.obj[o].st = "alive", NEW cs2,
           \A c \in Call : cs2[c] = cs[c] \/ cs2[c].o = o
    PROVE  LET t == SetAutoDestruct(v, o, FALSE)
           IN  t \in Objects /\ Good(t, cs2, twice, next)
<1> DEFINE t == SetAutoDestruct(v, o, FALSE)
<1>1. /\ t \in Objects /\ SameLives(v, t)
      /\ ~t.obj[o].auto
      /\ \A x \in Object \ {o} : t.obj[x].auto = v.obj[x].auto
  BY AutoSet
<1> HIDE DEF t
<1>2. Lists(t) /\ Connected(t) /\ Table(t, twice, next)
  BY <1>1, SameLivesKeep DEF Good
<1>3. \A c \in Call : cs[c] # NoCall => cs[c].o \in Object
  BY DEF Calls, Waiting
<1>4. Keeps(t, cs2)
  <2> SUFFICES ASSUME NEW c \in Call, cs2[c] # NoCall, ~cs2[c].over
               PROVE  t.obj[cs2[c].o].st = "alive" /\ t.obj[cs2[c].o].auto = FALSE
    BY DEF Keeps
  <2>1. \A x \in Object : t.obj[x].st = v.obj[x].st
    BY <1>1 DEF SameLives, SameLife
  <2>2. CASE cs2[c].o = o
    <3>1. t.obj[o].st = "alive" /\ t.obj[o].auto \in BOOLEAN
      BY <1>1, <2>1, ObjectFields
    <3>2. QED BY <1>1, <2>2, <3>1
  <2>3. CASE cs2[c] = cs[c] /\ cs[c].o # o
    <3>1. v.obj[cs[c].o].st = "alive" /\ v.obj[cs[c].o].auto = FALSE /\ cs[c].o \in Object
      BY <1>3, <2>3 DEF Good, Keeps
    <3>2. QED BY <1>1, <2>1, <2>3, <3>1
  <2>4. QED BY <2>2, <2>3
<1>5. QED BY <1>1, <1>2, <1>4 DEF Good, t

\* A call ends: the others of its object do not keep it any more.
LEMMA EndedGood ==
    ASSUME NEW v \in Objects, NEW cs, Calls(cs), NEW twice \in SUBSET Object, NEW next,
           Good(v, cs, twice, next), NEW o \in Object, NEW cs2, Leaves(cs, cs2, o)
    PROVE  LET t == SetAutoDestruct(v, o, TRUE)
           IN  t \in Objects /\ Good(t, cs2, twice, next)
<1> DEFINE t == SetAutoDestruct(v, o, TRUE)
<1>1. /\ t \in Objects /\ SameLives(v, t)
      /\ \A x \in Object \ {o} : t.obj[x].auto = v.obj[x].auto
  BY AutoSet
<1> HIDE DEF t
<1>2. Lists(t) /\ Connected(t) /\ Table(t, twice, next)
  BY <1>1, SameLivesKeep DEF Good
<1>3. \A c \in Call : cs[c] # NoCall => cs[c].o \in Object
  BY DEF Calls, Waiting
<1>4. \A x \in Object : t.obj[x].st = v.obj[x].st
  BY <1>1 DEF SameLives, SameLife
<1>5. Keeps(t, cs2)
  BY <1>1, <1>3, <1>4 DEF Good, Keeps, Leaves
<1>6. QED BY <1>1, <1>2, <1>5 DEF Good, t
-----------------------------------------------------------------------------
(* The parts of the actions *)

WaitingCalls == [Call -> Waiting \cup {NoCall}]

\* What the invariant says of a state, by the parts of it that an action changes.
Holds(db, v, cs, twice) ==
    /\ Sound(db)
    /\ cs \in WaitingCalls
    /\ Good(v, cs, twice, db.meta.nextId)

LEMMA Invariant ==
    ASSUME IInv
    PROVE  /\ Holds(s, r, calls, anew)
           /\ s \in State /\ up \in BOOLEAN /\ r \in Objects
           /\ asking \in SUBSET (Peer \X Id)
           /\ dirty \in SUBSET Object /\ anew \in SUBSET Object
           /\ Calls(calls)
           /\ s.meta.nextId \in Nat /\ NewIdentity < s.meta.nextId
<1>1. /\ TypeOK /\ Sound(s) /\ Good(r, calls, anew, s.meta.nextId)
      /\ s \in State /\ calls \in WaitingCalls
  BY DEF IInv, TypeOK, WaitingCalls
<1>2. Calls(calls)
  BY <1>1 DEF Calls, WaitingCalls
<1>3. s.meta.nextId \in 1..MaxId + 1
  BY <1>1 DEF State, Tables
<1>4. s.meta.nextId \in Nat /\ NewIdentity < s.meta.nextId
  BY <1>3, MaxIdAssumption DEF NewIdentity
<1>5. QED BY <1>1, <1>2, <1>4 DEF TypeOK, Holds

\* Objects that are Good have no free one among those stored as new twice, so
\* that none is forgotten.
LEMMA NoneForgotten ==
    ASSUME IInv, NEW t, NEW cs, NEW next, Good(t, cs, anew, next), Forget(t)
    PROVE  anew' = anew /\ dirty' \in SUBSET Object
BY Invariant DEF Forget, Good, Table, Twice

LEMMA Concluded ==
    ASSUME IInv, Holds(s', r', calls', anew), up' \in BOOLEAN,
           asking' \in SUBSET (Peer \X Id), Forget(r')
    PROVE  IInv'
<1>1. /\ Sound(s') /\ calls' \in WaitingCalls
      /\ Good(r', calls', anew, s'.meta.nextId)
  BY DEF Holds
<1>2. anew' = anew /\ dirty' \in SUBSET Object
  BY <1>1, NoneForgotten
<1>3. s' \in State /\ r' \in Objects
  BY <1>1 DEF Sound, Good
<1>4. TypeOK'
  BY <1>1, <1>2, <1>3, Invariant DEF TypeOK, WaitingCalls
<1>5. QED BY <1>1, <1>2, <1>4 DEF IInv

\* The calls when one has ended.
LEMMA CallsEnded ==
    ASSUME IInv, NEW c \in Call, calls[c] # NoCall
    PROVE  /\ Ended(c) \in WaitingCalls /\ Leaves(calls, Ended(c), calls[c].o)
           /\ calls[c] \in Waiting /\ calls[c].o \in Object
<1> DEFINE o == calls[c].o
           one(x) == IF x = c THEN NoCall
                     ELSE IF x \in Waits(o) THEN [calls[x] EXCEPT !.over = TRUE] ELSE calls[x]
<1>1. \A x \in Call : calls[x] # NoCall => calls[x] \in Waiting
  BY Invariant DEF Calls
<1>2. ASSUME NEW x \in Call
      PROVE  /\ one(x) \in Waiting \cup {NoCall}
             /\ one(x) # NoCall /\ ~one(x).over
                  => /\ calls[x] # NoCall /\ ~calls[x].over
                     /\ one(x).o = calls[x].o /\ calls[x].o # o
  <2>1. CASE x = c
    BY <2>1
  <2>2. CASE x # c /\ x \in Waits(o)
    <3>1. calls[x] \in Waiting
      BY <1>1, <2>2 DEF Waits
    <3>2. [calls[x] EXCEPT !.over = TRUE] \in Waiting
          /\ [calls[x] EXCEPT !.over = TRUE].over
      BY <3>1 DEF Waiting
    <3>3. QED BY <2>2, <3>2
  <2>3. CASE x # c /\ x \notin Waits(o)
    <3>1. calls[x] # NoCall => calls[x].o # o
      BY <2>3 DEF Waits
    <3>2. one(x) = calls[x]
      BY <2>3
    <3> HIDE DEF one, o
    <3>3. QED BY <1>1, <3>1, <3>2
  <2>4. QED BY <2>1, <2>2, <2>3
<1>3. Ended(c) = [x \in Call |-> one(x)]
  BY DEF Ended
<1>4. calls[c] \in Waiting /\ o \in Object
  BY <1>1 DEF Waiting
<1> HIDE DEF one, o
<1>5. QED BY <1>2, <1>3, <1>4 DEF WaitingCalls, Leaves, o

\* ... and when their object is destroyed, or deleted.
Overtaken(o) == [c \in Call |-> IF c \in Waits(o) THEN [calls[c] EXCEPT !.over = TRUE]
                                ELSE calls[c]]

LEMMA CallsOvertaken ==
    ASSUME IInv, NEW o \in Object
    PROVE  Overtaken(o) \in WaitingCalls /\ Leaves(calls, Overtaken(o), o)
<1> DEFINE one(x) == IF x \in Waits(o) THEN [calls[x] EXCEPT !.over = TRUE] ELSE calls[x]
<1>1. \A x \in Call : calls[x] # NoCall => calls[x] \in Waiting
  BY Invariant DEF Calls
<1>2. ASSUME NEW x \in Call
      PROVE  /\ one(x) \in Waiting \cup {NoCall}
             /\ one(x) # NoCall /\ ~one(x).over
                  => /\ calls[x] # NoCall /\ ~calls[x].over
                     /\ one(x).o = calls[x].o /\ calls[x].o # o
  <2>1. CASE x \in Waits(o)
    <3>1. calls[x] \in Waiting
      BY <1>1, <2>1 DEF Waits
    <3>2. [calls[x] EXCEPT !.over = TRUE] \in Waiting
          /\ [calls[x] EXCEPT !.over = TRUE].over
      BY <3>1 DEF Waiting
    <3>3. QED BY <2>1, <3>2
  <2>2. CASE x \notin Waits(o)
    <3>1. calls[x] # NoCall => calls[x].o # o
      BY <2>2 DEF Waits
    <3>2. one(x) = calls[x]
      BY <2>2
    <3> HIDE DEF one
    <3>3. QED BY <1>1, <3>1, <3>2
  <2>3. QED BY <2>1, <2>2
<1>3. Overtaken(o) = [x \in Call |-> one(x)]
  BY DEF Overtaken
<1> HIDE DEF one
<1>4. QED BY <1>2, <1>3 DEF WaitingCalls, Leaves

LEMMA CallsGone ==
    ASSUME IInv, NEW o \in Object
    PROVE  LET cs == [c \in Call |-> IF c \in Waits(o) THEN NoCall ELSE calls[c]]
           IN  cs \in WaitingCalls /\ Leaves(calls, cs, o)
<1> DEFINE cs == [c \in Call |-> IF c \in Waits(o) THEN NoCall ELSE calls[c]]
<1>1. \A x \in Call : calls[x] # NoCall => calls[x] \in Waiting
  BY Invariant DEF Calls
<1>2. \A x \in Call : /\ x \in Waits(o) => cs[x] = NoCall
                      /\ x \notin Waits(o) => cs[x] = calls[x]
  OBVIOUS
<1>3. \A x \in Call : cs[x] \in Waiting \cup {NoCall}
  BY <1>1, <1>2
<1>4. cs \in WaitingCalls
  BY <1>3 DEF WaitingCalls
<1> HIDE DEF cs
<1>5. \A x \in Call : cs[x] # NoCall => cs[x] = calls[x] /\ calls[x].o # o
  BY <1>2 DEF Waits
<1>6. QED BY <1>4, <1>5 DEF Leaves, cs

\* A call that starts to wait for signon-ui.
LEMMA StartsToWait ==
    ASSUME IInv, NEW db, Sound(db), NEW v, Good(v, calls, anew, db.meta.nextId),
           NEW o \in Object, v.obj[o].st = "alive", NEW c \in Call, NEW kind,
           NEW retries \in 0..MaxRetries, WaitForUi(o, c, kind, retries, v)
    PROVE  Holds(db, r', calls', anew) /\ Forget(r')
<1> DEFINE new == [kind |-> kind, o |-> o, retries |-> retries, over |-> FALSE]
<1>1. new \in Waiting /\ new.o = o
  BY DEF Waiting, WaitForUi
<1>2. /\ r' = SetAutoDestruct(v, o, FALSE) /\ calls' = [calls EXCEPT ![c] = new]
      /\ Forget(r')
  BY DEF WaitForUi
<1> HIDE DEF new
<1>3. /\ calls \in WaitingCalls /\ Calls(calls) /\ anew \in SUBSET Object
  BY Invariant DEF Holds
<1>4. v \in Objects
  BY DEF Good
<1>5. /\ calls' \in WaitingCalls
      /\ \A d \in Call : calls'[d] = calls[d] \/ calls'[d].o = o
  BY <1>1, <1>2, <1>3 DEF WaitingCalls
<1>6. LET t == SetAutoDestruct(v, o, FALSE)
      IN  t \in Objects /\ Good(t, calls', anew, db.meta.nextId)
  BY <1>3, <1>4, <1>5, WaitingGood
<1>7. QED BY <1>2, <1>5, <1>6 DEF Holds

\* An object's copy is looked at, and the object maybe used.
LEMMA QueriedGood ==
    ASSUME IInv, NEW o \in Object, NEW query \in BOOLEAN, NEW f
    PROVE  LET t == QueryInfo(s, r, o, query, f).st
           IN  /\ t \in Objects /\ Good(t, calls, anew, s.meta.nextId)
               /\ t.obj[o].st = r.obj[o].st
               /\ KeepInUse(t, o) \in Objects
               /\ Good(KeepInUse(t, o), calls, anew, s.meta.nextId)
<1> DEFINE t == QueryInfo(s, r, o, query, f).st
<1>1. /\ s \in State /\ r \in Objects /\ Calls(calls) /\ anew \in SUBSET Object
      /\ Good(r, calls, anew, s.meta.nextId)
  BY Invariant DEF Holds
<1>2. t \in Objects /\ SameLives(r, t) /\ SameFlags(r, t)
  BY <1>1, InfoQueried
<1> HIDE DEF t
<1>3. Good(t, calls, anew, s.meta.nextId)
  BY <1>1, <1>2, SameLivesGood
<1> DEFINE k == KeepInUse(t, o)
<1>4. k \in Objects /\ SameLives(t, k) /\ SameFlags(t, k)
  BY <1>2, KeptInUse
<1> HIDE DEF k
<1>5. Good(k, calls, anew, s.meta.nextId)
  BY <1>1, <1>2, <1>3, <1>4, SameLivesGood
<1>6. QED BY <1>2, <1>3, <1>4, <1>5 DEF SameLives, SameLife, t, k

\* No objects are Good, whatever the numbers.
LEMMA NoObjectsGood ==
    ASSUME NEW cs, \A c \in Call : cs[c] = NoCall, NEW next
    PROVE  Good(NoObjects, cs, {}, next)
<1>1. /\ \A o \in Object : /\ NoObjects.obj[o].st = "free" /\ ~NoObjects.obj[o].listed
      /\ \A i \in 0..MaxId : NoObjects.byId[i] = NoObject
  BY DEF NoObjects, FreeObject
<1>2. NoObjects \in Objects
  BY NoObjectsTyped
<1>3. Lists(NoObjects) /\ Connected(NoObjects)
  BY <1>1 DEF Lists, Connected, Exist
<1>4. Id \subseteq 0..MaxId
  BY MaxIdAssumption DEF Id
<1>5. Named(NoObjects, {})
  BY <1>1, <1>4 DEF Named
<1>6. Found(NoObjects) /\ Twice(NoObjects, {}) /\ Before(NoObjects, next)
  BY <1>1 DEF Found, Twice, Before, Exist
<1>7. Keeps(NoObjects, cs)
  BY DEF Keeps
<1>8. QED BY <1>2, <1>3, <1>5, <1>6, <1>7 DEF Good, Table
-----------------------------------------------------------------------------
(* The actions *)

LEMMA RegisterStep ==
    ASSUME IInv, NEW o \in Object, RegisterNewIdentity(o)
    PROVE  IInv'
<1> DEFINE next == s.meta.nextId
           new == Create(r, o, NewIdentity)
           seen == WatchIdentity(new, o)
           t == DestroyUnused(seen)
<1>1. /\ r.obj[o].st = "free" /\ r' = t /\ Forget(r')
      /\ s' = s /\ up' = up /\ calls' = calls /\ asking' = asking
  BY DEF RegisterNewIdentity
<1>2. /\ r \in Objects /\ Calls(calls) /\ anew \in SUBSET Object
      /\ Sound(s) /\ calls \in WaitingCalls /\ Good(r, calls, anew, next)
      /\ up \in BOOLEAN /\ asking \in SUBSET (Peer \X Id) /\ NewIdentity < next
  BY Invariant DEF Holds
<1>3. NewIdentity \in 0..MaxId
  BY MaxIdAssumption DEF NewIdentity
<1> HIDE DEF next
<1>4. /\ new \in Objects /\ Lists(new) /\ Table(new, anew, next) /\ Keeps(new, calls)
      /\ \A x \in Object \ {o} : new.obj[x].st = "alive" => new.obj[x].watched
      /\ New(new, o, NewIdentity)
  BY <1>1, <1>2, <1>3, CreatedKeeps
<1> HIDE DEF new
<1>5. Exist(new, o) /\ new.obj[o].id = NewIdentity
  BY <1>4 DEF New, Exist
<1>6. seen \in Objects /\ Good(seen, calls, anew, next)
  BY <1>2, <1>4, <1>5, WatchedGood
<1> HIDE DEF seen
<1>7. t \in Objects /\ Swept(seen, t)
  BY <1>6, UnusedDestroyed
<1> HIDE DEF t
<1>8. Good(t, calls, anew, next)
  BY <1>2, <1>6, <1>7, SweptGood
<1>9. Holds(s', r', calls', anew)
  BY <1>1, <1>2, <1>8 DEF Holds, next
<1>10. QED BY <1>1, <1>2, <1>9, Concluded

\* getIdentity(): the object that is found, or made, is named by the identity's
\* entry only, and has been asked whether the identity is there.
LEMMA ObjectGot ==
    ASSUME IInv, NEW o \in Object, NEW id \in Id, NEW f, GetIdentity(o, id, f)
    PROVE  LET had == IF r.byId[id] = NoObject THEN Create(r, o, id) ELSE r
               got == QueryInfo(s, had, o, FALSE, f)
               t == got.st
           IN  /\ t \in Objects
               /\ Lists(t) /\ Table(t, anew, s.meta.nextId) /\ Keeps(t, calls)
               /\ \A x \in Object \ {o} : t.obj[x].st = "alive" => t.obj[x].watched
               /\ Exist(t, o)
               /\ t.obj[o].id # NewIdentity => t.byId[t.obj[o].id] \in {NoObject, o}
               /\ got.info.id # NewIdentity => t.obj[o].id < s.meta.nextId
<1> DEFINE next == s.meta.nextId
           had == IF r.byId[id] = NoObject THEN Create(r, o, id) ELSE r
           got == QueryInfo(s, had, o, FALSE, f)
           t == got.st
           Fits(v) == /\ v \in Objects /\ Lists(v) /\ Table(v, anew, next) /\ Keeps(v, calls)
                      /\ \A x \in Object \ {o} : v.obj[x].st = "alive" => v.obj[x].watched
                      /\ Exist(v, o)
                      /\ v.obj[o].id # NewIdentity => v.byId[v.obj[o].id] \in {NoObject, o}
<1>1. /\ s \in State /\ r \in Objects /\ Calls(calls) /\ anew \in SUBSET Object
      /\ Sound(s) /\ Good(r, calls, anew, next)
  BY Invariant DEF Holds
<1>2. id \in 0..MaxId /\ id # NewIdentity
  BY MaxIdAssumption DEF Id, NewIdentity
<1>3. IF r.byId[id] = NoObject THEN r.obj[o].st = "free"
      ELSE o = r.byId[id] /\ r.obj[o].st # "deleted"
  BY DEF GetIdentity
<1> HIDE DEF next
<1>4. Fits(had) /\ (had.obj[o].info # NoCache => had.obj[o].id < next)
  <2>1. CASE r.byId[id] = NoObject
    <3> DEFINE new == Create(r, o, id)
    <3>1. /\ new \in Objects /\ Lists(new) /\ Table(new, anew, next) /\ Keeps(new, calls)
          /\ \A x \in Object \ {o} : new.obj[x].st = "alive" => new.obj[x].watched
          /\ New(new, o, id) /\ new.byId = r.byId
      BY <1>1, <1>2, <1>3, <2>1, CreatedKeeps
    <3>2. had = new
      BY <2>1
    <3> HIDE DEF new, had
    <3>3. QED BY <2>1, <3>1, <3>2 DEF New, Exist
  <2>2. CASE r.byId[id] # NoObject
    <3>1. had = r
      BY <2>2
    <3>2. Lists(r) /\ Connected(r) /\ Table(r, anew, next) /\ Keeps(r, calls)
      BY <1>1 DEF Good
    <3>3. Exist(r, o)
      <4>1. CASE o \in anew
        <5>1. r.obj[o].st # "free"
          BY <3>2, <4>1 DEF Table, Twice
        <5>2. QED BY <1>1, <1>3, <2>2, <5>1, ObjectFields DEF Exist
      <4>2. CASE o \notin anew
        BY <1>3, <2>2, <3>2, <4>2 DEF Table, Named
      <4>3. QED BY <4>1, <4>2
    <3>4. r.obj[o].watched
      BY <1>3, <2>2, <3>2, <3>3 DEF Table, Named, Twice
    <3>5. /\ r.obj[o].id # NewIdentity => r.byId[r.obj[o].id] = o
          /\ r.obj[o].id < next
      BY <3>2, <3>3, <3>4 DEF Table, Found, Before
    <3> HIDE DEF had
    <3>6. QED BY <1>1, <3>1, <3>2, <3>3, <3>5 DEF Connected
  <2>3. QED BY <2>1, <2>2
<1> HIDE DEF had
<1>5. /\ t \in Objects /\ SameLives(had, t) /\ SameFlags(had, t)
      /\ had.obj[o].info = NoCache /\ got.info.id # NewIdentity
           => Exists(s.meta, had.obj[o].id)
  BY <1>1, <1>4, InfoQueried
<1> HIDE DEF got
<1>6. /\ t.byId = had.byId
      /\ \A x \in Object : /\ t.obj[x].st = had.obj[x].st
                           /\ t.obj[x].id = had.obj[x].id
                           /\ t.obj[x].watched = had.obj[x].watched
                           /\ t.obj[x].auto = had.obj[x].auto
  BY <1>5 DEF SameLives, SameLife, SameFlags
<1>7. Lists(t) /\ Table(t, anew, next)
  BY <1>1, <1>4, <1>5, SameLivesKeep
<1>8. \A c \in Call : calls[c] # NoCall => calls[c].o \in Object
  BY <1>1 DEF Calls, Waiting
<1>9. Keeps(t, calls)
  BY <1>4, <1>6, <1>8 DEF Keeps
<1>10. /\ \A x \in Object \ {o} : t.obj[x].st = "alive" => t.obj[x].watched
       /\ Exist(t, o)
       /\ t.obj[o].id # NewIdentity => t.byId[t.obj[o].id] \in {NoObject, o}
  BY <1>4, <1>6 DEF Exist
<1>11. Exists(s.meta, had.obj[o].id) => had.obj[o].id < next
  BY <1>1 DEF Sound, Coherent, Exists, next
<1>12. got.info.id # NewIdentity => t.obj[o].id < next
  BY <1>4, <1>5, <1>6, <1>11
<1>13. QED BY <1>5, <1>7, <1>9, <1>10, <1>12 DEF got, had, next

LEMMA GetStep ==
    ASSUME IInv, NEW o \in Object, NEW id \in Id, NEW f, GetIdentity(o, id, f)
    PROVE  Holds(s, r', calls', anew) /\ Forget(r')
<1> DEFINE next == s.meta.nextId
           had == IF r.byId[id] = NoObject THEN Create(r, o, id) ELSE r
           got == QueryInfo(s, had, o, FALSE, f)
           t == got.st
           seen == WatchIdentity(t, o)
           kept == KeepInUse(seen, o)
           last == DestroyUnused(kept)
<1>1. /\ Calls(calls) /\ anew \in SUBSET Object /\ Sound(s) /\ calls \in WaitingCalls
  BY Invariant DEF Holds
<1>2. /\ t \in Objects
      /\ Lists(t) /\ Table(t, anew, next) /\ Keeps(t, calls)
      /\ \A x \in Object \ {o} : t.obj[x].st = "alive" => t.obj[x].watched
      /\ Exist(t, o)
      /\ t.obj[o].id # NewIdentity => t.byId[t.obj[o].id] \in {NoObject, o}
      /\ got.info.id # NewIdentity => t.obj[o].id < next
  BY ObjectGot
<1>3. /\ Forget(r')
      /\ got.info.id = NewIdentity => r' = Destroy(t, o) /\ calls' = Overtaken(o)
      /\ got.info.id # NewIdentity => r' = last /\ calls' = calls
  BY DEF GetIdentity, Overtaken
<1> HIDE DEF next, had, got
<1>4. CASE got.info.id = NewIdentity
  <2>1. Overtaken(o) \in WaitingCalls /\ Leaves(calls, Overtaken(o), o)
    BY CallsOvertaken
  <2>2. LET x == Destroy(t, o)
        IN  x \in Objects /\ Good(x, Overtaken(o), anew, next)
    BY <1>1, <1>2, <2>1, DestroyedGood
  <2>3. QED BY <1>1, <1>3, <1>4, <2>1, <2>2 DEF Holds, next
<1>5. CASE got.info.id # NewIdentity
  <2>1. seen \in Objects /\ Good(seen, calls, anew, next)
    BY <1>1, <1>2, <1>5, WatchedGood
  <2> HIDE DEF seen
  <2>2. kept \in Objects /\ SameLives(seen, kept) /\ SameFlags(seen, kept)
    BY <2>1, KeptInUse
  <2> HIDE DEF kept
  <2>3. Good(kept, calls, anew, next)
    BY <1>1, <2>1, <2>2, SameLivesGood
  <2>4. last \in Objects /\ Swept(kept, last)
    BY <2>2, UnusedDestroyed
  <2> HIDE DEF last
  <2>5. Good(last, calls, anew, next)
    BY <1>1, <2>2, <2>3, <2>4, SweptGood
  <2>6. QED BY <1>1, <1>3, <1>5, <2>5 DEF Holds, next
<1>6. QED BY <1>4, <1>5

LEMMA AccessStep ==
    ASSUME IInv, NEW peer \in Peer, NEW id \in Id,
           \/ AskAccess(peer, id)
           \/ AccessRefused(peer, id)
           \/ \E o \in Object, f \in SomeFaults :
                 GetAllowed(o, peer, id, f) \/ AccessAccepted(o, peer, id, f)
    PROVE  IInv'
<1>1. /\ up \in BOOLEAN /\ asking \in SUBSET (Peer \X Id) /\ <<peer, id>> \in Peer \X Id
      /\ Holds(s, r, calls, anew)
  BY Invariant
<1>2. CASE AskAccess(peer, id) \/ AccessRefused(peer, id)
  <2>1. /\ s' = s /\ up' = up /\ r' = r /\ calls' = calls /\ Forget(r)
        /\ asking' \in {asking \cup {<<peer, id>>}, asking \ {<<peer, id>>}}
    BY <1>2 DEF AskAccess, AccessRefused
  <2>2. asking' \in SUBSET (Peer \X Id)
    BY <1>1, <2>1
  <2>3. QED BY <1>1, <2>1, <2>2, Concluded
<1>3. CASE \E o \in Object, f \in SomeFaults :
              GetAllowed(o, peer, id, f) \/ AccessAccepted(o, peer, id, f)
  <2>1. PICK o \in Object, f \in SomeFaults :
           GetAllowed(o, peer, id, f) \/ AccessAccepted(o, peer, id, f)
    BY <1>3
  <2>2. /\ s' = s /\ up' = up /\ asking' \in {asking, asking \ {<<peer, id>>}}
        /\ GetIdentity(o, id, f)
    BY <2>1 DEF GetAllowed, AccessAccepted
  <2>3. Holds(s, r', calls', anew) /\ Forget(r')
    BY <2>2, GetStep
  <2>4. asking' \in SUBSET (Peer \X Id)
    BY <1>1, <2>2
  <2>5. QED BY <1>1, <2>2, <2>3, <2>4, Concluded
<1>4. QED BY <1>2, <1>3

LEMMA QueryStep ==
    ASSUME IInv, NEW o \in Object, NEW peer \in Peer, NEW f,
           \/ GetInfo(o, peer, f)
           \/ VerifySecret(o, peer, f)
           \/ \E c \in Call : RequestCredentialsUpdate(o, c, peer, f)
           \/ \E c \in Call, n \in 0..MaxRetries : VerifyUser(o, c, peer, n, f)
    PROVE  IInv'
<1> DEFINE t(query) == QueryInfo(s, r, o, query, f).st
           Kept(v) == v \in Objects /\ Good(v, calls, anew, s.meta.nextId)
<1>1. /\ up \in BOOLEAN /\ asking \in SUBSET (Peer \X Id)
      /\ Sound(s) /\ calls \in WaitingCalls
  BY Invariant DEF Holds
<1>2. \A query \in BOOLEAN : Kept(t(query)) /\ Kept(KeepInUse(t(query), o))
                             /\ t(query).obj[o].st = r.obj[o].st
  BY QueriedGood
<1>3. s' = s /\ up' = up /\ asking' = asking /\ r.obj[o].st = "alive"
  BY DEF GetInfo, VerifySecret, RequestCredentialsUpdate, VerifyUser, MayUse, Alive
<1>4. 0 \in 0..MaxRetries
  BY BoundsAssumption
<1>5. \E query \in BOOLEAN :
         \/ /\ r' \in {t(query), KeepInUse(t(query), o)}
            /\ calls' = calls /\ Forget(r')
         \/ \E c \in Call, n \in 0..MaxRetries, kind \in {"update", "verify"} :
               WaitForUi(o, c, kind, n, t(query))
  <2>1. CASE GetInfo(o, peer, f)
    BY <2>1 DEF GetInfo
  <2>2. CASE VerifySecret(o, peer, f)
    BY <2>2 DEF VerifySecret
  <2>3. CASE \E c \in Call : RequestCredentialsUpdate(o, c, peer, f)
    BY <1>4, <2>3 DEF RequestCredentialsUpdate
  <2>4. CASE \E c \in Call, n \in 0..MaxRetries : VerifyUser(o, c, peer, n, f)
    BY <2>4 DEF VerifyUser
  <2>5. QED BY <2>1, <2>2, <2>3, <2>4
<1> HIDE DEF t
<1>6. PICK query \in BOOLEAN :
         \/ /\ r' \in {t(query), KeepInUse(t(query), o)}
            /\ calls' = calls /\ Forget(r')
         \/ \E c \in Call, n \in 0..MaxRetries, kind \in {"update", "verify"} :
               WaitForUi(o, c, kind, n, t(query))
  BY <1>5
<1>7. Holds(s, r', calls', anew) /\ Forget(r')
  <2>1. CASE /\ r' \in {t(query), KeepInUse(t(query), o)}
             /\ calls' = calls /\ Forget(r')
    BY <1>1, <1>2, <2>1 DEF Holds
  <2>2. CASE \E c \in Call, n \in 0..MaxRetries, kind \in {"update", "verify"} :
                WaitForUi(o, c, kind, n, t(query))
    <3>1. PICK c \in Call, n \in 0..MaxRetries, kind \in {"update", "verify"} :
             WaitForUi(o, c, kind, n, t(query))
      BY <2>2
    <3>2. Good(t(query), calls, anew, s.meta.nextId) /\ t(query).obj[o].st = "alive"
      BY <1>2, <1>3
    <3>3. QED BY <1>1, <3>1, <3>2, StartsToWait
  <2>3. QED BY <1>6, <2>1, <2>2
<1>8. QED BY <1>1, <1>3, <1>7, Concluded

LEMMA RemoveStep ==
    ASSUME IInv, NEW o \in Object, NEW c \in Call, NEW peer \in Peer, NEW f \in SomeFaults,
           RemoveIdentityCall(o, c, peer, f)
    PROVE  IInv'
<1> DEFINE res == RemoveCredentials(s, r.obj[o].id, f)
<1>1. /\ r.obj[o].st = "alive"
      /\ s' = res.st /\ up' = up /\ asking' = asking
      /\ res.ok => WaitForUi(o, c, "remove", 0, r)
      /\ ~res.ok => /\ r' = r /\ calls' = calls /\ anew' = anew
                    /\ dirty' = IF r.obj[o].info = NoCache THEN dirty ELSE dirty \cup {o}
  BY DEF RemoveIdentityCall, Alive
<1>2. /\ r \in Objects /\ Sound(s) /\ calls \in WaitingCalls
      /\ Good(r, calls, anew, s.meta.nextId)
      /\ up \in BOOLEAN /\ asking \in SUBSET (Peer \X Id)
      /\ dirty \in SUBSET Object /\ anew \in SUBSET Object
  BY Invariant DEF Holds
<1>3. r.obj[o].id \in Id \/ r.obj[o].id = NewIdentity
  BY <1>2, ObjectFields, MaxIdAssumption DEF Id, NewIdentity
<1>4. Sound(res.st) /\ res.ok \in BOOLEAN /\ res.st.meta.nextId = s.meta.nextId
  BY <1>2, <1>3, StoreRemoved, NoneRemoved, NoCrash
<1> HIDE DEF res
<1>5. CASE res.ok
  <2>1. 0 \in 0..MaxRetries
    BY BoundsAssumption
  <2>2. Holds(res.st, r', calls', anew) /\ Forget(r')
    BY <1>1, <1>2, <1>4, <1>5, <2>1, StartsToWait
  <2>3. QED BY <1>1, <1>2, <2>2, Concluded
<1>6. CASE ~res.ok
  <2>1. /\ s' \in State /\ Sound(s') /\ Good(r', calls', anew', s'.meta.nextId)
    BY <1>1, <1>2, <1>4, <1>6 DEF Sound
  <2>2. dirty' \subseteq Object
    BY <1>1, <1>2, <1>6
  <2>3. TypeOK'
    BY <1>1, <1>2, <1>6, <2>1, <2>2 DEF TypeOK, WaitingCalls
  <2>4. QED BY <2>1, <2>3 DEF IInv
<1>7. QED BY <1>4, <1>5, <1>6

\* removeData(): the rows of plugin data go, and nothing else of the database.
LEMMA AllDataRemoved ==
    ASSUME NEW db \in State, NEW id, NEW f
    PROVE  LET t == RemoveData(db, id, Null, f).st
           IN  /\ t \in State /\ t.meta = db.meta
               /\ t.creds = db.creds /\ t.cache = db.cache /\ t.open = db.open
<1> DEFINE t == RemoveData(db, id, Null, f).st
<1>1. CASE id \in Id
  <2> DEFINE ns(m) == IF m = Null THEN MethodId ELSE {MethodIdOf(db.meta, m)}
             x(m) == RemoveData(db, id, m, f)
  <2> HIDE DEF ns
  <2>1. \A m \in Method \cup {Null} :
           /\ x(m).st \in State
           /\ \/ x(m).st = db
              \/ x(m).st.meta = db.meta /\ DataGone(db, x(m).st, id, ns(m))
    BY <1>1, DataRemoved DEF ns
  <2> HIDE DEF x
  <2>2. /\ x(Null).st \in State
        /\ \/ x(Null).st = db
           \/ x(Null).st.meta = db.meta /\ DataGone(db, x(Null).st, id, ns(Null))
    BY <2>1
  <2>3. x(Null).st = t
    BY DEF x
  <2> HIDE DEF t
  <2>4. /\ t \in State
        /\ \/ t = db
           \/ t.meta = db.meta /\ DataGone(db, t, id, ns(Null))
    BY <2>2, <2>3
  <2>5. QED BY <2>4 DEF DataGone, NothingStored, SameCache, t
<1>2. CASE id \notin Id
  BY <1>2 DEF RemoveData
<1>3. QED BY <1>1, <1>2

LEMMA SignOutStep ==
    ASSUME IInv, NEW o \in Object, NEW c \in Call, NEW peer \in Peer, NEW f,
           SignOut(o, c, peer, f)
    PROVE  IInv'
<1> DEFINE t == RemoveData(s, r.obj[o].id, Null, f).st
<1>1. /\ r.obj[o].st = "alive" /\ s' = t /\ up' = up /\ asking' = asking
      /\ WaitForUi(o, c, "signOut", 0, r)
  BY DEF SignOut, MayUse, Alive
<1>2. /\ r \in Objects /\ Sound(s) /\ s \in State /\ Good(r, calls, anew, s.meta.nextId)
      /\ up \in BOOLEAN /\ asking \in SUBSET (Peer \X Id)
  BY Invariant DEF Holds
<1>3. t \in State /\ t.meta = s.meta
  BY <1>2, AllDataRemoved
<1> HIDE DEF t
<1>4. Sound(t) /\ Good(r, calls, anew, t.meta.nextId)
  BY <1>2, <1>3 DEF Sound
<1>5. 0 \in 0..MaxRetries
  BY BoundsAssumption
<1>6. Holds(t, r', calls', anew) /\ Forget(r')
  BY <1>1, <1>4, <1>5, StartsToWait
<1>7. QED BY <1>1, <1>2, <1>6, Concluded

LEMMA StoreStep ==
    ASSUME IInv, NEW o \in Object, NEW peer \in Peer, NEW info \in Infos,
           NEW sent \in 0..MaxId, NEW f, Store(o, peer, info, sent, f)
    PROVE  IInv'
<1> DEFINE used == KeepInUse(r, o)
           new == InfoToStore(used, o, info, sent, peer)
           sentInfo == IF new.id = NewIdentity THEN [new EXCEPT !.id = NewIdentity] ELSE new
           upd == UpdateCredentials(s, sentInfo, f)
           res == StoreCredentials(s, used, o, new, f)
           twice == IF new.id = NewIdentity /\ r.obj[o].id # NewIdentity
                    THEN anew \cup {o} ELSE anew
           next == s.meta.nextId
<1>1. /\ r.obj[o].st = "alive"
      /\ new.id = NewIdentity => next \in Id
      /\ s' = res.s /\ r' = res.r
      /\ dirty' = {x \in dirty \cup (IF res.err THEN {o} ELSE {}) : r'.obj[x].info # NoCache}
      /\ anew' = twice
      /\ up' = up /\ calls' = calls /\ asking' = asking
  BY DEF Store, Alive
<1>2. /\ r \in Objects /\ Sound(s) /\ calls \in WaitingCalls /\ Calls(calls)
      /\ Good(r, calls, anew, next) /\ next \in Nat
      /\ up \in BOOLEAN /\ asking \in SUBSET (Peer \X Id)
      /\ dirty \in SUBSET Object /\ anew \in SUBSET Object
  BY Invariant DEF Holds
<1>3. used \in Objects /\ SameLives(r, used) /\ SameFlags(r, used)
  BY <1>2, KeptInUse
<1> HIDE DEF used
<1>4. Good(used, calls, anew, next)
  BY <1>2, <1>3, SameLivesGood
<1>5. used.obj[o].st = "alive" /\ used.obj[o].id = r.obj[o].id
  BY <1>1, <1>3 DEF SameLives, SameLife
<1>6. info \in Info
  BY InfosAssumption
<1>7. new \in Info
  BY <1>3, <1>6, StoredInfo
<1> HIDE DEF new
<1>8. NewIdentity \in 0..MaxId
  BY MaxIdAssumption DEF NewIdentity
<1>9. sentInfo \in Info /\ sentInfo.id = new.id
  BY <1>7, <1>8 DEF Info
<1>10. res = CredentialsStored(used, o, new, upd)
  BY DEF StoreCredentials, InsertCredentials
<1> HIDE DEF sentInfo, next
<1>11. /\ Sound(upd.st)
       /\ next <= upd.st.meta.nextId
       /\ upd.id \in 0..MaxId
       /\ new.id = NewIdentity /\ upd.id # NewIdentity =>
             /\ upd.id = next
             /\ upd.st.meta.nextId = upd.id + 1
  BY <1>1, <1>2, <1>9, StoreUpdated DEF next
<1> HIDE DEF upd
<1>12. upd.st.meta.nextId \in Nat
  <2>1. upd.st.meta.nextId \in 1..MaxId + 1
    BY <1>11 DEF Sound, State, Tables
  <2>2. QED BY <2>1, MaxIdAssumption
<1>13. LET t == CredentialsStored(used, o, new, upd).r
           twice2 == IF new.id = NewIdentity /\ used.obj[o].id # NewIdentity
                     THEN anew \cup {o} ELSE anew
       IN  t \in Objects /\ Good(t, calls, twice2, upd.st.meta.nextId)
  BY <1>2, <1>3, <1>4, <1>5, <1>7, <1>11, <1>12, StoredGood
<1>14. res.s = upd.st /\ res.r = CredentialsStored(used, o, new, upd).r
  BY <1>10 DEF CredentialsStored
<1> HIDE DEF res
<1>15. Sound(s') /\ Good(r', calls', anew', s'.meta.nextId)
  BY <1>1, <1>5, <1>11, <1>13, <1>14
<1>16. dirty' \subseteq Object /\ anew' \subseteq Object
  BY <1>1, <1>2
<1>17. s' \in State /\ r' \in Objects
  BY <1>15 DEF Sound, Good
<1>18. TypeOK'
  BY <1>1, <1>2, <1>16, <1>17 DEF TypeOK, WaitingCalls
<1>19. QED BY <1>15, <1>18 DEF IInv

\* The answers of signon-ui that end a call and store nothing.
LEMMA AnswerStep ==
    ASSUME IInv, NEW c \in Call, DialogFailed(c) \/ Completed(c)
    PROVE  IInv'
<1> DEFINE t == SetAutoDestruct(r, calls[c].o, TRUE)
<1>1. /\ calls[c] # NoCall /\ r' = t /\ calls' = Ended(c) /\ Forget(r')
      /\ s' = s /\ up' = up /\ asking' = asking
  BY DEF DialogFailed, Completed
<1>2. /\ r \in Objects /\ Sound(s) /\ Calls(calls) /\ anew \in SUBSET Object
      /\ Good(r, calls, anew, s.meta.nextId)
      /\ up \in BOOLEAN /\ asking \in SUBSET (Peer \X Id)
  BY Invariant DEF Holds
<1>3. /\ Ended(c) \in WaitingCalls /\ Leaves(calls, Ended(c), calls[c].o)
      /\ calls[c].o \in Object
  BY <1>1, CallsEnded
<1>4. t \in Objects /\ Good(t, Ended(c), anew, s.meta.nextId)
  BY <1>2, <1>3, EndedGood
<1> HIDE DEF t
<1>5. Holds(s', r', calls', anew)
  BY <1>1, <1>2, <1>3, <1>4 DEF Holds
<1>6. QED BY <1>1, <1>2, <1>5, Concluded

LEMMA VerifyAnswerStep ==
    ASSUME IInv, NEW c \in Call, NEW pass, VerifyUiSlot(c, pass)
    PROVE  IInv'
<1> DEFINE o == calls[c].o
           free == SetAutoDestruct(r, o, TRUE)
           again == /\ r.obj[o].info # NoCache
                    /\ r.obj[o].info.pass # pass
                    /\ calls[c].retries > 0
           kept == SetAutoDestruct(free, o, FALSE)
           dropped == [free EXCEPT !.obj[o].info = NoCache]
           next == s.meta.nextId
<1>1. /\ calls[c] # NoCall /\ Forget(r')
      /\ again => r' = kept /\ calls' = [calls EXCEPT ![c].retries = @ - 1]
      /\ ~again => r' = dropped /\ calls' = Ended(c)
      /\ s' = s /\ up' = up /\ asking' = asking
  BY DEF VerifyUiSlot, Answered
<1>2. /\ r \in Objects /\ Sound(s) /\ calls \in WaitingCalls
      /\ Calls(calls) /\ anew \in SUBSET Object
      /\ Good(r, calls, anew, next)
      /\ up \in BOOLEAN /\ asking \in SUBSET (Peer \X Id)
  BY Invariant DEF Holds
<1>3. /\ Ended(c) \in WaitingCalls /\ Leaves(calls, Ended(c), o)
      /\ calls[c] \in Waiting /\ o \in Object
  BY <1>1, CallsEnded
<1>4. Calls(Ended(c))
  BY <1>3 DEF Calls, WaitingCalls
<1>5. again => calls[c].retries \in 1..MaxRetries
  BY <1>3, BoundsAssumption DEF Waiting
<1> HIDE DEF o, again, next
<1>6. CASE ~again
  <2>1. free \in Objects /\ Good(free, Ended(c), anew, next)
    BY <1>2, <1>3, EndedGood
  <2> HIDE DEF free
  <2>2. dropped \in Objects /\ SameLives(free, dropped) /\ SameFlags(free, dropped)
    BY <1>3, <2>1, CopyReplaced
  <2> HIDE DEF dropped
  <2>3. Good(dropped, Ended(c), anew, next)
    BY <1>2, <1>4, <2>1, <2>2, SameLivesGood
  <2>4. QED BY <1>1, <1>2, <1>3, <1>6, <2>3, Concluded DEF Holds, next
<1>7. CASE again
  <2> DEFINE new == [calls[c] EXCEPT !.retries = @ - 1]
  <2>1. new \in Waiting /\ new.o = calls[c].o /\ new.over = calls[c].over
    BY <1>3, <1>5, <1>7, BoundsAssumption DEF Waiting
  <2>2. calls' = [calls EXCEPT ![c] = new]
    BY <1>1, <1>2, <1>7 DEF WaitingCalls
  <2> HIDE DEF new
  <2>3. calls' \in WaitingCalls
    BY <1>2, <2>1, <2>2 DEF WaitingCalls
  <2>4. \A x \in Call : calls'[x] # NoCall /\ ~calls'[x].over =>
                           calls[x] # NoCall /\ ~calls[x].over /\ calls'[x].o = calls[x].o
    BY <1>1, <1>2, <2>1, <2>2 DEF WaitingCalls
  <2>5. /\ free \in Objects /\ SameLives(r, free)
        /\ \A x \in Object \ {o} : free.obj[x].auto = r.obj[x].auto
    BY <1>2, <1>3, AutoSet
  <2> HIDE DEF free
  <2>6. /\ kept \in Objects /\ SameLives(free, kept)
        /\ ~kept.obj[o].auto
        /\ \A x \in Object \ {o} : kept.obj[x].auto = free.obj[x].auto
    BY <1>3, <2>5, AutoSet
  <2> HIDE DEF kept
  <2>7. SameLives(r, kept)
    BY <2>5, <2>6 DEF SameLives, SameLife
  <2>8. Lists(kept) /\ Connected(kept) /\ Table(kept, anew, next)
    BY <1>2, <2>6, <2>7, SameLivesKeep DEF Good
  <2>9. kept.obj[o].auto = FALSE
    BY <1>3, <2>6, ObjectFields
  <2>10. \A x \in Object : r.obj[x].auto = FALSE => kept.obj[x].auto = FALSE
    BY <2>5, <2>6, <2>9
  <2>11. \A x \in Object : kept.obj[x].st = r.obj[x].st
    BY <2>7 DEF SameLives, SameLife
  <2>12. \A x \in Call : calls[x] # NoCall => calls[x].o \in Object
    BY <1>2 DEF Calls, Waiting
  <2>13. Keeps(kept, calls')
    BY <1>2, <2>4, <2>10, <2>11, <2>12 DEF Good, Keeps
  <2>14. Good(kept, calls', anew, next)
    BY <2>6, <2>8, <2>13 DEF Good
  <2>15. QED BY <1>1, <1>2, <1>7, <2>3, <2>14, Concluded DEF Holds, next
<1>8. QED BY <1>6, <1>7

LEMMA QueryAnswerStep ==
    ASSUME IInv, NEW c \in Call, NEW pass \in Pass, NEW f, QueryUiSlot(c, pass, f)
    PROVE  IInv'
<1> DEFINE o == calls[c].o
           free == SetAutoDestruct(r, o, TRUE)
           info == [r.obj[o].info EXCEPT !.pass = pass, !.hasPass = TRUE]
           res == UpdateCredentials(s, info, f)
           heard == OnCredentialsUpdated(free, res.id)
           dropped == [heard EXCEPT !.obj[o].info = NoCache]
           next == s.meta.nextId
<1>1. /\ calls[c] # NoCall /\ calls' = Ended(c) /\ Forget(r')
      /\ up' = up /\ asking' = asking
      /\ r.obj[o].info = NoCache => r' = free /\ s' = s
      /\ r.obj[o].info # NoCache => /\ info.id = NewIdentity => next \in Id
                                    /\ s' = res.st /\ r' = dropped
  BY DEF QueryUiSlot, Answered
<1>2. /\ r \in Objects /\ Sound(s) /\ Calls(calls) /\ anew \in SUBSET Object
      /\ Good(r, calls, anew, next) /\ next \in Nat
      /\ up \in BOOLEAN /\ asking \in SUBSET (Peer \X Id)
  BY Invariant DEF Holds
<1>3. /\ Ended(c) \in WaitingCalls /\ Leaves(calls, Ended(c), o) /\ o \in Object
  BY <1>1, CallsEnded
<1>4. Calls(Ended(c))
  BY <1>3 DEF Calls, WaitingCalls
<1> HIDE DEF o
<1>5. free \in Objects /\ Good(free, Ended(c), anew, next)
  BY <1>2, <1>3, EndedGood
<1> HIDE DEF free
<1>6. CASE r.obj[o].info = NoCache
  BY <1>1, <1>2, <1>3, <1>5, <1>6, Concluded DEF Holds
<1>7. CASE r.obj[o].info # NoCache
  <2>1. r.obj[o].info \in Info
    BY <1>2, <1>3, <1>7, ObjectFields
  <2>2. info \in Info
    BY <2>1 DEF Info
  <2> HIDE DEF info, next
  <2>3. Sound(res.st) /\ next <= res.st.meta.nextId
    BY <1>1, <1>2, <1>7, <2>2, StoreUpdated DEF next
  <2> HIDE DEF res
  <2>4. res.st.meta.nextId \in Nat
    <3>1. res.st.meta.nextId \in 1..MaxId + 1
      BY <2>3 DEF Sound, State, Tables
    <3>2. QED BY <3>1, MaxIdAssumption
  <2>5. heard \in Objects /\ SameLives(free, heard) /\ SameFlags(free, heard)
    BY <1>5, UpdateHeard
  <2> HIDE DEF heard
  <2>6. Good(heard, Ended(c), anew, next)
    BY <1>2, <1>4, <1>5, <2>5, SameLivesGood
  <2>7. dropped \in Objects /\ SameLives(heard, dropped) /\ SameFlags(heard, dropped)
    BY <1>3, <2>5, CopyReplaced
  <2> HIDE DEF dropped
  <2>8. Good(dropped, Ended(c), anew, next)
    BY <1>2, <1>4, <2>5, <2>6, <2>7, SameLivesGood
  <2>9. Good(dropped, Ended(c), anew, res.st.meta.nextId)
    BY <1>2, <2>3, <2>4, <2>7, <2>8, LaterGood
  <2>10. QED BY <1>1, <1>2, <1>3, <1>7, <2>3, <2>9, Concluded DEF Holds
<1>8. QED BY <1>6, <1>7

\* Time and the event loop.
LEMMA ExpireStep ==
    ASSUME IInv, NEW o \in Object, Expire(o)
    PROVE  IInv'
<1> DEFINE new == [r.obj[o] EXCEPT !.idle = TRUE]
           t == [r EXCEPT !.obj[o].idle = TRUE]
<1>1. r' = t /\ Forget(r') /\ s' = s /\ up' = up /\ calls' = calls /\ asking' = asking
  BY DEF Expire
<1>2. /\ r \in Objects /\ Sound(s) /\ Calls(calls) /\ calls \in WaitingCalls
      /\ anew \in SUBSET Object /\ Good(r, calls, anew, s.meta.nextId)
      /\ up \in BOOLEAN /\ asking \in SUBSET (Peer \X Id)
  BY Invariant DEF Holds
<1>3. r.obj[o] \in ObjectRecord
  BY <1>2, ObjectsAre
<1>4. new \in ObjectRecord
  BY <1>3, FieldsChanged
<1>5. /\ new.st = r.obj[o].st /\ new.listed = r.obj[o].listed /\ new.id = r.obj[o].id
      /\ new.watched = r.obj[o].watched /\ new.auto = r.obj[o].auto
  BY <1>3 DEF ObjectRecord
<1>6. t = [r EXCEPT !.obj[o] = new]
  BY <1>2, ObjectsAre
<1> HIDE DEF new, t
<1>7. /\ t \in Objects /\ t.byId = r.byId /\ t.obj[o] = new
      /\ \A x \in Object \ {o} : t.obj[x] = r.obj[x]
  BY <1>2, <1>4, <1>6, OneChanged
<1>8. SameLives(r, t) /\ SameFlags(r, t)
  BY <1>5, <1>7 DEF SameLives, SameLife, SameFlags
<1>9. Good(t, calls, anew, s.meta.nextId)
  BY <1>2, <1>7, <1>8, SameLivesGood
<1>10. QED BY <1>1, <1>2, <1>9, Concluded DEF Holds

LEMMA DisposeStep ==
    ASSUME IInv, DisposeTimer
    PROVE  IInv'
<1> DEFINE t == OnDisposeTimer(r)
<1>1. r' = t /\ Forget(r') /\ s' = s /\ up' = up /\ calls' = calls /\ asking' = asking
  BY DEF DisposeTimer
<1>2. /\ r \in Objects /\ Sound(s) /\ Calls(calls) /\ calls \in WaitingCalls
      /\ anew \in SUBSET Object /\ Good(r, calls, anew, s.meta.nextId)
      /\ up \in BOOLEAN /\ asking \in SUBSET (Peer \X Id)
  BY Invariant DEF Holds
<1>3. t \in Objects /\ Swept(r, t)
  BY <1>2, TimerRuns
<1> HIDE DEF t
<1>4. Good(t, calls, anew, s.meta.nextId)
  BY <1>2, <1>3, SweptGood
<1>5. QED BY <1>1, <1>2, <1>4, Concluded DEF Holds

LEMMA DeleteStep ==
    ASSUME IInv, NEW o \in Object, DeleteObject(o)
    PROVE  IInv'
<1> DEFINE t == Delete(r, o)
           cs == [c \in Call |-> IF c \in Waits(o) THEN NoCall ELSE calls[c]]
           left == {x \in anew : t.obj[x].st # "free"}
<1>1. /\ r.obj[o].st = "doomed" /\ r' = t /\ calls' = cs
      /\ anew' = left /\ dirty' = {x \in dirty : t.obj[x].info # NoCache}
      /\ s' = s /\ up' = up /\ asking' = asking
  BY DEF DeleteObject, Forget
<1>2. /\ r \in Objects /\ Sound(s) /\ Calls(calls) /\ s \in State
      /\ anew \in SUBSET Object /\ dirty \in SUBSET Object
      /\ Good(r, calls, anew, s.meta.nextId)
      /\ up \in BOOLEAN /\ asking \in SUBSET (Peer \X Id)
  BY Invariant DEF Holds
<1>3. cs \in WaitingCalls /\ Leaves(calls, cs, o)
  BY CallsGone
<1> HIDE DEF cs
<1>4. t \in Objects /\ Good(t, cs, left, s.meta.nextId)
  BY <1>1, <1>2, <1>3, DeletedGood
<1>5. anew' \subseteq Object /\ dirty' \subseteq Object
  BY <1>1, <1>2
<1> HIDE DEF t, left
<1>6. TypeOK'
  BY <1>1, <1>2, <1>3, <1>4, <1>5 DEF TypeOK, WaitingCalls
<1>7. QED BY <1>1, <1>2, <1>4, <1>6 DEF IInv

LEMMA NotifyStep ==
    ASSUME IInv, NotifyTimer
    PROVE  IInv'
<1>1. /\ up' = FALSE /\ s' = Crash(s) /\ r' = NoObjects /\ asking' = {}
      /\ calls' = [c \in Call |-> NoCall]
      /\ dirty' = {x \in dirty : r'.obj[x].info # NoCache}
      /\ anew' = {x \in anew : r'.obj[x].st # "free"}
  BY DEF NotifyTimer, Forget
<1>2. Sound(s) /\ anew \in SUBSET Object /\ dirty \in SUBSET Object
  BY Invariant DEF Holds
<1>3. Crash(s) \in State /\ Crash(s).meta = s.meta
  BY <1>2, CrashLeaves DEF Sound
<1>4. Sound(s') /\ s' \in State
  BY <1>1, <1>2, <1>3 DEF Sound
<1>5. \A x \in Object : r'.obj[x].st = "free"
  BY <1>1 DEF NoObjects, FreeObject
<1>6. anew' = {}
  BY <1>1, <1>2, <1>5
<1>7. \A c \in Call : calls'[c] = NoCall
  BY <1>1
<1>8. Good(r', calls', anew', s'.meta.nextId)
  BY <1>1, <1>6, <1>7, NoObjectsGood
<1>9. TypeOK'
  <2>1. r' \in Objects
    BY <1>8 DEF Good
  <2>2. calls' \in [Call -> Waiting \cup {NoCall}]
    BY <1>1
  <2>3. dirty' \subseteq Object
    BY <1>1, <1>2
  <2>4. QED BY <1>1, <1>4, <1>6, <2>1, <2>2, <2>3 DEF TypeOK
<1>10. QED BY <1>4, <1>8, <1>9 DEF IInv

\* The databases are opened or closed, and nothing else happens.
LEMMA DatabaseStep ==
    ASSUME IInv, Start \/ SecretsOpened \/ SecretsClosed
    PROVE  IInv'
<1>1. /\ r' = r /\ calls' = calls /\ asking' = asking /\ up' \in {up, TRUE}
      /\ s' \in {InitialSecrets(s), OpenSecretsDB(s, {}, "none"), CloseStorage(s)}
      /\ Forget(r) \/ (anew' = anew /\ \E ids : dirty' = dirty \cup CopiesOf(ids))
  BY DEF Start, SecretsOpened, SecretsClosed
<1>2. /\ Sound(s) /\ s \in State /\ calls \in WaitingCalls
      /\ Good(r, calls, anew, s.meta.nextId)
      /\ up \in BOOLEAN /\ asking \in SUBSET (Peer \X Id) /\ dirty \in SUBSET Object
  BY Invariant DEF Holds
<1>3. Sound(InitialSecrets(s)) /\ InitialSecrets(s).meta = s.meta
  BY <1>2, StoreOpened
<1>4. LET t == OpenSecretsDB(s, {}, "none")
      IN  t \in State /\ t.meta = s.meta
  BY <1>2, DatabaseOpened
<1>5. LET t == CloseStorage(s)
      IN  t \in State /\ t.meta = s.meta
  BY <1>2, DatabaseClosed
<1>6. Sound(s') /\ s'.meta = s.meta
  BY <1>1, <1>2, <1>3, <1>4, <1>5 DEF Sound
<1>7. anew' = anew /\ dirty' \in SUBSET Object
  <2>1. CASE Forget(r)
    BY <1>2, <2>1, NoneForgotten
  <2>2. CASE anew' = anew /\ \E ids : dirty' = dirty \cup CopiesOf(ids)
    BY <1>1, <1>2, <2>2 DEF CopiesOf
  <2>3. QED BY <1>1, <2>1, <2>2
<1>8. /\ s' \in State /\ r' \in Objects /\ up' \in BOOLEAN
      /\ calls' \in WaitingCalls /\ asking' \in SUBSET (Peer \X Id)
  BY <1>1, <1>2, <1>6 DEF Sound, Good
<1>9. TypeOK'
  BY <1>7, <1>8, Invariant DEF TypeOK, WaitingCalls
<1>10. QED BY <1>1, <1>2, <1>6, <1>7, <1>9 DEF IInv

\* A plugin's result, which a session core stores.
LEMMA PluginStep ==
    ASSUME IInv, NEW id \in Id, NEW pass \in Pass, NEW f, UpdatedByPlugin(id, pass, f)
    PROVE  IInv'
<1> DEFINE read == Credentials(s, id, TRUE)
           info == [read EXCEPT !.pass = pass, !.hasPass = TRUE]
           res == UpdateCredentials(s, info, f)
           t == OnCredentialsUpdated(r, res.id)
           next == s.meta.nextId
<1>1. /\ Exists(s.meta, id) /\ s' = res.st /\ r' = t /\ Forget(r')
      /\ up' = up /\ calls' = calls /\ asking' = asking
  BY DEF UpdatedByPlugin
<1>2. /\ r \in Objects /\ Sound(s) /\ s \in State /\ Calls(calls) /\ calls \in WaitingCalls
      /\ anew \in SUBSET Object /\ Good(r, calls, anew, next) /\ next \in Nat
      /\ up \in BOOLEAN /\ asking \in SUBSET (Peer \X Id)
  BY Invariant DEF Holds
<1>3. read \in Info /\ read.id = id
  BY <1>1, <1>2, CredentialsRead
<1> HIDE DEF read, next
<1>4. info \in Info /\ info.id = read.id
  BY <1>3 DEF Info
<1> HIDE DEF info
<1>5. Sound(res.st) /\ next <= res.st.meta.nextId
  <2>1. info.id # NewIdentity
    BY <1>3, <1>4 DEF Id, NewIdentity
  <2>2. QED BY <1>2, <1>4, <2>1, StoreUpdated DEF next
<1> HIDE DEF res
<1>6. res.st.meta.nextId \in Nat
  <2>1. res.st.meta.nextId \in 1..MaxId + 1
    BY <1>5 DEF Sound, State, Tables
  <2>2. QED BY <2>1, MaxIdAssumption
<1>7. t \in Objects /\ SameLives(r, t) /\ SameFlags(r, t)
  BY <1>2, UpdateHeard
<1> HIDE DEF t
<1>8. Good(t, calls, anew, next)
  BY <1>2, <1>7, SameLivesGood
<1>9. Good(t, calls, anew, res.st.meta.nextId)
  BY <1>2, <1>5, <1>6, <1>7, <1>8, LaterGood
<1>10. QED BY <1>1, <1>2, <1>5, <1>9, Concluded DEF Holds

-----------------------------------------------------------------------------
(* The invariant *)

LEMMA Initially == Init => IInv
<1> SUFFICES ASSUME Init
             PROVE  IInv
  OBVIOUS
<1> DEFINE db == NewState(CreateTables)
<1>1. CreateTables \in Tables /\ Coherent(CreateTables) /\ Counted(CreateTables)
  BY CreatedTables, NoMethodsCounted
<1>2. db \in State /\ db.meta = CreateTables
  BY <1>1, NewStateTyped
<1>3. Sound(db)
  BY <1>1, <1>2 DEF Sound
<1>4. s = InitialSecrets(db)
  BY DEF Init
<1> HIDE DEF db
<1>5. Sound(s)
  BY <1>3, <1>4, StoreOpened
<1>6. r = NoObjects /\ anew = {} /\ \A c \in Call : calls[c] = NoCall
  BY DEF Init
<1>7. Good(r, calls, anew, s.meta.nextId)
  BY <1>6, NoObjectsGood
<1>8. TypeOK
  BY <1>5, <1>7 DEF Init, TypeOK, Sound, Good
<1>9. QED BY <1>5, <1>7, <1>8 DEF IInv

LEMMA ClientCallStep == IInv /\ ClientCall => IInv'
<1> SUFFICES ASSUME IInv, ClientCall
             PROVE  IInv'
  OBVIOUS
<1>1. CASE Start
  BY <1>1, DatabaseStep
<1>2. CASE \E o \in Object : RegisterNewIdentity(o)
  BY <1>2, RegisterStep
<1>3. CASE \E peer \in Peer, id \in Id : AskAccess(peer, id)
  BY <1>3, AccessStep
<1>4. CASE \E o \in Object, peer \in Peer, f \in SomeFaults \cap {"none", "query"} :
              \E id \in Id : GetAllowed(o, peer, id, f)
  <2>1. PICK o \in Object, peer \in Peer, f \in SomeFaults \cap {"none", "query"}, id \in Id :
           GetAllowed(o, peer, id, f)
    BY <1>4
  <2>2. QED BY <2>1, AccessStep
<1>5. CASE \E o \in Object, peer \in Peer, f \in SomeFaults \cap {"none", "query"} :
              \/ GetInfo(o, peer, f)
              \/ VerifySecret(o, peer, f)
              \/ \E c \in Call : RequestCredentialsUpdate(o, c, peer, f)
              \/ \E c \in Call, n \in 0..MaxRetries : VerifyUser(o, c, peer, n, f)
  BY <1>5, QueryStep
<1>6. CASE \E o \in Object, peer \in Peer, f \in SomeFaults \ {"query"} :
              \E c \in Call : RemoveIdentityCall(o, c, peer, f)
  BY <1>6, RemoveStep
<1>7. CASE \E o \in Object, peer \in Peer, f \in SomeFaults \ {"query"} :
              \E c \in Call : SignOut(o, c, peer, f)
  BY <1>7, SignOutStep
<1>8. CASE \E o \in Object, peer \in Peer, f \in SomeFaults \ {"query"} :
              \E info \in Infos, sent \in 0..MaxId : Store(o, peer, info, sent, f)
  BY <1>8, StoreStep
<1>9. QED BY <1>1, <1>2, <1>3, <1>4, <1>5, <1>6, <1>7, <1>8 DEF ClientCall

LEMMA OtherSteps ==
    ASSUME IInv,
           \/ \E c \in Call : UiAnswer(c)
           \/ \E peer \in Peer, id \in Id : AccessAnswer(peer, id)
           \/ \E o \in Object : Expire(o) \/ DeleteObject(o)
           \/ Timers
           \/ Others
    PROVE  IInv'
<1>1. CASE \E c \in Call : UiAnswer(c)
  <2>1. PICK c \in Call : UiAnswer(c)
    BY <1>1
  <2>2. CASE DialogFailed(c) \/ Completed(c)
    BY <2>2, AnswerStep
  <2>3. CASE \E pass \in Pass, f \in SomeFaults \ {"query"} : QueryUiSlot(c, pass, f)
    BY <2>3, QueryAnswerStep
  <2>4. CASE \E pass \in Pass : VerifyUiSlot(c, pass)
    BY <2>4, VerifyAnswerStep
  <2>5. QED BY <2>1, <2>2, <2>3, <2>4 DEF UiAnswer
<1>2. CASE \E peer \in Peer, id \in Id : AccessAnswer(peer, id)
  <2>1. PICK peer \in Peer, id \in Id : AccessAnswer(peer, id)
    BY <1>2
  <2>2. QED BY <2>1, AccessStep DEF AccessAnswer
<1>3. CASE \E o \in Object : Expire(o) \/ DeleteObject(o)
  BY <1>3, ExpireStep, DeleteStep
<1>4. CASE Timers
  BY <1>4, DisposeStep, NotifyStep DEF Timers
<1>5. CASE Others
  BY <1>5, PluginStep, DatabaseStep DEF Others
<1>6. QED BY <1>1, <1>2, <1>3, <1>4, <1>5

LEMMA InvariantKept == IInv /\ [Next]_vars => IInv'
<1> SUFFICES ASSUME IInv, [Next]_vars
             PROVE  IInv'
  OBVIOUS
<1>1. CASE UNCHANGED vars
  BY <1>1 DEF vars, IInv, TypeOK
<1>2. CASE Next
  BY <1>2, ClientCallStep, OtherSteps DEF Next
<1>3. QED BY <1>1, <1>2

LEMMA Invariance == Spec => []IInv
BY Initially, InvariantKept, PTL DEF Spec

-----------------------------------------------------------------------------
(* The copies of the rows: what each operation on the databases leaves of an  *)
(* identity that is still there.                                              *)

\* A user name that is secret is not in the row.
NamesHidden(d) == \A i \in Id : d.rows[i].secretName => d.rows[i].user = Null

\* What is read of the identity is what was read of it, but for a secret that was
\* not found before.
Stays(v, t, i) ==
    /\ Exists(v.meta, i)
    /\ Identity(t.meta, i) = Identity(v.meta, i)
    /\ SecretOf(v, i) \in {NothingSecret, SecretOf(t, i)}

\* ... as when nothing of it has been touched.
LEMMA UntouchedStays ==
    ASSUME NEW v \in State, Coherent(v.meta), NEW t \in State, NEW i \in Id, Exists(t.meta, i),
           SameRowsOf(v.meta, t.meta, i), t.creds[i] = v.creds[i], t.cache[i] = v.cache[i],
           t.open = v.open
    PROVE  Stays(v, t, i)
<1>1. v.meta \in Tables /\ t.meta \in Tables
  BY DEF State
<1>2. Exists(v.meta, i) /\ Identity(t.meta, i) = Identity(v.meta, i)
  BY <1>1, IdentityKept
<1>3. t.meta.rows[i] = v.meta.rows[i]
  BY DEF SameRowsOf
<1>4. SecretOf(t, i) = SecretOf(v, i)
  BY <1>3 DEF SecretOf, SecretsLoad, LookupCredentials
<1>5. QED BY <1>2, <1>4 DEF Stays

LEMMA SameTablesStay ==
    ASSUME NEW v \in State, Coherent(v.meta), NEW t \in State, t.meta = v.meta,
           NEW i \in Id, Exists(v.meta, i), SecretOf(v, i) \in {NothingSecret, SecretOf(t, i)}
    PROVE  Stays(v, t, i)
BY DEF Stays

LEMMA RowsUpdatedHidden ==
    ASSUME NEW d \in Tables, Coherent(d), NamesHidden(d), NEW u \in Info, NEW f,
           u.id = NewIdentity => d.nextId \in Id,
           InsertMethods(d, DOMAIN u.methods).nextMethod <= MaxMethodId + 1
    PROVE  NamesHidden(UpdateIdentity(d, u, f).st)
<1> DEFINE res == UpdateIdentity(d, u, f)
           to == StoredId(d, u)
           row == UpdateRow(d, to, u)
<1>1. /\ res.id \in {NewIdentity, to} /\ res.st \in Tables
      /\ res.id = NewIdentity => \/ res.st = d
                                 \/ res.st = [d EXCEPT !.owner = res.st.owner]
      /\ res.id # NewIdentity =>
            /\ res.st = UpdateLists(row, to, u, f)
            /\ InsertMethods(row, DOMAIN u.methods).nextMethod <= MaxMethodId + 1
  BY IdentityUpdated
<1>2. to \in Id /\ Coherent(row)
  BY RowKeepsCoherence
<1> HIDE DEF to
<1>3. /\ row \in Tables
      /\ \A i \in Id \ {to} : row.rows[i] = d.rows[i]
      /\ Exists(row, to) =>
            row.rows[to] = [user |-> IF u.secretName THEN Null ELSE u.user,
                            remember |-> u.remember, secretName |-> u.secretName]
  BY <1>2, RowUpdated
<1> HIDE DEF row, res
<1>4. CASE res.id = NewIdentity
  <2>1. res.st.rows = d.rows
    BY <1>1, <1>4 DEF Tables
  <2>2. QED BY <2>1 DEF NamesHidden, res
<1>5. CASE res.id # NewIdentity
  <2>1. res.st.rows = row.rows
    BY <1>1, <1>2, <1>3, <1>5, ListsUpdated
  <2>2. row.rows[to].secretName => row.rows[to].user = Null
    <3>1. CASE Exists(row, to)
      BY <1>3, <3>1
    <3>2. CASE ~Exists(row, to)
      BY <1>2, <3>2 DEF Exists, NoRow
    <3>3. QED BY <3>1, <3>2
  <2>3. QED BY <1>3, <2>1, <2>2 DEF NamesHidden, res
<1>6. QED BY <1>4, <1>5

\* updateCredentials() touches one identity, the one it says.
LEMMA UpdateLeaves ==
    ASSUME NEW db, Sound(db), NamesHidden(db.meta), NEW info \in Info, NEW f, f # "crash",
           info.id = NewIdentity => db.meta.nextId \in Id
    PROVE  LET res == UpdateCredentials(db, info, f)
           IN  /\ NamesHidden(res.st.meta)
               /\ \A i \in Id \ {res.id} : Exists(res.st.meta, i) => Stays(db, res.st, i)
<1> DEFINE d == db.meta
           u == UpdateIdentity(d, info, f)
           res == UpdateCredentials(db, info, f)
           t == res.st
<1>1. db \in State /\ d \in Tables /\ Coherent(d) /\ Counted(d)
  BY DEF Sound, State
<1>2. DOMAIN info.methods \in SUBSET Method
  BY InfoFields
<1>3. InsertMethods(d, DOMAIN info.methods).nextMethod <= MaxMethodId + 1
  BY <1>1, <1>2, MethodsCounted
<1>4. u.st \in Tables /\ u.id \in {NewIdentity, StoredId(d, info)}
  BY <1>1, <1>3, IdentityUpdated
<1>5. StoredId(d, info) \in Id
  BY <1>1, RowKeepsCoherence
<1>6. NamesHidden(u.st)
  BY <1>1, <1>3, RowsUpdatedHidden
<1>7. \A i \in Id \ {u.id} : Exists(u.st, i) => SameRowsOf(d, u.st, i)
  <2>1. CASE u.id = NewIdentity
    <3>1. KeepsRows(d, u.st)
      BY <1>1, <1>3, <2>1, NoneStoredKeeps
    <3>2. QED BY <3>1 DEF KeepsRows
  <2>2. CASE u.id # NewIdentity
    BY <1>1, <1>3, <2>2, OthersKept
  <2>3. QED BY <2>1, <2>2
<1> HIDE DEF u
<1>8. u.id \in 0..MaxId
  BY <1>4, <1>5, MaxIdAssumption DEF Id, NewIdentity
<1>9. /\ res.id = u.id /\ t \in State /\ t.meta = u.st
      /\ \/ NothingStored(db, t)
         \/ \E pass : StoredInDatabase(db, t, u.id, pass)
         \/ \E user, pass, keep : StoredInCache(db, t, u.id, user, pass, keep)
  BY <1>1, <1>4, <1>8, SecretsStored DEF u, UpdateCredentials
<1> HIDE DEF res, d
<1>10. \A i \in Id \ {u.id} : /\ t.creds[i] = db.creds[i] /\ t.cache[i] = db.cache[i]
                              /\ t.open = db.open
  BY <1>9 DEF NothingStored, StoredInDatabase, StoredInCache, SameCache
<1>11. ASSUME NEW i \in Id \ {u.id}, Exists(t.meta, i)
       PROVE  Stays(db, t, i)
  BY <1>1, <1>7, <1>9, <1>10, <1>11, UntouchedStays DEF d
<1>12. QED BY <1>6, <1>9, <1>11 DEF res

\* removeCredentials() touches the one it is given.
LEMMA RemovalLeaves ==
    ASSUME NEW db, Sound(db), NamesHidden(db.meta), NEW id \in Id, NEW f, f # "crash"
    PROVE  LET res == RemoveCredentials(db, id, f)
           IN  /\ NamesHidden(res.st.meta)
               /\ res.ok => ~Exists(res.st.meta, id)
               /\ \A i \in Id \ {id} : Exists(res.st.meta, i) => Stays(db, res.st, i)
<1> DEFINE d == db.meta
           meta == RemoveIdentity(d, id, f)
           res == RemoveCredentials(db, id, f)
           t == res.st
<1>1. db \in State /\ d \in Tables /\ Coherent(d)
  BY DEF Sound, State
<1>2. /\ meta.st \in Tables /\ meta.ok \in BOOLEAN
      /\ ~meta.ok => meta.st = d
      /\ meta.st.methods = d.methods /\ meta.st.mechs = d.mechs /\ meta.st.tokens = d.tokens
      /\ \A i \in Id \ {id} :
            /\ meta.st.rows[i] = d.rows[i]
            /\ \A a \in d.acl : a[1] = i => a \in meta.st.acl
            /\ \A o \in d.owner : o[1] = i => o \in meta.st.owner
            /\ \A x \in d.realms : x[1] = i => x \in meta.st.realms
      /\ meta.st.acl \subseteq d.acl /\ meta.st.owner \subseteq d.owner
      /\ meta.st.realms \subseteq d.realms
      /\ meta.ok => meta.st.rows[id] = NoRow
  BY <1>1, IdentityRemoved
<1>3. /\ t \in State
      /\ \/ t = db /\ ~res.ok
         \/ t.meta = meta.st /\ res.ok = meta.ok /\ GoneOnly(db, t, {id})
  BY <1>1, CredentialsRemoved
<1> HIDE DEF meta, res, d
<1>4. \A i \in Id \ {id} : SameRowsOf(d, meta.st, i)
  BY <1>2 DEF SameRowsOf
<1>5. NamesHidden(meta.st)
  <2>1. ASSUME NEW i \in Id, meta.st.rows[i].secretName
        PROVE  meta.st.rows[i].user = Null
    <3>1. CASE i = id /\ meta.ok
      BY <1>2, <3>1 DEF NoRow
    <3>2. CASE i # id \/ ~meta.ok
      BY <1>2, <2>1, <3>2 DEF NamesHidden, d
    <3>3. QED BY <3>1, <3>2
  <2>2. QED BY <2>1 DEF NamesHidden
<1>6. CASE t = db /\ ~res.ok
  <2>1. ASSUME NEW i \in Id, Exists(t.meta, i) PROVE Stays(db, t, i)
    BY <1>1, <1>6, <2>1, SameTablesStay DEF d
  <2>2. QED BY <1>6, <2>1 DEF res
<1>7. CASE t.meta = meta.st /\ res.ok = meta.ok /\ GoneOnly(db, t, {id})
  <2>1. \A i \in Id \ {id} : /\ t.creds[i] = db.creds[i] /\ t.cache[i] = db.cache[i]
                             /\ t.open = db.open
    BY <1>7 DEF GoneOnly, SecretsGone, SameCache
  <2>2. ASSUME NEW i \in Id \ {id}, Exists(t.meta, i) PROVE Stays(db, t, i)
    BY <1>1, <1>3, <1>4, <1>7, <2>1, <2>2, UntouchedStays DEF d
  <2>3. res.ok => ~Exists(t.meta, id)
    BY <1>2, <1>7 DEF Exists
  <2>4. QED BY <1>5, <1>7, <2>2, <2>3 DEF res
<1>8. QED BY <1>3, <1>6, <1>7

\* The cache of a secret is written back when the databases open, if it was to
\* be, and is not looked at when they close.
LEMMA OpeningLeaves ==
    ASSUME NEW db, Sound(db), db.open = FALSE, NEW i \in Id, Exists(db.meta, i),
           db.cache[i] # NoSecret => db.cache[i].keep /\ db.meta.rows[i].remember
    PROVE  Stays(db, OpenSecretsDB(db, {}, "none"), i)
<1> DEFINE t == OpenSecretsDB(db, {}, "none")
<1>1. db \in State /\ Coherent(db.meta) /\ db.cache[i] \in Entry \cup {NoSecret}
  BY DEF Sound, State
<1>2. t \in State /\ t.meta = db.meta /\ Opened(db, t, {})
  BY <1>1, DatabaseOpened
<1> HIDE DEF t
<1>3. t.open = TRUE /\ t.cache[i] = NoSecret
  BY <1>2 DEF Opened, NoEntries
<1>4. CASE db.cache[i] = NoSecret
  <2>1. t.creds[i] = db.creds[i]
    BY <1>2, <1>4 DEF Opened, WritesBack
  <2>2. SecretOf(db, i) \in {NothingSecret, SecretOf(t, i)}
    <3>1. CASE db.meta.rows[i].remember
      BY <1>2, <1>3, <1>4, <2>1, <3>1 DEF SecretOf, SecretsLoad
    <3>2. CASE ~db.meta.rows[i].remember
      BY <1>4, <3>2 DEF SecretOf, LookupCredentials, NothingSecret
    <3>3. QED BY <3>1, <3>2
  <2>3. QED BY <1>1, <1>2, <2>2, SameTablesStay DEF t
<1>5. CASE db.cache[i] # NoSecret
  <2> DEFINE e == db.cache[i]
             w == Written(e)
  <2>1. e \in Entry /\ e.keep /\ db.meta.rows[i].remember
    BY <1>1, <1>5
  <2>2. w = [user |-> e.user, pass |-> e.pass]
    BY <2>1 DEF Written
  <2>3. w \in Secret
    BY <2>1, EntryIsWritten
  <2>4. SecretOf(db, i) = [user |-> IF db.meta.rows[i].secretName THEN e.user ELSE Null,
                           pass |-> e.pass]
    BY <1>5, <2>1 DEF SecretOf, LookupCredentials
  <2> HIDE DEF e, w
  <2>5. CASE w = [user |-> Null, pass |-> Null]
    <3>1. e.user = Null /\ e.pass = Null
      BY <2>2, <2>5
    <3>2. SecretOf(db, i) = NothingSecret
      BY <2>4, <3>1 DEF NothingSecret
    <3>3. QED BY <1>1, <1>2, <3>2, SameTablesStay DEF t
  <2>6. CASE w # [user |-> Null, pass |-> Null]
    <3>1. t.creds[i] = w
      BY <1>2, <1>5, <2>6 DEF Opened, WritesBack, e, w
    <3>2. t.creds[i] # NoSecret
      BY <2>3, <3>1, SecretIsThere
    <3>3. SecretOf(t, i) = [user |-> IF db.meta.rows[i].secretName THEN w.user ELSE Null,
                            pass |-> w.pass]
      BY <1>2, <1>3, <2>1, <3>1, <3>2 DEF SecretOf, SecretsLoad
    <3>4. SecretOf(t, i) = SecretOf(db, i)
      BY <2>2, <2>4, <3>3
    <3>5. QED BY <1>1, <1>2, <3>4, SameTablesStay DEF t
  <2>7. QED BY <2>5, <2>6
<1>6. QED BY <1>4, <1>5

LEMMA ClosingLeaves ==
    ASSUME NEW db, Sound(db), NEW i \in Id, Exists(db.meta, i),
           db.cache[i] # NoSecret => ~db.meta.rows[i].remember
    PROVE  Stays(db, CloseStorage(db), i)
<1> DEFINE t == CloseStorage(db)
<1>1. db \in State /\ Coherent(db.meta)
  BY DEF Sound
<1>2. /\ t \in State /\ t.meta = db.meta
      /\ t.creds = db.creds /\ t.cache = db.cache
  BY <1>1, DatabaseClosed DEF SameDatabase, SameCache
<1> HIDE DEF t
<1>3. SecretOf(t, i) = SecretOf(db, i)
  BY <1>2 DEF SecretOf, SecretsLoad, LookupCredentials
<1>4. QED BY <1>1, <1>2, <1>3, SameTablesStay DEF t

-----------------------------------------------------------------------------
(* The copies themselves *)

\* What credentials() reads of an identity is coherent with it.
LEMMA ReadCoherent ==
    ASSUME NEW db \in State, NamesHidden(db.meta), NEW i, Exists(db.meta, i),
           NEW query \in BOOLEAN
    PROVE  CopyCoherent(db, Credentials(db, i, query), i)
<1> DEFINE id == Identity(db.meta, i)
           row == db.meta.rows[i]
           found == IF id.remember /\ db.open THEN SecretsLoad(db, i) ELSE LookupCredentials(db, i)
           read == [id EXCEPT !.user = IF id.secretName THEN found.user ELSE @,
                              !.pass = found.pass, !.hasPass = TRUE]
           info == Credentials(db, i, query)
<1>1. i \in Id /\ db.meta \in Tables /\ i # NewIdentity
  BY DEF Exists, State, Id, NewIdentity
<1>2. id \in Info /\ id.id = i
  <2>1. id = Credentials(db, i, FALSE)
    BY DEF Credentials
  <2> HIDE DEF id
  <2>2. QED BY <1>1, <2>1, CredentialsRead
<1>3. /\ id.user = row.user /\ id.remember = row.remember /\ id.secretName = row.secretName
      /\ id.pass = Null
  BY <1>1, IdentityRead DEF Identity, NoInfo
<1>4. info = id \/ info = read
  BY DEF Credentials
<1> HIDE DEF id, info
<1>5. SecretIn(id) = NothingSecret
  BY <1>1, <1>3 DEF SecretIn, NothingSecret, NamesHidden
<1>6. CASE info = id
  BY <1>2, <1>5, <1>6 DEF CopyCoherent, id, info
<1>7. CASE info = read
  <2>1. /\ read.id = i /\ read.remember = id.remember /\ read.secretName = id.secretName
        /\ read.methods = id.methods /\ read.acl = id.acl /\ read.owners = id.owners
        /\ read.realms = id.realms /\ read.pass = found.pass
        /\ read.user = IF id.secretName THEN found.user ELSE id.user
    BY <1>2 DEF Info
  <2> HIDE DEF read
  <2>2. Metadata(read) = Metadata(id)
    BY <2>1 DEF Metadata
  <2>3. SecretIn(read) = [user |-> IF row.secretName THEN found.user ELSE Null,
                          pass |-> found.pass]
    BY <1>3, <2>1 DEF SecretIn
  <2>4. SecretIn(read) \in {NothingSecret, SecretOf(db, i)}
    <3>1. CASE row.remember /\ ~db.open /\ db.cache[i] = NoSecret
      <4>1. found = [user |-> Null, pass |-> Null]
        BY <1>3, <3>1 DEF LookupCredentials
      <4>2. QED BY <2>3, <4>1 DEF NothingSecret
    <3>2. CASE ~(row.remember /\ ~db.open /\ db.cache[i] = NoSecret)
      <4>1. found = IF row.remember /\ (db.open \/ db.cache[i] = NoSecret)
                    THEN SecretsLoad(db, i) ELSE LookupCredentials(db, i)
        BY <1>3, <3>2
      <4> HIDE DEF found
      <4>2. QED BY <2>3, <4>1 DEF SecretOf
    <3>3. QED BY <3>1, <3>2
  <2>5. QED BY <1>7, <2>1, <2>2, <2>4 DEF CopyCoherent, info, id
<1>8. QED BY <1>4, <1>6, <1>7

\* The copies that are not in dirt are coherent.
Coherence(db, v, dirt) ==
    \A o \in Object \ dirt :
        /\ v.obj[o].st = "alive" /\ v.obj[o].info # NoCache
        /\ Exists(db.meta, v.obj[o].id)
        => CopyCoherent(db, v.obj[o].info, v.obj[o].id)

\* ... and stay so, with the identities that they are copies of.
LEMMA CoherenceStays ==
    ASSUME NEW db, NEW v, NEW dirt, Coherence(db, v, dirt),
           NEW db2, NEW v2, NEW dirt2,
           \A o \in Object \ dirt2 :
               /\ v2.obj[o].st = "alive" /\ v2.obj[o].info # NoCache
               /\ Exists(db2.meta, v2.obj[o].id)
               => /\ o \notin dirt
                  /\ v.obj[o].st = "alive" /\ v.obj[o].info = v2.obj[o].info
                  /\ v.obj[o].id = v2.obj[o].id
                  /\ Stays(db, db2, v2.obj[o].id)
    PROVE  Coherence(db2, v2, dirt2)
<1>1. ASSUME NEW o \in Object \ dirt2,
             v2.obj[o].st = "alive", v2.obj[o].info # NoCache, Exists(db2.meta, v2.obj[o].id)
      PROVE  CopyCoherent(db2, v2.obj[o].info, v2.obj[o].id)
  <2>1. /\ o \notin dirt
        /\ v.obj[o].st = "alive" /\ v.obj[o].info = v2.obj[o].info
        /\ v.obj[o].id = v2.obj[o].id
        /\ Stays(db, db2, v2.obj[o].id)
    BY <1>1
  <2>2. CopyCoherent(db, v2.obj[o].info, v2.obj[o].id)
    BY <1>1, <2>1 DEF Coherence, Stays
  <2>3. QED BY <2>1, <2>2 DEF CopyCoherent, Stays
<1>2. QED BY <1>1 DEF Coherence

\* The databases are as they were.
LEMMA CoherenceKept ==
    ASSUME NEW db, NEW v, NEW dirt, Coherence(db, v, dirt), NEW v2, Copied(v, v2), NEW dirt2,
           \A o \in dirt : v2.obj[o].info # NoCache => o \in dirt2
    PROVE  Coherence(db, v2, dirt2)
<1>1. \A o \in Object \ dirt2 :
         /\ v2.obj[o].st = "alive" /\ v2.obj[o].info # NoCache
         /\ Exists(db.meta, v2.obj[o].id)
         => /\ o \notin dirt
            /\ v.obj[o].st = "alive" /\ v.obj[o].info = v2.obj[o].info
            /\ v.obj[o].id = v2.obj[o].id
            /\ Stays(db, db, v2.obj[o].id)
  BY DEF Copied, Stays
<1>2. QED BY <1>1, CoherenceStays

\* queryInfo().
LEMMA QueriedCoherent ==
    ASSUME NEW db \in State, NamesHidden(db.meta), NEW v \in Objects, NEW dirt,
           Coherence(db, v, dirt), NEW o \in Object, NEW query \in BOOLEAN, NEW f
    PROVE  Coherence(db, QueryInfo(db, v, o, query, f).st, dirt)
<1> DEFINE id == v.obj[o].id
           read == Credentials(db, id, query)
           t == QueryInfo(db, v, o, query, f).st
<1>1. \E loaded \in {v.obj[o].info, NoCache, read} : t = [v EXCEPT !.obj[o].info = loaded]
  BY DEF QueryInfo
<1>2. v.obj[o].info \in Info \cup {NoCache} /\ read \in Info
  BY ObjectFields, CredentialsRead
<1> HIDE DEF t
<1>3. PICK loaded \in {v.obj[o].info, NoCache, read} : t = [v EXCEPT !.obj[o].info = loaded]
  BY <1>1
<1>4. /\ SameLives(v, t) /\ t.obj[o].info = loaded
      /\ \A x \in Object \ {o} : t.obj[x].info = v.obj[x].info
  BY <1>2, <1>3, CopyReplaced
<1>5. \A x \in Object : t.obj[x].st = v.obj[x].st /\ t.obj[x].id = v.obj[x].id
  BY <1>4 DEF SameLives, SameLife
<1>6. Exists(db.meta, id) => CopyCoherent(db, read, id)
  BY ReadCoherent
<1> HIDE DEF read
<1>7. ASSUME NEW x \in Object \ dirt, t.obj[x].st = "alive", t.obj[x].info # NoCache,
             Exists(db.meta, t.obj[x].id)
      PROVE  CopyCoherent(db, t.obj[x].info, t.obj[x].id)
  <2>1. CASE x = o /\ loaded = read
    BY <1>4, <1>5, <1>6, <1>7, <2>1
  <2>2. CASE t.obj[x].info = v.obj[x].info
    BY <1>5, <1>7, <2>2 DEF Coherence
  <2>3. QED BY <1>3, <1>4, <1>7, <2>1, <2>2
<1>8. QED BY <1>7 DEF Coherence, t

LEMMA CopiedOn ==
    ASSUME NEW v, NEW v2, NEW v3, Copied(v, v2), Copied(v2, v3)
    PROVE  Copied(v, v3)
BY DEF Copied

\* A daemon that has ended has no objects, and nobody waits for it.
Quiet == \/ up
         \/ /\ asking = {} /\ \A c \in Call : calls[c] = NoCall
            /\ \A o \in Object : r.obj[o].st = "free"

CopiesInv == IInv /\ Quiet /\ NamesHidden(s.meta) /\ Coherence(s, r, dirty)

LEMMA CopiesKnown ==
    ASSUME CopiesInv
    PROVE  /\ IInv /\ Sound(s) /\ s \in State /\ NamesHidden(s.meta)
           /\ r \in Objects /\ Coherence(s, r, dirty)
           /\ dirty \in SUBSET Object /\ Calls(calls)
BY Invariant DEF CopiesInv, Holds

Kept == NamesHidden(s'.meta) /\ Coherence(s', r', dirty')

\* What happens to the objects only.
LEMMA ObjectsOnly ==
    ASSUME CopiesInv, s' = s, NEW v, Coherence(s, v, dirty), Copied(v, r'), Forget(r')
    PROVE  Kept
<1>1. NamesHidden(s'.meta)
  BY CopiesKnown
<1>2. \A o \in dirty : r'.obj[o].info # NoCache => o \in dirty'
  BY DEF Forget
<1>3. Coherence(s, r', dirty')
  BY <1>2, CoherenceKept
<1>4. QED BY <1>1, <1>3 DEF Kept

LEMMA CopyKeepingSteps ==
    ASSUME CopiesInv,
           \/ \E o \in Object : RegisterNewIdentity(o) \/ Expire(o) \/ DeleteObject(o)
           \/ \E peer \in Peer, id \in Id : AskAccess(peer, id) \/ AccessRefused(peer, id)
           \/ \E c \in Call : DialogFailed(c) \/ Completed(c)
           \/ DisposeTimer
    PROVE  Kept
<1>1. r \in Objects /\ Coherence(s, r, dirty) /\ Calls(calls)
  BY CopiesKnown
<1>2. \A c \in Call : calls[c] # NoCall => calls[c].o \in Object
  BY <1>1 DEF Calls, Waiting
<1>3. ASSUME NEW o \in Object, RegisterNewIdentity(o) PROVE Kept
  <2> DEFINE new == Create(r, o, NewIdentity)
             seen == WatchIdentity(new, o)
             t == DestroyUnused(seen)
  <2>1. NewIdentity \in 0..MaxId
    BY MaxIdAssumption DEF NewIdentity
  <2>2. r' = t /\ Forget(r') /\ s' = s
    BY <1>3 DEF RegisterNewIdentity
  <2>3. new \in Objects /\ Copied(r, new)
    BY <1>1, <2>1, ObjectCreated
  <2> HIDE DEF new
  <2>4. seen \in Objects /\ Copied(new, seen)
    BY <2>3, ObjectWatched
  <2> HIDE DEF seen
  <2>5. Copied(seen, t)
    BY <2>4, UnusedDestroyed
  <2> HIDE DEF t
  <2>6. Copied(r, r')
    BY <2>2, <2>3, <2>4, <2>5, CopiedOn
  <2>7. QED BY <1>1, <2>2, <2>6, ObjectsOnly
<1>4. ASSUME NEW o \in Object, Expire(o) PROVE Kept
  <2> DEFINE new == [r.obj[o] EXCEPT !.idle = TRUE]
  <2>1. r' = [r EXCEPT !.obj[o].idle = TRUE] /\ Forget(r') /\ s' = s
    BY <1>4 DEF Expire
  <2>2. r.obj[o] \in ObjectRecord
    BY <1>1, ObjectsAre
  <2>3. /\ new \in ObjectRecord
        /\ new.st = r.obj[o].st /\ new.id = r.obj[o].id /\ new.info = r.obj[o].info
    <3>1. new \in ObjectRecord
      BY <2>2, FieldsChanged
    <3>2. QED BY <2>2, <3>1 DEF ObjectRecord
  <2>4. r' = [r EXCEPT !.obj[o] = new]
    BY <1>1, <2>1, ObjectsAre
  <2> HIDE DEF new
  <2>5. r'.obj[o] = new /\ \A x \in Object \ {o} : r'.obj[x] = r.obj[x]
    BY <1>1, <2>3, <2>4, OneChanged
  <2>6. Copied(r, r')
    BY <2>3, <2>5 DEF Copied
  <2>7. QED BY <1>1, <2>1, <2>6, ObjectsOnly
<1>5. ASSUME NEW o \in Object, DeleteObject(o) PROVE Kept
  <2>1. r' = Delete(r, o) /\ Forget(r') /\ s' = s
    BY <1>5 DEF DeleteObject
  <2>2. Copied(r, r')
    BY <1>1, <2>1, ObjectDeleted
  <2>3. QED BY <1>1, <2>1, <2>2, ObjectsOnly
<1>6. ASSUME NEW peer \in Peer, NEW id \in Id, AskAccess(peer, id) \/ AccessRefused(peer, id)
      PROVE  Kept
  <2>1. r' = r /\ Forget(r) /\ s' = s
    BY <1>6 DEF AskAccess, AccessRefused
  <2>2. Copied(r, r') /\ Forget(r')
    BY <2>1 DEF Copied, Forget
  <2>3. QED BY <1>1, <2>1, <2>2, ObjectsOnly
<1>7. ASSUME NEW c \in Call, DialogFailed(c) \/ Completed(c) PROVE Kept
  <2>1. /\ r' = SetAutoDestruct(r, calls[c].o, TRUE) /\ Forget(r') /\ s' = s
        /\ calls[c].o \in Object
    BY <1>2, <1>7 DEF DialogFailed, Completed
  <2>2. Copied(r, r')
    BY <1>1, <2>1, AutoSet
  <2>3. QED BY <1>1, <2>1, <2>2, ObjectsOnly
<1>8. ASSUME DisposeTimer PROVE Kept
  <2>1. r' = OnDisposeTimer(r) /\ Forget(r') /\ s' = s
    BY <1>8 DEF DisposeTimer
  <2>2. Copied(r, r')
    BY <1>1, <2>1, TimerRuns
  <2>3. QED BY <1>1, <2>1, <2>2, ObjectsOnly
<1>9. QED BY <1>3, <1>4, <1>5, <1>6, <1>7, <1>8

\* The copy is compared with the answer, and dropped or kept.
LEMMA VerifyKeepsCopies ==
    ASSUME CopiesInv, NEW c \in Call, NEW pass, VerifyUiSlot(c, pass)
    PROVE  Kept
<1> DEFINE o == calls[c].o
           free == SetAutoDestruct(r, o, TRUE)
<1>1. r \in Objects /\ Coherence(s, r, dirty) /\ Calls(calls)
  BY CopiesKnown
<1>2. /\ s' = s /\ Forget(r') /\ calls[c] # NoCall
      /\ \/ r' = SetAutoDestruct(free, o, FALSE)
         \/ r' = [free EXCEPT !.obj[o].info = NoCache]
  BY DEF VerifyUiSlot, Answered
<1>3. o \in Object
  BY <1>1, <1>2 DEF Calls, Waiting
<1>4. free \in Objects /\ Copied(r, free)
  BY <1>1, <1>3, AutoSet
<1> HIDE DEF free, o
<1>5. CASE r' = SetAutoDestruct(free, o, FALSE)
  <2>1. Copied(free, r')
    BY <1>3, <1>4, <1>5, AutoSet
  <2>2. QED BY <1>1, <1>2, <1>4, <2>1, CopiedOn, ObjectsOnly
<1>6. CASE r' = [free EXCEPT !.obj[o].info = NoCache]
  <2>1. /\ SameLives(free, r') /\ r'.obj[o].info = NoCache
        /\ \A x \in Object \ {o} : r'.obj[x].info = free.obj[x].info
    BY <1>3, <1>4, <1>6, CopyReplaced
  <2>2. Copied(free, r')
    BY <2>1 DEF SameLives, SameLife, Copied
  <2>3. QED BY <1>1, <1>2, <1>4, <2>2, CopiedOn, ObjectsOnly
<1>7. QED BY <1>2, <1>5, <1>6

\* getIdentity().
LEMMA GetKeepsCopies ==
    ASSUME CopiesInv, NEW o \in Object, NEW id \in Id, NEW f, GetIdentity(o, id, f), s' = s
    PROVE  Kept
<1> DEFINE had == IF r.byId[id] = NoObject THEN Create(r, o, id) ELSE r
           t == QueryInfo(s, had, o, FALSE, f).st
           seen == WatchIdentity(t, o)
           kept == KeepInUse(seen, o)
<1>1. s \in State /\ NamesHidden(s.meta) /\ r \in Objects /\ Coherence(s, r, dirty)
  BY CopiesKnown
<1>2. Forget(r') /\ (r' = Destroy(t, o) \/ r' = DestroyUnused(kept))
  BY DEF GetIdentity
<1>3. id \in 0..MaxId
  BY MaxIdAssumption DEF Id
<1>4. had \in Objects /\ Copied(r, had)
  <2>1. CASE r.byId[id] = NoObject
    <3>1. Create(r, o, id) \in Objects /\ Copied(r, Create(r, o, id))
      BY <1>1, <1>3, ObjectCreated
    <3>2. QED BY <2>1, <3>1
  <2>2. CASE r.byId[id] # NoObject
    BY <1>1, <2>2 DEF Copied
  <2>3. QED BY <2>1, <2>2
<1> HIDE DEF had
<1>5. Coherence(s, had, dirty)
  BY <1>1, <1>4, CoherenceKept
<1>6. Coherence(s, t, dirty) /\ t \in Objects
  BY <1>1, <1>4, <1>5, QueriedCoherent, InfoQueried
<1> HIDE DEF t
<1>7. CASE r' = Destroy(t, o)
  <2>1. Copied(t, r')
    BY <1>6, <1>7, ObjectDestroyed
  <2>2. QED BY <1>2, <1>6, <2>1, ObjectsOnly
<1>8. CASE r' = DestroyUnused(kept)
  <2>1. seen \in Objects /\ Copied(t, seen)
    BY <1>6, ObjectWatched
  <2> HIDE DEF seen
  <2>2. kept \in Objects /\ Copied(seen, kept)
    BY <2>1, KeptInUse
  <2> HIDE DEF kept
  <2>3. Copied(kept, r')
    BY <1>8, <2>2, UnusedDestroyed
  <2>4. Copied(t, r')
    BY <2>1, <2>2, <2>3, CopiedOn
  <2>5. QED BY <1>2, <1>6, <2>4, ObjectsOnly
<1>9. QED BY <1>2, <1>7, <1>8

\* The calls that read the copy, or load it.
LEMMA QueryKeepsCopies ==
    ASSUME CopiesInv, NEW o \in Object, NEW peer \in Peer, NEW f,
           \/ GetInfo(o, peer, f)
           \/ VerifySecret(o, peer, f)
           \/ \E c \in Call : RequestCredentialsUpdate(o, c, peer, f)
           \/ \E c \in Call, n \in 0..MaxRetries : VerifyUser(o, c, peer, n, f)
    PROVE  Kept
<1> DEFINE t(query) == QueryInfo(s, r, o, query, f).st
<1>1. s \in State /\ NamesHidden(s.meta) /\ r \in Objects /\ Coherence(s, r, dirty)
  BY CopiesKnown
<1>2. /\ s' = s /\ Forget(r')
      /\ \E query \in BOOLEAN : \/ r' = t(query)
                                \/ r' = KeepInUse(t(query), o)
                                \/ r' = SetAutoDestruct(t(query), o, FALSE)
  <2>1. CASE GetInfo(o, peer, f)
    BY <2>1 DEF GetInfo
  <2>2. CASE VerifySecret(o, peer, f)
    BY <2>2 DEF VerifySecret
  <2>3. CASE \E c \in Call : RequestCredentialsUpdate(o, c, peer, f)
    BY <2>3 DEF RequestCredentialsUpdate, WaitForUi
  <2>4. CASE \E c \in Call, n \in 0..MaxRetries : VerifyUser(o, c, peer, n, f)
    BY <2>4 DEF VerifyUser, WaitForUi
  <2>5. QED BY <2>1, <2>2, <2>3, <2>4
<1>3. \A query \in BOOLEAN : Coherence(s, t(query), dirty) /\ t(query) \in Objects
  BY <1>1, QueriedCoherent, InfoQueried
<1> HIDE DEF t
<1>4. PICK query \in BOOLEAN : \/ r' = t(query)
                               \/ r' = KeepInUse(t(query), o)
                               \/ r' = SetAutoDestruct(t(query), o, FALSE)
  BY <1>2
<1>5. Copied(t(query), r')
  <2>1. CASE r' = t(query)
    BY <2>1 DEF Copied
  <2>2. CASE r' = KeepInUse(t(query), o)
    BY <1>3, <2>2, KeptInUse
  <2>3. CASE r' = SetAutoDestruct(t(query), o, FALSE)
    BY <1>3, <2>3, AutoSet
  <2>4. QED BY <1>4, <2>1, <2>2, <2>3
<1>6. QED BY <1>2, <1>3, <1>5, ObjectsOnly

\* The databases change, and the copies of one identity at most are dropped, or
\* have been changed for ever.
LEMMA IdentityOnly ==
    ASSUME CopiesInv, NamesHidden(s'.meta), NEW id \in 0..MaxId,
           \A i \in Id \ {id} : Exists(s'.meta, i) => Stays(s, s', i),
           \A o \in Object \ dirty' :
               /\ r'.obj[o].st = "alive" /\ r'.obj[o].info # NoCache
               /\ Exists(s'.meta, r'.obj[o].id)
               => /\ o \notin dirty /\ r'.obj[o].id # id
                  /\ r.obj[o].st = "alive" /\ r.obj[o].info = r'.obj[o].info
                  /\ r.obj[o].id = r'.obj[o].id
    PROVE  Kept
<1>1. Coherence(s, r, dirty)
  BY CopiesKnown
<1>2. \A o \in Object \ dirty' :
         /\ r'.obj[o].st = "alive" /\ r'.obj[o].info # NoCache
         /\ Exists(s'.meta, r'.obj[o].id)
         => /\ o \notin dirty
            /\ r.obj[o].st = "alive" /\ r.obj[o].info = r'.obj[o].info
            /\ r.obj[o].id = r'.obj[o].id
            /\ Stays(s, s', r'.obj[o].id)
  BY DEF Exists
<1>3. Coherence(s', r', dirty')
  BY <1>1, <1>2, CoherenceStays
<1>4. QED BY <1>3 DEF Kept

\* Whose copies are dropped, every one.
LEMMA CopiesDropped ==
    ASSUME CopiesInv, NamesHidden(s'.meta), NEW id \in 0..MaxId,
           \A i \in Id \ {id} : Exists(s'.meta, i) => Stays(s, s', i),
           Copied(r, r'), NoCopyOf(r', id), Forget(r')
    PROVE  Kept
<1>1. NewIdentity \notin Id
  BY DEF NewIdentity, Id
<1>2. \A o \in Object \ dirty' :
         /\ r'.obj[o].st = "alive" /\ r'.obj[o].info # NoCache
         /\ Exists(s'.meta, r'.obj[o].id)
         => /\ o \notin dirty /\ r'.obj[o].id # id
            /\ r.obj[o].st = "alive" /\ r.obj[o].info = r'.obj[o].info
            /\ r.obj[o].id = r'.obj[o].id
  BY <1>1 DEF Copied, NoCopyOf, Forget, Exists
<1>3. QED BY <1>2, IdentityOnly

\* remove(): its object is the only one of its identity.
LEMMA RemoveKeepsCopies ==
    ASSUME CopiesInv, NEW o \in Object, NEW c \in Call, NEW peer \in Peer, NEW f \in SomeFaults,
           RemoveIdentityCall(o, c, peer, f)
    PROVE  Kept
<1> DEFINE id == r.obj[o].id
           res == RemoveCredentials(s, id, f)
<1>1. /\ Sound(s) /\ NamesHidden(s.meta) /\ r \in Objects /\ f # "crash"
      /\ Good(r, calls, anew, s.meta.nextId)
  BY CopiesKnown, NoCrash DEF CopiesInv, IInv
<1>2. /\ o \in Alive /\ s' = res.st
      /\ res.ok => r' = SetAutoDestruct(r, o, FALSE) /\ Forget(r')
      /\ ~res.ok => /\ r' = r
                    /\ dirty' = IF r.obj[o].info = NoCache THEN dirty ELSE dirty \cup {o}
  BY DEF RemoveIdentityCall, WaitForUi
<1>3. id \in 0..MaxId /\ (id \in Id \/ id = NewIdentity)
  <2>1. id \in 0..MaxId
    BY <1>1, ObjectFields
  <2>2. QED BY <2>1, MaxIdAssumption DEF Id, NewIdentity
<1>4. \A x \in Object : r.obj[x].st = "alive" /\ r.obj[x].id = id /\ id \in Id => x = o
  <2>1. Connected(r) /\ Found(r)
    BY <1>1 DEF Good, Table
  <2>2. QED BY <1>2, <2>1 DEF Connected, Found, Exist, Alive, Id, NewIdentity
<1>5. /\ NamesHidden(s'.meta) /\ (res.ok => ~Exists(s'.meta, id))
      /\ \A i \in Id \ {id} : Exists(s'.meta, i) => Stays(s, s', i)
  <2>1. CASE id \in Id
    BY <1>1, <1>2, <2>1, RemovalLeaves
  <2>2. CASE id = NewIdentity
    <3>1. s' = s
      BY <1>1, <1>2, <2>2, NoneRemoved
    <3>2. s \in State /\ Coherent(s.meta)
      BY <1>1 DEF Sound
    <3>3. \A i \in Id : Exists(s.meta, i) => Stays(s, s, i)
      <4>1. \A i \in Id : SameRowsOf(s.meta, s.meta, i)
        BY DEF SameRowsOf
      <4>2. QED BY <3>2, <4>1, UntouchedStays
    <3>4. ~Exists(s.meta, NewIdentity)
      BY DEF Exists, Id, NewIdentity
    <3>5. QED BY <1>1, <2>2, <3>1, <3>3, <3>4
  <2>3. QED BY <1>3, <2>1, <2>2
<1> HIDE DEF res, id
<1>6. Copied(r, r')
  <2>1. CASE res.ok
    BY <1>1, <1>2, <2>1, AutoSet
  <2>2. CASE ~res.ok
    BY <1>2, <2>2 DEF Copied
  <2>3. QED BY <2>1, <2>2
<1>7. \A x \in Object \ dirty' :
         /\ r'.obj[x].st = "alive" /\ r'.obj[x].info # NoCache
         /\ Exists(s'.meta, r'.obj[x].id)
         => /\ x \notin dirty /\ r'.obj[x].id # id
            /\ r.obj[x].st = "alive" /\ r.obj[x].info = r'.obj[x].info
            /\ r.obj[x].id = r'.obj[x].id
  <2>1. CASE res.ok
    BY <1>2, <1>5, <1>6, <2>1 DEF Copied, Forget
  <2>2. CASE ~res.ok
    BY <1>2, <1>4, <1>6, <2>2 DEF Copied, Exists
  <2>3. QED BY <2>1, <2>2
<1>8. QED BY <1>3, <1>5, <1>7, IdentityOnly

\* signOut(): the data of the plugins go, which no copy has.
LEMMA SignOutKeepsCopies ==
    ASSUME CopiesInv, NEW o \in Object, NEW c \in Call, NEW peer \in Peer, NEW f,
           SignOut(o, c, peer, f)
    PROVE  Kept
<1> DEFINE res == RemoveData(s, r.obj[o].id, Null, f)
<1>1. s \in State /\ Coherent(s.meta) /\ NamesHidden(s.meta) /\ r \in Objects
  BY CopiesKnown DEF Sound
<1>2. s' = res.st /\ r' = SetAutoDestruct(r, o, FALSE) /\ Forget(r')
  BY DEF SignOut, WaitForUi
<1>3. /\ s' \in State /\ s'.meta = s.meta
      /\ s'.creds = s.creds /\ s'.cache = s.cache /\ s'.open = s.open
  BY <1>1, <1>2, AllDataRemoved
<1> HIDE DEF res
<1>4. ASSUME NEW i \in Id, Exists(s'.meta, i) PROVE Stays(s, s', i)
  <2>1. SameRowsOf(s.meta, s'.meta, i)
    BY <1>3 DEF SameRowsOf
  <2>2. QED BY <1>1, <1>3, <1>4, <2>1, UntouchedStays
<1>5. Copied(r, r')
  BY <1>1, <1>2, AutoSet
<1>6. NewIdentity \in 0..MaxId /\ NewIdentity \notin Id
  BY MaxIdAssumption DEF NewIdentity, Id
<1>7. \A x \in Object \ dirty' :
         /\ r'.obj[x].st = "alive" /\ r'.obj[x].info # NoCache
         /\ Exists(s'.meta, r'.obj[x].id)
         => /\ x \notin dirty /\ r'.obj[x].id # NewIdentity
            /\ r.obj[x].st = "alive" /\ r.obj[x].info = r'.obj[x].info
            /\ r.obj[x].id = r'.obj[x].id
  BY <1>2, <1>5, <1>6 DEF Copied, Forget, Exists
<1>8. QED BY <1>1, <1>3, <1>4, <1>6, <1>7, IdentityOnly

\* store(): the objects of the identity have dropped their copies, but for one
\* that has met an error.
LEMMA StoreKeepsCopies ==
    ASSUME CopiesInv, NEW o \in Object, NEW peer \in Peer, NEW info \in Infos,
           NEW sent \in 0..MaxId, NEW f \in SomeFaults, Store(o, peer, info, sent, f)
    PROVE  Kept
<1> DEFINE used == KeepInUse(r, o)
           new == InfoToStore(used, o, info, sent, peer)
           u == IF new.id = NewIdentity THEN [new EXCEPT !.id = NewIdentity] ELSE new
           res == UpdateCredentials(s, u, f)
           got == CredentialsStored(used, o, new, res)
<1>1. Sound(s) /\ NamesHidden(s.meta) /\ r \in Objects /\ f # "crash"
  BY CopiesKnown, NoCrash
<1>2. /\ new.id = NewIdentity => s.meta.nextId \in Id
      /\ s' = got.s /\ r' = got.r
      /\ dirty' = {x \in dirty \cup (IF got.err THEN {o} ELSE {}) : r'.obj[x].info # NoCache}
  BY DEF Store, StoreCredentials, InsertCredentials
<1>3. used \in Objects /\ Copied(r, used)
  BY <1>1, KeptInUse
<1> HIDE DEF used
<1>4. new \in Info
  BY <1>3, StoredInfo, InfosAssumption
<1> HIDE DEF new
<1>5. u \in Info /\ u.id = new.id
  BY <1>4, MaxIdAssumption DEF Info, NewIdentity
<1> HIDE DEF u
<1>6. got.s = res.st /\ got.err = res.err
  BY DEF CredentialsStored
<1>7. /\ NamesHidden(s'.meta) /\ res.id \in 0..MaxId
      /\ \A i \in Id \ {res.id} : Exists(s'.meta, i) => Stays(s, s', i)
  BY <1>1, <1>2, <1>5, <1>6, StoreUpdated, UpdateLeaves
<1> HIDE DEF res
<1>8. OthersHeard(used, r', o, res.id) /\ (~res.err => r'.obj[o].info = NoCache)
  BY <1>2, <1>3, <1>4, <1>7, ObjectStored
<1> HIDE DEF got
<1>9. \A x \in Object \ dirty' :
         /\ r'.obj[x].st = "alive" /\ r'.obj[x].info # NoCache
         /\ Exists(s'.meta, r'.obj[x].id)
         => /\ x \notin dirty /\ r'.obj[x].id # res.id
            /\ r.obj[x].st = "alive" /\ r.obj[x].info = r'.obj[x].info
            /\ r.obj[x].id = r'.obj[x].id
  <2> SUFFICES ASSUME NEW x \in Object \ dirty', r'.obj[x].st = "alive",
                      r'.obj[x].info # NoCache, Exists(s'.meta, r'.obj[x].id)
               PROVE  /\ x \notin dirty /\ r'.obj[x].id # res.id
                      /\ r.obj[x].st = "alive" /\ r.obj[x].info = r'.obj[x].info
                      /\ r.obj[x].id = r'.obj[x].id
    OBVIOUS
  <2>1. x \notin dirty /\ x # o
    BY <1>2, <1>6, <1>8
  <2>2. /\ used.obj[x].st = "alive" /\ used.obj[x].info = r'.obj[x].info
        /\ used.obj[x].id = r'.obj[x].id
        /\ r'.obj[x].id # res.id \/ res.id = NewIdentity
    BY <1>8, <2>1 DEF OthersHeard
  <2>3. /\ r.obj[x].st = "alive" /\ r.obj[x].info = r'.obj[x].info
        /\ r.obj[x].id = r'.obj[x].id
    BY <1>3, <2>2 DEF Copied
  <2>4. r'.obj[x].id # NewIdentity
    BY DEF Exists, Id, NewIdentity
  <2>5. QED BY <2>1, <2>2, <2>3, <2>4
<1>10. QED BY <1>7, <1>9, IdentityOnly

\* An answer of signon-ui, or a plugin's result, is stored.
LEMMA AnswerKeepsCopies ==
    ASSUME CopiesInv, NEW c \in Call, NEW pass \in Pass, NEW f \in SomeFaults,
           QueryUiSlot(c, pass, f)
    PROVE  Kept
<1> DEFINE o == calls[c].o
           free == SetAutoDestruct(r, o, TRUE)
           info == [r.obj[o].info EXCEPT !.pass = pass, !.hasPass = TRUE]
           res == UpdateCredentials(s, info, f)
           heard == OnCredentialsUpdated(free, res.id)
           dropped == [heard EXCEPT !.obj[o].info = NoCache]
<1>1. /\ calls[c] # NoCall /\ Forget(r')
      /\ r.obj[o].info = NoCache => r' = free /\ s' = s
      /\ r.obj[o].info # NoCache => /\ info.id = NewIdentity => s.meta.nextId \in Id
                                    /\ s' = res.st /\ r' = dropped
  BY DEF QueryUiSlot, Answered
<1>2. /\ Sound(s) /\ NamesHidden(s.meta) /\ r \in Objects /\ f # "crash"
      /\ Coherence(s, r, dirty) /\ Calls(calls)
  BY CopiesKnown, NoCrash
<1>3. o \in Object
  BY <1>1, <1>2 DEF Calls, Waiting
<1>4. free \in Objects /\ Copied(r, free)
  BY <1>2, <1>3, AutoSet
<1> HIDE DEF free, o
<1>5. CASE r.obj[o].info = NoCache
  BY <1>1, <1>2, <1>4, <1>5, ObjectsOnly
<1>6. CASE r.obj[o].info # NoCache
  <2>1. r.obj[o].info \in Info
    BY <1>2, <1>3, <1>6, ObjectFields
  <2>2. info \in Info
    BY <2>1 DEF Info
  <2> HIDE DEF info
  <2>3. /\ NamesHidden(s'.meta) /\ res.id \in 0..MaxId
        /\ \A i \in Id \ {res.id} : Exists(s'.meta, i) => Stays(s, s', i)
    BY <1>1, <1>2, <1>6, <2>2, StoreUpdated, UpdateLeaves
  <2> HIDE DEF res
  <2>4. heard \in Objects /\ Copied(free, heard) /\ NoCopyOf(heard, res.id)
    BY <1>4, UpdateHeard
  <2> HIDE DEF heard
  <2>5. /\ SameLives(heard, dropped) /\ dropped.obj[o].info = NoCache
        /\ \A x \in Object \ {o} : dropped.obj[x].info = heard.obj[x].info
    BY <1>3, <2>4, CopyReplaced
  <2> HIDE DEF dropped
  <2>6. Copied(heard, dropped) /\ NoCopyOf(dropped, res.id)
    BY <2>4, <2>5 DEF SameLives, SameLife, Copied, NoCopyOf
  <2>7. Copied(r, r') /\ NoCopyOf(r', res.id)
    BY <1>1, <1>4, <1>6, <2>4, <2>6, CopiedOn
  <2>8. QED BY <1>1, <2>3, <2>7, CopiesDropped
<1>7. QED BY <1>5, <1>6

LEMMA PluginKeepsCopies ==
    ASSUME CopiesInv, NEW id \in Id, NEW pass \in Pass, NEW f \in SomeFaults,
           UpdatedByPlugin(id, pass, f)
    PROVE  Kept
<1> DEFINE read == Credentials(s, id, TRUE)
           info == [read EXCEPT !.pass = pass, !.hasPass = TRUE]
           res == UpdateCredentials(s, info, f)
<1>1. /\ Exists(s.meta, id) /\ s' = res.st /\ r' = OnCredentialsUpdated(r, res.id)
      /\ Forget(r')
  BY DEF UpdatedByPlugin
<1>2. /\ Sound(s) /\ s \in State /\ NamesHidden(s.meta) /\ r \in Objects /\ f # "crash"
  BY CopiesKnown, NoCrash
<1>3. read \in Info /\ read.id = id
  BY <1>1, <1>2, CredentialsRead
<1> HIDE DEF read
<1>4. info \in Info /\ info.id = read.id
  BY <1>3 DEF Info
<1>5. info.id # NewIdentity
  BY <1>3, <1>4 DEF Id, NewIdentity
<1> HIDE DEF info
<1>6. /\ NamesHidden(s'.meta) /\ res.id \in 0..MaxId
      /\ \A i \in Id \ {res.id} : Exists(s'.meta, i) => Stays(s, s', i)
  BY <1>1, <1>2, <1>4, <1>5, StoreUpdated, UpdateLeaves
<1> HIDE DEF res
<1>7. Copied(r, r') /\ NoCopyOf(r', res.id)
  BY <1>1, <1>2, UpdateHeard
<1>8. QED BY <1>1, <1>6, <1>7, CopiesDropped

\* The databases open or close.
LEMMA OpeningKeepsCopies ==
    ASSUME CopiesInv, SecretsOpened \/ SecretsClosed
    PROVE  Kept
<1>1. Sound(s) /\ s \in State /\ NamesHidden(s.meta) /\ r \in Objects
      /\ Coherence(s, r, dirty)
  BY CopiesKnown
<1>2. s'.meta = s.meta /\ r' = r
  <2>1. LET t == OpenSecretsDB(s, {}, "none")
        IN  t \in State /\ t.meta = s.meta
    BY <1>1, DatabaseOpened
  <2>2. LET t == CloseStorage(s)
        IN  t \in State /\ t.meta = s.meta
    BY <1>1, DatabaseClosed
  <2>3. QED BY <2>1, <2>2 DEF SecretsOpened, SecretsClosed
<1>3. ASSUME NEW o \in Object \ dirty', r.obj[o].info # NoCache, Exists(s.meta, r.obj[o].id)
      PROVE  o \notin dirty /\ Stays(s, s', r.obj[o].id)
  <2> DEFINE i == r.obj[o].id
  <2>1. i \in Id
    BY <1>3 DEF Exists
  <2>2. CASE SecretsOpened
    <3>1. /\ s' = OpenSecretsDB(s, {}, "none") /\ s.open \in BOOLEAN /\ ~s.open
          /\ dirty' = dirty \cup CopiesOf({j \in Cached : ~(s.cache[j].keep /\ s.meta.rows[j].remember)})
      BY <1>1, <2>2 DEF SecretsOpened, State
    <3>2. /\ o \notin dirty
          /\ s.cache[i] # NoSecret => s.cache[i].keep /\ s.meta.rows[i].remember
      BY <1>3, <2>1, <3>1 DEF CopiesOf, Cached
    <3> HIDE DEF i
    <3>3. Stays(s, s', i)
      BY <1>1, <1>3, <2>1, <3>1, <3>2, OpeningLeaves DEF i
    <3>4. QED BY <3>2, <3>3 DEF i
  <2>3. CASE SecretsClosed
    <3>1. /\ s' = CloseStorage(s)
          /\ dirty' = dirty \cup CopiesOf({j \in Cached : s.meta.rows[j].remember})
      BY <2>3 DEF SecretsClosed
    <3>2. o \notin dirty /\ (s.cache[i] # NoSecret => ~s.meta.rows[i].remember)
      BY <1>3, <2>1, <3>1 DEF CopiesOf, Cached
    <3> HIDE DEF i
    <3>3. Stays(s, s', i)
      BY <1>1, <1>3, <2>1, <3>1, <3>2, ClosingLeaves DEF i
    <3>4. QED BY <3>2, <3>3 DEF i
  <2>4. QED BY <2>2, <2>3
<1>4. Coherence(s', r', dirty')
  BY <1>1, <1>2, <1>3, CoherenceStays
<1>5. QED BY <1>1, <1>2, <1>4 DEF Kept

\* The end of the daemon, and its start, which finds no objects.
LEMMA EndKeepsCopies ==
    ASSUME CopiesInv, NotifyTimer \/ Start
    PROVE  Kept
<1>1. Sound(s) /\ s \in State /\ NamesHidden(s.meta)
  BY CopiesKnown
<1>2. s'.meta = s.meta
  <2>1. Crash(s).meta = s.meta
    BY <1>1, CrashLeaves
  <2>2. InitialSecrets(s).meta = s.meta
    BY <1>1, StoreOpened
  <2>3. QED BY <2>1, <2>2 DEF NotifyTimer, Start
<1>3. \A o \in Object : r'.obj[o].st = "free"
  <2>1. CASE NotifyTimer
    BY <2>1 DEF NotifyTimer, NoObjects, FreeObject
  <2>2. CASE Start
    BY <2>2 DEF Start, CopiesInv, Quiet
  <2>3. QED BY <2>1, <2>2
<1>4. Coherence(s', r', dirty')
  BY <1>3 DEF Coherence
<1>5. QED BY <1>1, <1>2, <1>4 DEF Kept

\* Nothing but its timer ends the daemon, and nothing happens in one that has
\* ended, until it starts again.
LEMMA QuietStays == CopiesInv /\ Next => Quiet'
<1> SUFFICES ASSUME CopiesInv, Next
             PROVE  Quiet'
  OBVIOUS
<1> DEFINE Goes == up /\ up' = up
<1>1. up \in BOOLEAN /\ Quiet
  BY Invariant DEF CopiesInv
<1>2. CASE Start \/ NotifyTimer
  BY <1>2 DEF Start, NotifyTimer, Quiet, NoObjects, FreeObject
<1>3. CASE ClientCall /\ ~Start
  <2>1. ASSUME NEW o \in Object, RegisterNewIdentity(o)
        PROVE  Goes
    BY <2>1 DEF RegisterNewIdentity
  <2>2. ASSUME NEW peer \in Peer, NEW id \in Id, AskAccess(peer, id)
        PROVE  Goes
    BY <2>2 DEF AskAccess
  <2>3. ASSUME NEW o, NEW peer, NEW f, NEW id, GetAllowed(o, peer, id, f)
        PROVE  Goes
    BY <2>3 DEF GetAllowed
  <2>4. ASSUME NEW o, NEW peer, NEW f, GetInfo(o, peer, f) \/ VerifySecret(o, peer, f)
        PROVE  Goes
    BY <2>4 DEF GetInfo, VerifySecret, MayUse
  <2>5. ASSUME NEW o, NEW peer, NEW f, NEW c, NEW n,
               RequestCredentialsUpdate(o, c, peer, f) \/ VerifyUser(o, c, peer, n, f)
        PROVE  Goes
    BY <2>5 DEF RequestCredentialsUpdate, VerifyUser, MayUse
  <2>6. ASSUME NEW o, NEW peer, NEW f, NEW c,
               RemoveIdentityCall(o, c, peer, f) \/ SignOut(o, c, peer, f)
        PROVE  Goes
    BY <2>6 DEF RemoveIdentityCall, SignOut, MayUse
  <2>7. ASSUME NEW o, NEW peer, NEW f, NEW info, NEW sent, Store(o, peer, info, sent, f)
        PROVE  Goes
    BY <2>7 DEF Store
  <2> HIDE DEF Goes
  <2>8. Goes
    BY <1>3, <2>1, <2>2, <2>3, <2>4, <2>5, <2>6, <2>7 DEF ClientCall
  <2>9. QED BY <2>8 DEF Goes, Quiet
<1>4. CASE \E c \in Call : UiAnswer(c)
  <2>1. PICK c \in Call : UiAnswer(c)
    BY <1>4
  <2>2. calls[c] # NoCall /\ up' = up
    BY <2>1 DEF UiAnswer, DialogFailed, QueryUiSlot, VerifyUiSlot, Completed, Answered
  <2>3. QED BY <1>1, <2>2 DEF Quiet
<1>5. CASE \E peer \in Peer, id \in Id : AccessAnswer(peer, id)
  <2>1. asking # {} /\ up' = up
    BY <1>5 DEF AccessAnswer, AccessRefused, AccessAccepted
  <2>2. QED BY <1>1, <2>1 DEF Quiet
<1>6. CASE \E o \in Object : Expire(o) \/ DeleteObject(o)
  <2>1. PICK o \in Object : Expire(o) \/ DeleteObject(o)
    BY <1>6
  <2>2. r.obj[o].st # "free" /\ up' = up
    BY <2>1 DEF Expire, DeleteObject, Alive
  <2>3. QED BY <1>1, <2>2 DEF Quiet
<1>7. CASE DisposeTimer \/ Others
  <2>1. DisposeTimer \/ SecretsOpened \/ SecretsClosed => Goes
    BY DEF DisposeTimer, SecretsOpened, SecretsClosed
  <2>2. ASSUME NEW id, NEW pass, NEW f, UpdatedByPlugin(id, pass, f)
        PROVE  Goes
    BY <2>2 DEF UpdatedByPlugin
  <2> HIDE DEF Goes
  <2>3. Goes
    BY <1>7, <2>1, <2>2 DEF Others
  <2>4. QED BY <2>3 DEF Goes, Quiet
<1>8. QED BY <1>2, <1>3, <1>4, <1>5, <1>6, <1>7 DEF Next, Timers

\* The invariant of the copies.
LEMMA CopiesKept == CopiesInv /\ [Next]_vars => CopiesInv'
<1> SUFFICES ASSUME CopiesInv, [Next]_vars
             PROVE  CopiesInv'
  OBVIOUS
<1>1. IInv'
  BY CopiesKnown, InvariantKept
<1>2. CASE UNCHANGED vars
  BY <1>1, <1>2 DEF vars, CopiesInv, Quiet, Coherence
<1>3. CASE Next
  <2>1. Quiet'
    BY <1>3, QuietStays
  <2>2. ASSUME ClientCall
        PROVE  Kept
    <3>1. CASE Start
      BY <3>1, EndKeepsCopies
    <3>2. CASE \/ \E o \in Object : RegisterNewIdentity(o)
               \/ \E peer \in Peer, id \in Id : AskAccess(peer, id)
      BY <3>2, CopyKeepingSteps
    <3>3. CASE \E o \in Object, peer \in Peer, f \in SomeFaults \cap {"none", "query"} :
                  \E id \in Id : GetAllowed(o, peer, id, f)
      BY <3>3, GetKeepsCopies DEF GetAllowed
    <3>4. CASE \E o \in Object, peer \in Peer, f \in SomeFaults \cap {"none", "query"} :
                  \/ GetInfo(o, peer, f)
                  \/ VerifySecret(o, peer, f)
                  \/ \E c \in Call : RequestCredentialsUpdate(o, c, peer, f)
                  \/ \E c \in Call, n \in 0..MaxRetries : VerifyUser(o, c, peer, n, f)
      BY <3>4, QueryKeepsCopies
    <3>5. CASE \E o \in Object, peer \in Peer, f \in SomeFaults \ {"query"} :
                  \E c \in Call : RemoveIdentityCall(o, c, peer, f)
      BY <3>5, RemoveKeepsCopies
    <3>6. CASE \E o \in Object, peer \in Peer, f \in SomeFaults \ {"query"} :
                  \E c \in Call : SignOut(o, c, peer, f)
      BY <3>6, SignOutKeepsCopies
    <3>7. CASE \E o \in Object, peer \in Peer, f \in SomeFaults \ {"query"} :
                  \E info \in Infos, sent \in 0..MaxId : Store(o, peer, info, sent, f)
      BY <3>7, StoreKeepsCopies
    <3>8. QED BY <2>2, <3>1, <3>2, <3>3, <3>4, <3>5, <3>6, <3>7 DEF ClientCall
  <2>3. ASSUME ~ClientCall
        PROVE  Kept
    <3>1. CASE \E c \in Call : UiAnswer(c)
      <4>1. PICK c \in Call : UiAnswer(c)
        BY <3>1
      <4>2. CASE DialogFailed(c) \/ Completed(c)
        BY <4>2, CopyKeepingSteps
      <4>3. CASE \E pass \in Pass, f \in SomeFaults \ {"query"} : QueryUiSlot(c, pass, f)
        BY <4>3, AnswerKeepsCopies
      <4>4. CASE \E pass \in Pass : VerifyUiSlot(c, pass)
        BY <4>4, VerifyKeepsCopies
      <4>5. QED BY <4>1, <4>2, <4>3, <4>4 DEF UiAnswer
    <3>2. CASE \E peer \in Peer, id \in Id : AccessAnswer(peer, id)
      <4>1. PICK peer \in Peer, id \in Id : AccessAnswer(peer, id)
        BY <3>2
      <4>2. CASE AccessRefused(peer, id)
        BY <4>2, CopyKeepingSteps
      <4>3. CASE \E o \in Object, f \in SomeFaults \cap {"none", "query"} :
                    AccessAccepted(o, peer, id, f)
        BY <4>3, GetKeepsCopies DEF AccessAccepted
      <4>4. QED BY <4>1, <4>2, <4>3 DEF AccessAnswer
    <3>3. CASE \E o \in Object : Expire(o) \/ DeleteObject(o)
      BY <3>3, CopyKeepingSteps
    <3>4. CASE Timers
      BY <3>4, CopyKeepingSteps, EndKeepsCopies DEF Timers
    <3>5. CASE Others
      BY <3>5, PluginKeepsCopies, OpeningKeepsCopies DEF Others
    <3>6. QED BY <1>3, <2>3, <3>1, <3>2, <3>3, <3>4, <3>5 DEF Next
  <2>4. QED BY <1>1, <2>1, <2>2, <2>3 DEF CopiesInv, Kept
<1>4. QED BY <1>2, <1>3

LEMMA CopiesInitially == Init => CopiesInv
<1> SUFFICES ASSUME Init
             PROVE  CopiesInv
  OBVIOUS
<1>1. IInv
  BY Initially
<1>2. up = TRUE /\ r = NoObjects /\ s = InitialSecrets(NewState(CreateTables))
  BY DEF Init
<1>3. Coherence(s, r, dirty)
  BY <1>2 DEF Coherence, NoObjects, FreeObject
<1>4. NamesHidden(s.meta)
  <2> DEFINE db == NewState(CreateTables)
  <2>1. CreateTables \in Tables /\ Coherent(CreateTables) /\ Counted(CreateTables)
    BY CreatedTables, NoMethodsCounted
  <2>2. db \in State /\ db.meta = CreateTables
    BY <2>1, NewStateTyped
  <2> HIDE DEF db
  <2>3. s.meta = CreateTables
    BY <1>2, <2>1, <2>2, StoreOpened DEF Sound, db
  <2>4. QED BY <2>3 DEF NamesHidden, CreateTables, NoRow
<1>5. QED BY <1>1, <1>2, <1>3, <1>4 DEF CopiesInv, Quiet

-----------------------------------------------------------------------------
(* The theorems *)

\* The daemon's objects, tables and waiting calls stay what they are declared to
\* be: no operation of SignonDaemon, SignonIdentity or CredentialsDB writes
\* outside them, in any order of calls, answers, timers and faults.
THEOREM IdentitiesTyped == Spec => []TypeOK
<1>1. IInv => TypeOK
  BY DEF IInv
<1>2. QED BY <1>1, Invariance, PTL

\* setAutoDestruct() and destroyUnused(): an object is there as long as a call
\* that no other has overtaken waits for signon-ui, however many calls there are.
THEOREM WaitingKeptHolds == Spec => []WaitingKept
<1>1. IInv => WaitingKept
  <2> SUFFICES ASSUME IInv, NEW c \in Call, calls[c] # NoCall, ~calls[c].over
               PROVE  calls[c].o \in Alive
    BY DEF WaitingKept
  <2>1. calls[c].o \in Object
    BY Invariant DEF Calls, Waiting
  <2>2. r.obj[calls[c].o].st = "alive"
    BY DEF IInv, Good, Keeps
  <2>3. QED BY <2>1, <2>2 DEF Alive
<1>2. QED BY <1>1, Invariance, PTL

\* onIdentityStored() and onIdentityDestroyed(): the daemon's table names each
\* stored identity's only object, and nothing that is deleted, but for objects
\* that have been stored as new twice.
THEOREM MapSoundHolds == Spec => []MapSound
<1>1. IInv => MapSound
  <2> SUFFICES ASSUME IInv
               PROVE  MapSound
    OBVIOUS
  <2>1. Connected(r) /\ Named(r, anew) /\ Found(r)
    BY DEF IInv, Good, Table
  <2>2. ASSUME NEW i \in Id, r.byId[i] # NoObject, r.byId[i] \notin anew
        PROVE  r.byId[i] \in Existing(r) /\ r.obj[r.byId[i]].id = i
    BY <2>1, <2>2 DEF Named, Exist, Existing
  <2>3. ASSUME NEW o \in Alive, r.obj[o].id # NewIdentity
        PROVE  r.byId[r.obj[o].id] = o
    BY <2>1, <2>3 DEF Connected, Found, Exist, Alive
  <2>4. QED BY <2>2, <2>3 DEF MapSound
<1>2. QED BY <1>1, Invariance, PTL

\* SignonDisposable: the list that the inactivity timer goes through has every
\* object that lives, so that each is destroyed in the end, and no deleted one.
THEOREM ObjectsListedHolds == Spec => []ObjectsListed
<1>1. IInv => ObjectsListed
  BY DEF IInv, Good, Lists, Exist, ObjectsListed, Alive, Listed, Existing
<1>2. QED BY <1>1, Invariance, PTL

\* onCredentialsUpdated() and queryInfo(): the row that an object keeps of its
\* identity, and the secret with it, if any, are what the databases would give
\* now, whichever object of the identity, or plugin, has stored something since.
\* Out of date is only what an object has met an error with, and a secret that
\* the opening or the closing of the secure storage has hidden.
THEOREM CacheCoherentHolds == Spec => []CacheCoherent
<1>1. Spec => []CopiesInv
  BY CopiesInitially, CopiesKept, PTL DEF Spec
<1>2. CopiesInv => CacheCoherent
  BY DEF CopiesInv, Coherence, CacheCoherent, Alive
<1>3. QED BY <1>1, <1>2, PTL
=============================================================================
