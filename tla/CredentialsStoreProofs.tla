------------------------ MODULE CredentialsStoreProofs ------------------------
(* The invariants of the credentials database, for every value of the        *)
(* constants.  TypeOK and the coherence of the tables are inductive together *)
(* (Typed); each of the properties then has an invariant of its own, which   *)
(* the steps keep because of what the operations of CredentialsDB leave in   *)
(* the two databases and in the cache (CredentialsDBProofs).                 *)
EXTENDS CredentialsStore, CredentialsDBProofs

-----------------------------------------------------------------------------
(* Types, and what each action does to the state of the databases *)

Typed == TypeOK /\ Coherent(s.meta)

\* The initial history.
LEMMA InitTyped == Init => Typed
<1> SUFFICES ASSUME Init PROVE Typed
  OBVIOUS
<1>1. PICK d \in Tables : Coherent(d) /\ s = NewState(d)
  BY CreatedTables, OldTablesAssumption DEF Init
<1>2. s \in State /\ Coherent(s.meta)
  BY <1>1, NewStateTyped
<1>3. /\ alive \in BOOLEAN /\ version \in {NoFile, 0, 1, 2}
      /\ given \in SUBSET (Id \X Pass) /\ superseded \in [Id -> SUBSET Pass]
      /\ fixed \in SUBSET Id
      /\ data \in [Id \X MethodId -> Blob \cup {Null}]
  BY EntriesTyped DEF Init
<1>4. QED BY <1>2, <1>3 DEF Typed, TypeOK

\* What is forgotten with the daemon or with the secrets of ids.
LEMMA ForgottenTyped ==
    ASSUME TypeOK, s' \in State, NEW ids, Forgotten(ids)
    PROVE  /\ superseded' \in [Id -> SUBSET Pass]
           /\ data' \in [Id \X MethodId -> Blob \cup {Null}]
<1>1. superseded' \in [Id -> SUBSET Pass]
  BY DEF Forgotten, TypeOK
<1>2. data' \in [Id \X MethodId -> Blob \cup {Null}]
  BY DEF Forgotten, TypeOK, State
<1>3. QED BY <1>1, <1>2

\* An identity that clients store, under one of the numbers there are.
LEMMA InfoWithId ==
    ASSUME NEW info \in Infos, NEW id \in Id \cup {NewIdentity}
    PROVE  LET new == [info EXCEPT !.id = id]
           IN  /\ new \in Info /\ new.id = id
               /\ new.user = info.user /\ new.pass = info.pass
               /\ new.hasPass = info.hasPass
               /\ new.remember = info.remember /\ new.secretName = info.secretName
               /\ new.methods = info.methods /\ new.acl = info.acl
               /\ new.owners = info.owners /\ new.realms = info.realms
               /\ new.hasPass <=> new.pass # Null
<1>1. info \in Info /\ (info.hasPass <=> info.pass # Null)
  BY InfosAssumption
<1>2. id \in 0..MaxId
  BY MaxIdAssumption DEF Id, NewIdentity
<1>3. QED BY <1>1, <1>2 DEF Info

\* The faults of the storage and of the daemon, of an update in which the
\* metadata is stored as the identity i.
UpdateOutcome(u, meta, f) ==
    LET i == meta.id
    IN  \/ i = NewIdentity /\ NothingStored(s, s') /\ UNCHANGED <<history, alive>>
        \/ /\ i \in Id /\ f = "crash" /\ alive' = FALSE
           /\ LostWithDaemon(s, s') /\ Forgotten(Cached \cup {i})
        \/ /\ i \in Id /\ f # "crash" /\ UNCHANGED <<alive, data>>
           /\ superseded' = [superseded EXCEPT ![i] =
                 IF ~u.hasPass THEN @ ELSE IF f = "secrets" THEN {} ELSE Pass \ {u.pass}]
           /\ \/ ~HasSecrets(u) /\ NothingStored(s, s')
              \/ f = "secrets" /\ u.remember /\ s.open /\ NothingStored(s, s')
              \/ /\ f # "secrets" /\ u.remember /\ s.open
                 /\ StoredInDatabase(s, s', i, u.pass)
              \/ /\ HasSecrets(u) /\ ~(u.remember /\ s.open)
                 /\ StoredInCache(s, s', i, SecretUser(u), u.pass, u.remember)

UpdateHistory(u, meta, f) ==
    LET i == meta.id
    IN  /\ given' = IF u.remember /\ u.hasPass THEN given \cup {<<i, u.pass>>} ELSE given
        /\ fixed' = IF Exists(s.meta, i) /\ s.meta.rows[i].remember # u.remember
                    THEN fixed \ {i} ELSE fixed
        /\ last' = [last EXCEPT ![i] =
                       IF ~Exists(s'.meta, i) THEN @
                       ELSE [info |-> IF f \in Unchecked /\ Exists(s.meta, i)
                                      THEN Mixed(last[i].info, Metadata(u)) ELSE Metadata(u),
                             mixed |-> f \in Unchecked]]

\* updateCredentials() and insertCredentials().
LEMMA UpdateStep ==
    ASSUME Typed, NEW info \in Infos, NEW id \in Id \cup {NewIdentity},
           NEW f \in SomeFaults, Update([info EXCEPT !.id = id], f)
    PROVE  LET u == [info EXCEPT !.id = id]
               meta == UpdateIdentity(s.meta, u, f)
           IN  /\ s' \in State /\ Coherent(s'.meta)
               /\ s'.meta = meta.st /\ s'.store = s.store
               /\ u.id = NewIdentity => s.meta.nextId \in Id
               /\ InsertMethods(s.meta, DOMAIN u.methods).nextMethod <= MaxMethodId + 1
               /\ alive /\ UNCHANGED version
               /\ UpdateOutcome(u, meta, f)
               /\ meta.id # NewIdentity => UpdateHistory(u, meta, f)
<1> DEFINE u == [info EXCEPT !.id = id]
           meta == UpdateIdentity(s.meta, u, f)
           res == UpdateCredentials(s, u, f)
<1>1. u \in Info /\ (u.hasPass <=> u.pass # Null)
  BY InfoWithId
<1> HIDE DEF u
<1>2. /\ s \in State /\ s.meta \in Tables /\ Coherent(s.meta)
      /\ alive \in BOOLEAN
  BY DEF Typed, TypeOK, State
<1>3. /\ alive /\ version' = version
      /\ u.id = NewIdentity => s.meta.nextId \in Id
      /\ InsertMethods(s.meta, DOMAIN u.methods).nextMethod <= MaxMethodId + 1
      /\ s' = res.st /\ alive' = (f # "crash" \/ res.id = NewIdentity)
  BY DEF Update, u
<1>4. meta.st \in Tables /\ Coherent(meta.st) /\ meta.id \in {NewIdentity, StoredId(s.meta, u)}
  BY <1>1, <1>2, <1>3, IdentityUpdated
<1>5. meta.id \in 0..MaxId /\ (meta.id # NewIdentity => meta.id \in Id)
  BY <1>1, <1>3, <1>4, InfoFields, MaxIdAssumption DEF StoredId, Id, NewIdentity
<1>6. res = StoreSecrets(s, u, meta, f)
  BY DEF UpdateCredentials
<1> HIDE DEF meta, res
<1>7. /\ res.id = meta.id
      /\ res.st \in State /\ res.st.meta = meta.st /\ res.st.store = s.store
      /\ \/ /\ \/ meta.id = NewIdentity
               \/ f # "crash" /\ ~HasSecrets(u)
               \/ f = "secrets" /\ HasSecrets(u) /\ u.remember /\ s.open
            /\ NothingStored(s, res.st)
         \/ /\ meta.id \in Id /\ f = "crash"
            /\ LostWithDaemon(s, res.st)
         \/ /\ meta.id \in Id /\ f \notin {"crash", "secrets"}
            /\ HasSecrets(u) /\ u.remember /\ s.open
            /\ StoredInDatabase(s, res.st, meta.id, u.pass)
         \/ /\ meta.id \in Id /\ f # "crash"
            /\ HasSecrets(u) /\ ~(u.remember /\ s.open)
            /\ StoredInCache(s, res.st, meta.id, SecretUser(u), u.pass, u.remember)
  BY <1>1, <1>2, <1>4, <1>5, <1>6, SecretsStored
<1>8. meta.id = NewIdentity => UNCHANGED history
  BY <1>7 DEF Update, u, res
<1>9. ASSUME meta.id # NewIdentity
      PROVE  /\ UpdateHistory(u, meta, f)
             /\ f = "crash" => Forgotten(Cached \cup {meta.id})
             /\ f # "crash" =>
                  /\ data' = data
                  /\ superseded' = [superseded EXCEPT ![meta.id] =
                        IF ~u.hasPass THEN @
                        ELSE IF f = "secrets" THEN {} ELSE Pass \ {u.pass}]
  BY <1>3, <1>7, <1>9 DEF Update, UpdateHistory, u, res
<1>10. UpdateOutcome(u, meta, f)
  <2>1. CASE meta.id = NewIdentity
    <3>1. NothingStored(s, s')
      BY <1>3, <1>7, <2>1 DEF Id, NewIdentity
    <3>2. alive' = alive
      BY <1>2, <1>3, <1>7, <2>1
    <3>3. QED BY <1>8, <2>1, <3>1, <3>2 DEF UpdateOutcome
  <2>2. CASE meta.id # NewIdentity /\ f = "crash"
    <3>1. LostWithDaemon(s, s')
      BY <1>3, <1>7, <2>2
    <3>2. alive' = FALSE
      BY <1>3, <1>7, <2>2
    <3>3. QED BY <1>5, <1>9, <2>2, <3>1, <3>2 DEF UpdateOutcome
  <2>3. CASE meta.id # NewIdentity /\ f # "crash"
    <3>1. alive' = alive
      BY <1>2, <1>3, <1>7, <2>3
    <3>2. QED BY <1>3, <1>5, <1>7, <1>9, <2>3, <3>1 DEF UpdateOutcome
  <2>4. QED BY <2>1, <2>2, <2>3
<1>11. QED BY <1>3, <1>4, <1>7, <1>9, <1>10 DEF u, meta
\* The secrets of ids are removed: with what comes of the metadata, or with the
\* daemon, or not at all.
RemoveOutcome(ids, meta, f) ==
    \/ s' = s /\ UNCHANGED <<alive, superseded, data>>
    \/ /\ s.open /\ f = "crash" /\ alive' = FALSE /\ s'.meta = s.meta
       /\ GoneWithDaemon(s, s', ids) /\ Forgotten(Cached \cup ids)
    \/ /\ s.open /\ UNCHANGED <<alive, superseded>> /\ s'.meta = meta
       /\ GoneOnly(s, s', ids)
       /\ data' = [x \in Id \X MethodId |-> IF x[1] \in ids THEN Null ELSE data[x]]

LEMMA RemoveStep ==
    ASSUME Typed, NEW id \in Id, NEW f \in SomeFaults, Remove(id, f)
    PROVE  LET meta == RemoveIdentity(s.meta, id, f).st
           IN  /\ s' \in State /\ Coherent(s'.meta) /\ alive
               /\ UNCHANGED <<version, given, fixed, last>>
               /\ RemoveOutcome({id}, meta, f)
<1> DEFINE res == RemoveCredentials(s, id, f)
           meta == RemoveIdentity(s.meta, id, f)
<1>1. /\ s \in State /\ s.meta \in Tables /\ Coherent(s.meta)
  BY DEF Typed, TypeOK, State
<1>2. /\ alive /\ s' = res.st /\ Removes({id}, f)
      /\ UNCHANGED <<version, given, fixed, last>>
  BY DEF Remove, Removes
<1>3. meta.st \in Tables /\ Coherent(meta.st)
  BY <1>1, IdentityRemoved
<1>4. /\ res.st \in State
      /\ \/ (~s.open \/ f = "secrets") /\ res.st = s
         \/ /\ s.open /\ f = "crash"
            /\ res.st.meta = s.meta /\ GoneWithDaemon(s, res.st, {id})
         \/ /\ s.open /\ f \notin {"crash", "secrets"}
            /\ res.st.meta = meta.st /\ GoneOnly(s, res.st, {id})
  BY <1>1, CredentialsRemoved
<1> HIDE DEF res, meta
<1>5. RemoveOutcome({id}, meta.st, f)
  BY <1>2, <1>4 DEF Removes, RemoveOutcome
<1>6. Coherent(s'.meta)
  BY <1>1, <1>2, <1>3, <1>4
<1>7. QED BY <1>2, <1>4, <1>5, <1>6 DEF meta

LEMMA ClearStep ==
    ASSUME Typed, NEW f \in SomeFaults, Clear(f)
    PROVE  LET meta == ClearMetaData(s.meta, f).st
           IN  /\ s' \in State /\ Coherent(s'.meta) /\ alive
               /\ UNCHANGED <<version, given, fixed, last>>
               /\ RemoveOutcome(Id, meta, f)
<1> DEFINE res == ClearCredentials(s, f)
           meta == ClearMetaData(s.meta, f)
<1>1. /\ s \in State /\ s.meta \in Tables /\ Coherent(s.meta)
  BY DEF Typed, TypeOK, State
<1>2. /\ alive /\ s' = res.st /\ Removes(Id, f)
      /\ UNCHANGED <<version, given, fixed, last>>
  BY DEF Clear, Removes
<1>3. meta.st \in Tables /\ Coherent(meta.st)
  BY <1>1, TablesCleared
<1>4. /\ res.st \in State
      /\ \/ (~s.open \/ f = "secrets") /\ res.st = s
         \/ /\ s.open /\ f = "crash"
            /\ res.st.meta = s.meta /\ GoneWithDaemon(s, res.st, Id)
         \/ /\ s.open /\ f \notin {"crash", "secrets"}
            /\ res.st.meta = meta.st /\ GoneOnly(s, res.st, Id)
  BY <1>1, CredentialsCleared
<1> HIDE DEF res, meta
<1>5. RemoveOutcome(Id, meta.st, f)
  BY <1>2, <1>4 DEF Removes, RemoveOutcome
<1>6. Coherent(s'.meta)
  BY <1>1, <1>2, <1>3, <1>4
<1>7. QED BY <1>2, <1>4, <1>5, <1>6 DEF meta

\* storeData(), of the data blob under x.
StoreOutcome(x, blob) ==
    \/ s' = s /\ UNCHANGED <<alive, superseded, data>>
    \/ /\ alive' = FALSE /\ s'.store = s.store /\ LostWithDaemon(s, s') /\ Forgotten(Cached)
    \/ /\ UNCHANGED <<alive, superseded>>
       /\ \/ s.open /\ s'.store = s.store /\ NothingStored(s, s') /\ data' = data
          \/ /\ s.open /\ blob \notin Huge /\ DataStored(s, s', x, blob)
             /\ data' = [data EXCEPT ![x] = blob]
          \/ /\ ~s.open /\ DataCached(s, s', x, blob)
             /\ data' = [data EXCEPT ![x] = IF blob \in Huge THEN s.store[x] ELSE blob]

LEMMA StoreStep ==
    ASSUME Typed, NEW id \in Id, NEW m \in Method, NEW blob \in Blob,
           NEW f \in SomeFaults, Store(id, m, blob, f)
    PROVE  LET meta == InsertMethods(s.meta, {m})
               x == <<id, meta.methods[m]>>
           IN  /\ s' \in State /\ Coherent(s'.meta) /\ alive
               /\ meta.nextMethod <= MaxMethodId + 1
               /\ s'.meta \in {s.meta, meta} /\ x \in Id \X MethodId
               /\ UNCHANGED <<version, given, fixed, last>>
               /\ StoreOutcome(x, blob)
<1> DEFINE res == StoreData(s, id, m, blob, f)
           meta == InsertMethods(s.meta, {m})
           x == <<id, meta.methods[m]>>
<1>1. /\ s \in State /\ s.meta \in Tables /\ Coherent(s.meta)
  BY DEF Typed, TypeOK, State
<1>2. /\ alive /\ s' = res.st /\ meta.nextMethod <= MaxMethodId + 1
      /\ alive' = (f # "crash")
      /\ f = "crash" => Forgotten(Cached)
      /\ f # "crash" => UNCHANGED superseded
      /\ f # "crash" =>
           data' = IF ~res.ok THEN data
                   ELSE [data EXCEPT ![x] = IF blob \in Huge THEN s.store[x] ELSE blob]
      /\ UNCHANGED <<version, given, fixed, last>>
  BY DEF Store
<1>3. /\ res.st \in State /\ meta.methods[m] \in MethodId
      /\ \/ f = "exec" /\ res.st = s /\ ~res.ok
         \/ /\ f = "crash" /\ ~res.ok
            /\ res.st.meta = meta /\ res.st.store = s.store /\ LostWithDaemon(s, res.st)
         \/ /\ f # "crash" /\ s.open /\ ~res.ok
            /\ res.st.meta = meta /\ res.st.store = s.store /\ NothingStored(s, res.st)
         \/ /\ f # "crash" /\ s.open /\ res.ok
            /\ blob \notin Huge
            /\ res.st.meta = meta /\ DataStored(s, res.st, x, blob)
         \/ /\ f # "crash" /\ ~s.open /\ res.ok
            /\ res.st.meta = meta /\ DataCached(s, res.st, x, blob)
  BY <1>1, <1>2, DataOutcome
<1>4. Coherent(meta)
  BY <1>1, <1>2, MethodsKeepCoherence
<1>5. x \in Id \X MethodId
  BY <1>3
<1>6. alive \in BOOLEAN
  BY DEF Typed, TypeOK
<1> HIDE DEF res, meta, x
<1>7. StoreOutcome(x, blob)
  <2>1. CASE f = "crash"
    <3>1. alive' = FALSE
      BY <1>2, <2>1
    <3>2. QED BY <1>2, <1>3, <2>1, <3>1 DEF StoreOutcome
  <2>2. CASE f # "crash"
    <3>1. alive' = alive
      BY <1>2, <1>6, <2>2
    <3>2. QED BY <1>2, <1>3, <2>2, <3>1 DEF StoreOutcome
  <2>3. QED BY <2>1, <2>2
<1>8. s'.meta \in {s.meta, meta}
  BY <1>2, <1>3
<1>9. QED BY <1>1, <1>2, <1>3, <1>4, <1>5, <1>7, <1>8 DEF meta, x
\* removeData(), of one identity's methods.
LEMMA RemoveDataStep ==
    ASSUME Typed, NEW id \in Id, NEW m \in Method \cup {Null}, NEW f \in SomeFaults,
           RemoveDataOf(id, m, f)
    PROVE  LET ns == IF m = Null THEN MethodId ELSE {MethodIdOf(s.meta, m)}
           IN  /\ s' \in State /\ Coherent(s'.meta) /\ alive
               /\ UNCHANGED <<alive, version, given, superseded, fixed, last>>
               /\ \/ s' = s /\ UNCHANGED data
                  \/ /\ s.open /\ s'.meta = s.meta /\ DataGone(s, s', id, ns)
                     /\ data' = [x \in Id \X MethodId |->
                                    IF x[1] = id /\ x[2] \in ns THEN Null ELSE data[x]]
<1> DEFINE res == RemoveData(s, id, m, f)
           ns == IF m = Null THEN MethodId ELSE {MethodIdOf(s.meta, m)}
           left == [x \in Id \X MethodId |->
                       IF x[1] = id /\ (m = Null \/ x[2] = MethodIdOf(s.meta, m))
                       THEN Null ELSE data[x]]
           gone == [x \in Id \X MethodId |->
                       IF x[1] = id /\ x[2] \in ns THEN Null ELSE data[x]]
<1>1. s \in State /\ Coherent(s.meta)
  BY DEF Typed, TypeOK
<1>2. /\ alive /\ s' = res.st
      /\ data' = IF res.ok THEN left ELSE data
      /\ UNCHANGED <<alive, version, given, superseded, fixed, last>>
  BY DEF RemoveDataOf
<1>3. /\ res.st \in State
      /\ \/ ~res.ok /\ res.st = s
         \/ /\ res.ok /\ s.open
            /\ res.st.meta = s.meta /\ DataGone(s, res.st, id, ns)
  BY <1>1, DataRemoved
<1>4. left = gone
  OBVIOUS
<1> HIDE DEF res, left, gone, ns
<1>5. QED BY <1>1, <1>2, <1>3, <1>4 DEF gone, ns

\* The references touch nothing but their table and the tokens.
SameSecrets(v, t) == t.open = v.open /\ SameDatabase(v, t) /\ SameCache(v, t)

LEMMA ReferStep ==
    ASSUME Typed, NEW id \in Id, NEW t \in Token \cup {Null}, NEW f,
           \/ \E r \in Reference : Refer(id, t, r, f)
           \/ \E r \in Reference \cup {Null} : Unrefer(id, t, r, f)
    PROVE  /\ s' \in State /\ Coherent(s'.meta) /\ alive
           /\ SameLists(s.meta, s'.meta) /\ SameSecrets(s, s')
           /\ UNCHANGED <<alive, version>> /\ UNCHANGED history
<1>1. s \in State /\ s.meta \in Tables /\ Coherent(s.meta)
  BY DEF Typed, TypeOK, State
<1>2. PICK d \in Tables : /\ Coherent(d) /\ SameLists(s.meta, d)
                          /\ alive /\ s' = [s EXCEPT !.meta = d]
                          /\ UNCHANGED <<alive, version>> /\ UNCHANGED history
  <2>1. CASE \E r \in Reference : Refer(id, t, r, f)
    <3>1. PICK r \in Reference : Refer(id, t, r, f)
      BY <2>1
    <3> DEFINE d == AddReference(s.meta, id, t, r, f).st
    <3>2. d \in Tables /\ Coherent(d) /\ SameLists(s.meta, d)
      BY <1>1, ReferenceAdded DEF SameLists
    <3>3. /\ alive /\ s' = [s EXCEPT !.meta = d]
          /\ UNCHANGED <<alive, version>> /\ UNCHANGED history
      BY <3>1 DEF Refer, ReferenceCall
    <3> HIDE DEF d
    <3>4. QED BY <3>2, <3>3
  <2>2. CASE \E r \in Reference \cup {Null} : Unrefer(id, t, r, f)
    <3>1. PICK r \in Reference \cup {Null} : Unrefer(id, t, r, f)
      BY <2>2
    <3> DEFINE d == RemoveReference(s.meta, id, t, r, f).st
    <3>2. d \in Tables /\ Coherent(d) /\ SameLists(s.meta, d)
      BY <1>1, ReferenceRemoved DEF SameLists
    <3>3. /\ alive /\ s' = [s EXCEPT !.meta = d]
          /\ UNCHANGED <<alive, version>> /\ UNCHANGED history
      BY <3>1 DEF Unrefer, ReferenceCall
    <3> HIDE DEF d
    <3>4. QED BY <3>2, <3>3
  <2>3. QED BY <2>1, <2>2
<1>3. s' \in State /\ s'.meta = d /\ SameSecrets(s, s')
  BY <1>1, <1>2, TablesReplaced DEF SameSecrets
<1>4. QED BY <1>2, <1>3

\* The storage comes, without the entries of the cache that are lost, or fails.
LEMMA OpenStep ==
    ASSUME Typed, NEW lost, NEW f, Open(lost, f)
    PROVE  /\ s' \in State /\ Coherent(s'.meta) /\ s'.meta = s.meta
           /\ alive /\ ~s.open
           /\ UNCHANGED <<alive, version, given, fixed, last>>
           /\ \/ SameSecrets(s, s') /\ UNCHANGED <<superseded, data>>
              \/ /\ Opened(s, s', lost)
                 /\ superseded' = [i \in Id |-> IF i \in lost THEN {} ELSE superseded[i]]
                 /\ data' = [x \in Id \X MethodId |->
                                IF x[1] \in lost THEN s.store[x] ELSE data[x]]
<1> DEFINE t == OpenSecretsDB(s, lost, f)
<1>1. s \in State /\ Coherent(s.meta) /\ s.open \in BOOLEAN
  BY DEF Typed, TypeOK, State
<1>2. /\ alive /\ ~s.open /\ s' = t
      /\ UNCHANGED <<alive, version, given, fixed, last>>
      /\ f = "secrets" => UNCHANGED <<superseded, data>>
      /\ f # "secrets" =>
            /\ superseded' = [i \in Id |-> IF i \in lost THEN {} ELSE superseded[i]]
            /\ data' = [x \in Id \X MethodId |->
                           IF x[1] \in lost THEN s.store[x] ELSE data[x]]
  BY DEF Open
<1>3. /\ t \in State /\ t.meta = s.meta
      /\ f # "secrets" => Opened(s, t, lost)
      /\ f = "secrets" => /\ t.open = FALSE
                          /\ SameDatabase(s, t) /\ SameCache(s, t)
  BY <1>1, DatabaseOpened
<1> HIDE DEF t
<1>4. CASE f = "secrets"
  <2>1. t.open = s.open
    BY <1>1, <1>2, <1>3, <1>4
  <2>2. QED BY <1>1, <1>2, <1>3, <1>4, <2>1 DEF SameSecrets
<1>5. CASE f # "secrets"
  BY <1>1, <1>2, <1>3, <1>5
<1>6. QED BY <1>4, <1>5

\* The storage goes; what is in the databases and the cache stays.
LEMMA CloseStep ==
    ASSUME Typed, Close
    PROVE  /\ s' \in State /\ Coherent(s'.meta) /\ s'.meta = s.meta
           /\ alive /\ s.open /\ s'.open = FALSE
           /\ SameDatabase(s, s') /\ SameCache(s, s')
           /\ UNCHANGED <<alive, version>> /\ UNCHANGED history
<1>1. s \in State /\ Coherent(s.meta)
  BY DEF Typed, TypeOK
<1>2. QED BY <1>1, DatabaseClosed DEF Close

\* The daemon stops, with its cache.
LEMMA StopStep ==
    ASSUME Typed, Stop
    PROVE  /\ s' \in State /\ Coherent(s'.meta) /\ s'.meta = s.meta
           /\ alive /\ alive' = FALSE
           /\ s'.store = s.store /\ LostWithDaemon(s, s') /\ Forgotten(Cached)
           /\ UNCHANGED <<version, given, fixed, last>>
<1>1. s \in State /\ Coherent(s.meta)
  BY DEF Typed, TypeOK
<1>2. QED BY <1>1, CrashLeaves DEF Stop, LostWithDaemon, SameDatabase

\* It starts: the tables are made, converted, or left as they are.
LEMMA StartStep ==
    ASSUME Typed, NEW f, Start(f)
    PROVE  /\ s' \in State /\ Coherent(s'.meta)
           /\ ~alive /\ alive' = TRUE /\ version' \in {0, 2}
           /\ version' = 0 => version = 0 \/ f = "version"
           /\ version \in {NoFile, 0} => s'.meta = CreateTables
           /\ version = 1 => s'.meta = UpdateFrom1(s.meta)
           /\ version = 2 => s'.meta = s.meta
           /\ SameSecrets(s, s') /\ UNCHANGED history
<1> DEFINE d == IF version \in {NoFile, 0} THEN CreateTables
                ELSE IF version = 1 THEN UpdateFrom1(s.meta) ELSE s.meta
<1>1. /\ s \in State /\ s.meta \in Tables /\ Coherent(s.meta)
      /\ version \in {NoFile, 0, 1, 2}
  BY DEF Typed, TypeOK, State
<1>2. d \in Tables /\ Coherent(d)
  BY <1>1, CreatedTables, TablesConverted
<1>3. /\ ~alive /\ alive' = TRUE /\ version' = IF version = 0 \/ f = "version" THEN 0 ELSE 2
      /\ s' = [s EXCEPT !.meta = d] /\ UNCHANGED history
  BY DEF Start
<1>4. /\ version \in {NoFile, 0} => d = CreateTables
      /\ version = 1 => d = UpdateFrom1(s.meta)
      /\ version = 2 => d = s.meta
  BY DEF NoFile
<1> HIDE DEF d
<1>5. s' \in State /\ s'.meta = d /\ SameSecrets(s, s')
  BY <1>1, <1>2, <1>3, TablesReplaced DEF SameSecrets
<1>6. version' \in {0, 2} /\ (version' = 0 => version = 0 \/ f = "version")
  BY <1>3
<1>7. QED BY <1>2, <1>3, <1>4, <1>5, <1>6

\* The actions, for the proofs that go through them.
LEMMA NextSteps ==
    ASSUME Next
    PROVE  \/ Stop
           \/ Close
           \/ \E f \in SomeFaults : Start(f)
           \/ \E f \in SomeFaults, info \in Infos, id \in Id \cup {NewIdentity} :
                 id < s.meta.nextId /\ Update([info EXCEPT !.id = id], f)
           \/ \E f \in SomeFaults, id \in Id : Remove(id, f)
           \/ \E f \in SomeFaults : Clear(f)
           \/ \E f \in SomeFaults, id \in Id, m \in Method, blob \in Blob :
                 Store(id, m, blob, f)
           \/ \E f \in SomeFaults, id \in Id, m \in Method \cup {Null} :
                 RemoveDataOf(id, m, f)
           \/ \E f \in SomeFaults, id \in Id, t \in Token \cup {Null} :
                 \/ \E r \in Reference : Refer(id, t, r, f)
                 \/ \E r \in Reference \cup {Null} : Unrefer(id, t, r, f)
           \/ \E f, lost : Open(lost, f)
BY DEF Next

LEMMA UpdateTyped ==
    ASSUME Typed, NEW info \in Infos, NEW id \in Id \cup {NewIdentity},
           NEW f \in SomeFaults, Update([info EXCEPT !.id = id], f)
    PROVE  Typed'
<1> DEFINE u == [info EXCEPT !.id = id]
           meta == UpdateIdentity(s.meta, u, f)
           stays == superseded' = [superseded EXCEPT ![meta.id] =
                       IF ~u.hasPass THEN @
                       ELSE IF f = "secrets" THEN {} ELSE Pass \ {u.pass}]
<1>1. /\ s' \in State /\ Coherent(s'.meta)
      /\ version' = version /\ alive
      /\ UpdateOutcome(u, meta, f)
      /\ meta.id # NewIdentity => UpdateHistory(u, meta, f)
  BY UpdateStep
<1>2. u \in Info /\ (u.hasPass <=> u.pass # Null)
  BY InfoWithId
<1>3. u.hasPass => u.pass \in Pass
  BY <1>2, InfoFields
<1>4. TypeOK
  BY DEF Typed
<1> HIDE DEF u, meta
<1>5. /\ alive' \in BOOLEAN
      /\ meta.id \in Id \cup {NewIdentity}
      /\ \/ UNCHANGED <<superseded, data>>
         \/ Forgotten(Cached \cup {meta.id})
         \/ stays /\ UNCHANGED data
  BY <1>1, <1>4 DEF UpdateOutcome, TypeOK, history
<1>6. /\ superseded' \in [Id -> SUBSET Pass]
      /\ data' \in [Id \X MethodId -> Blob \cup {Null}]
  <2>1. CASE UNCHANGED <<superseded, data>>
    BY <1>4, <2>1 DEF TypeOK
  <2>2. CASE Forgotten(Cached \cup {meta.id})
    BY <1>1, <1>4, <2>2, ForgottenTyped
  <2>3. CASE stays /\ UNCHANGED data
    BY <1>4, <2>3 DEF TypeOK
  <2>4. QED BY <1>5, <2>1, <2>2, <2>3
<1>7. given' \in SUBSET (Id \X Pass) /\ fixed' \in SUBSET Id
  <2>1. CASE meta.id = NewIdentity
    BY <1>1, <1>4, <2>1 DEF UpdateOutcome, TypeOK, history, Id, NewIdentity
  <2>2. CASE meta.id # NewIdentity
    BY <1>1, <1>3, <1>4, <1>5, <2>2 DEF UpdateHistory, TypeOK
  <2>3. QED BY <2>1, <2>2
<1>8. QED BY <1>1, <1>4, <1>5, <1>6, <1>7 DEF Typed, TypeOK

LEMMA RemoveTyped ==
    ASSUME Typed, s' \in State, Coherent(s'.meta),
           UNCHANGED <<version, given, fixed, last>>,
           NEW ids, NEW meta, NEW f, RemoveOutcome(ids, meta, f)
    PROVE  Typed'
<1>1. TypeOK
  BY DEF Typed
<1>2. /\ superseded' \in [Id -> SUBSET Pass]
      /\ data' \in [Id \X MethodId -> Blob \cup {Null}]
      /\ alive' \in BOOLEAN
  <2>1. CASE UNCHANGED <<alive, superseded, data>>
    BY <1>1, <2>1 DEF TypeOK
  <2>2. CASE Forgotten(Cached \cup ids) /\ alive' = FALSE
    BY <1>1, <2>2, ForgottenTyped
  <2>3. CASE /\ UNCHANGED <<alive, superseded>>
             /\ data' = [x \in Id \X MethodId |-> IF x[1] \in ids THEN Null ELSE data[x]]
    BY <1>1, <2>3 DEF TypeOK
  <2>4. QED BY <2>1, <2>2, <2>3 DEF RemoveOutcome
<1>3. QED BY <1>1, <1>2 DEF Typed, TypeOK

LEMMA StoreTyped ==
    ASSUME Typed, NEW id \in Id, NEW m \in Method, NEW blob \in Blob,
           NEW f \in SomeFaults, Store(id, m, blob, f)
    PROVE  Typed'
<1> DEFINE x == <<id, InsertMethods(s.meta, {m}).methods[m]>>
<1>1. /\ s' \in State /\ Coherent(s'.meta) /\ x \in Id \X MethodId
      /\ UNCHANGED <<version, given, fixed, last>>
      /\ StoreOutcome(x, blob)
  BY StoreStep
<1>2. TypeOK
  BY DEF Typed
<1> HIDE DEF x
<1>3. /\ superseded' \in [Id -> SUBSET Pass]
      /\ data' \in [Id \X MethodId -> Blob \cup {Null}]
      /\ alive' \in BOOLEAN
  <2>1. CASE UNCHANGED <<alive, superseded, data>>
    BY <1>2, <2>1 DEF TypeOK
  <2>2. CASE Forgotten(Cached) /\ alive' = FALSE
    BY <1>1, <1>2, <2>2, ForgottenTyped
  <2>3. CASE /\ UNCHANGED <<alive, superseded>>
             /\ \E b \in Blob \cup {Null} : data' = [data EXCEPT ![x] = b]
    BY <1>1, <1>2, <2>3 DEF TypeOK
  <2>4. s.store[x] \in Blob \cup {Null}
    BY <1>1, <1>2 DEF TypeOK, State
  <2>5. QED BY <1>1, <2>1, <2>2, <2>3, <2>4 DEF StoreOutcome
<1>4. QED BY <1>1, <1>2, <1>3 DEF Typed, TypeOK

LEMMA OpenTyped ==
    ASSUME Typed, NEW lost, NEW f, Open(lost, f)
    PROVE  Typed'
<1>1. /\ s' \in State /\ Coherent(s'.meta)
      /\ UNCHANGED <<alive, version, given, fixed, last>>
      /\ \/ UNCHANGED <<superseded, data>>
         \/ /\ superseded' = [i \in Id |-> IF i \in lost THEN {} ELSE superseded[i]]
            /\ data' = [x \in Id \X MethodId |->
                           IF x[1] \in lost THEN s.store[x] ELSE data[x]]
  BY OpenStep
<1>2. TypeOK
  BY DEF Typed
<1>3. /\ superseded' \in [Id -> SUBSET Pass]
      /\ data' \in [Id \X MethodId -> Blob \cup {Null}]
  BY <1>1, <1>2 DEF TypeOK, State
<1>4. QED BY <1>1, <1>2, <1>3 DEF Typed, TypeOK

LEMMA TypedNext ==
    ASSUME Typed, [Next]_vars
    PROVE  Typed'
<1>1. CASE Stop
  <2>1. /\ s' \in State /\ Coherent(s'.meta) /\ alive' = FALSE /\ Forgotten(Cached)
        /\ UNCHANGED <<version, given, fixed, last>>
    BY <1>1, StopStep
  <2>2. QED BY <2>1, ForgottenTyped DEF Typed, TypeOK
<1>2. CASE Close
  <2>1. /\ s' \in State /\ Coherent(s'.meta)
        /\ UNCHANGED <<alive, version>> /\ UNCHANGED history
    BY <1>2, CloseStep
  <2>2. QED BY <2>1 DEF Typed, TypeOK, history
<1>3. CASE \E f \in SomeFaults : Start(f)
  <2>1. /\ s' \in State /\ Coherent(s'.meta) /\ alive' = TRUE /\ version' \in {0, 2}
        /\ UNCHANGED history
    BY <1>3, StartStep
  <2>2. QED BY <2>1 DEF Typed, TypeOK, history
<1>4. CASE \E f \in SomeFaults, info \in Infos, id \in Id \cup {NewIdentity} :
              id < s.meta.nextId /\ Update([info EXCEPT !.id = id], f)
  BY <1>4, UpdateTyped
<1>5. CASE \E f \in SomeFaults, id \in Id : Remove(id, f)
  BY <1>5, RemoveStep, RemoveTyped
<1>6. CASE \E f \in SomeFaults : Clear(f)
  BY <1>6, ClearStep, RemoveTyped
<1>7. CASE \E f \in SomeFaults, id \in Id, m \in Method, blob \in Blob : Store(id, m, blob, f)
  BY <1>7, StoreTyped
<1>8. CASE \E f \in SomeFaults, id \in Id, m \in Method \cup {Null} : RemoveDataOf(id, m, f)
  <2>1. PICK f \in SomeFaults, id \in Id, m \in Method \cup {Null} : RemoveDataOf(id, m, f)
    BY <1>8
  <2> DEFINE ns == IF m = Null THEN MethodId ELSE {MethodIdOf(s.meta, m)}
  <2>2. /\ s' \in State /\ Coherent(s'.meta)
        /\ UNCHANGED <<alive, version, given, superseded, fixed, last>>
        /\ \/ UNCHANGED data
           \/ data' = [x \in Id \X MethodId |->
                          IF x[1] = id /\ x[2] \in ns THEN Null ELSE data[x]]
    BY <2>1, RemoveDataStep
  <2> HIDE DEF ns
  <2>3. data' \in [Id \X MethodId -> Blob \cup {Null}]
    BY <2>2 DEF Typed, TypeOK
  <2>4. QED BY <2>2, <2>3 DEF Typed, TypeOK
<1>9. CASE \E f \in SomeFaults, id \in Id, t \in Token \cup {Null} :
              \/ \E r \in Reference : Refer(id, t, r, f)
              \/ \E r \in Reference \cup {Null} : Unrefer(id, t, r, f)
  <2>1. /\ s' \in State /\ Coherent(s'.meta)
        /\ UNCHANGED <<alive, version>> /\ UNCHANGED history
    BY <1>9, ReferStep
  <2>2. QED BY <2>1 DEF Typed, TypeOK, history
<1>10. CASE \E f, lost : Open(lost, f)
  BY <1>10, OpenTyped
<1>11. CASE UNCHANGED vars
  BY <1>11 DEF Typed, TypeOK, vars
<1>12. QED BY <1>1, <1>2, <1>3, <1>4, <1>5, <1>6, <1>7, <1>8, <1>9, <1>10, <1>11,
             NextSteps

LEMMA AlwaysTyped == Spec => []Typed
<1>1. Init => Typed
  BY InitTyped
<1>2. Typed /\ [Next]_vars => Typed'
  BY TypedNext
<1>3. QED BY <1>1, <1>2, PTL DEF Spec
-----------------------------------------------------------------------------
(* An update that fails, and a removal that succeeds *)

\* updateIdentity() returns no identity only when it has changed nothing, of an
\* identity that is there or is new.
LEMMA FailedUpdateIsNone ==
    ASSUME NEW d \in Tables, NEW u \in Info, NEW f,
           u.id = NewIdentity => d.nextId \in Id,
           u.id # NewIdentity => Exists(d, u.id),
           UpdateIdentity(d, u, f).id = NewIdentity
    PROVE  UpdateIdentity(d, u, f).st = d
<1> DEFINE id == IF u.id = NewIdentity THEN d.nextId ELSE u.id
           row == UpdateRow(d, id, u)
           res == IF f \in {"begin", "exec"} THEN Failed(d, f = "exec")
                  ELSE IF \/ ViolatesForeignKey(row, id, u.realms)
                          \/ f = "realm" /\ u.realms # {}
                  THEN Failed(d, TRUE)
                  ELSE IF ViolatesForeignKey(row, id, AclInserted(row, id, u, f))
                  THEN UpdateOfMissing(d, u, f)
                  ELSE IF f = "commit" THEN Failed(d, FALSE)
                  ELSE [Done(UpdateLists(row, id, u, f)) EXCEPT !.err = ListsError(id, u, f)]
<1>1. id \in Id
  BY DEF Exists
<1>2. Exists(row, id)
  BY <1>1, RowUpdated
<1>3. ~ViolatesForeignKey(row, id, AclInserted(row, id, u, f))
  BY <1>2 DEF ViolatesForeignKey
<1>4. UpdateIdentity(d, u, f) = [st |-> res.st, id |-> IF res.ok THEN id ELSE NewIdentity,
                                 err |-> res.err]
  BY DEF UpdateIdentity
<1>5. id # NewIdentity
  BY <1>1 DEF Id, NewIdentity
<1>6. res.ok \/ res.st = d
  BY <1>3 DEF Failed, Done
<1> HIDE DEF res, id
<1>7. ~res.ok
  BY <1>4, <1>5
<1>8. QED BY <1>4, <1>6, <1>7

LEMMA TypedFailsWhole ==
    ASSUME Typed
    PROVE  UpdateFailsWhole
<1> SUFFICES ASSUME NEW info \in Infos, NEW f \in SomeFaults,
                    NEW id \in {i \in Id : Exists(s.meta, i)}
                        \cup (IF s.meta.nextId \in Id THEN {NewIdentity} ELSE {}),
                    UpdateCredentials(s, [info EXCEPT !.id = id], f).id = NewIdentity
             PROVE  UpdateCredentials(s, [info EXCEPT !.id = id], f).st = s
  BY DEF UpdateFailsWhole
<1> DEFINE u == [info EXCEPT !.id = id]
           meta == UpdateIdentity(s.meta, u, f)
           updated == [s EXCEPT !.meta = meta.st]
           res == UpdateCredentials(s, u, f)
<1>1. s \in State /\ s.meta \in Tables
  BY DEF Typed, TypeOK, State
<1>2. u \in Info /\ u.id = id
  BY InfoWithId
<1>3. /\ u.id = NewIdentity => s.meta.nextId \in Id
      /\ u.id # NewIdentity => Exists(s.meta, u.id)
  BY <1>2 DEF Exists, Id, NewIdentity
<1> HIDE DEF u
<1>4. res = StoreSecrets(s, u, meta, f)
  BY DEF UpdateCredentials
<1>5. meta.id = NewIdentity /\ res.st = updated
  BY <1>4 DEF u, StoreSecrets
<1>6. meta.st = s.meta
  BY <1>1, <1>2, <1>3, <1>5, FailedUpdateIsNone
<1> HIDE DEF meta, res
<1>7. updated = s
  BY <1>1, <1>6 DEF State
<1>8. QED BY <1>5, <1>7 DEF u, res

\* An update of an identity that fails changes nothing of it
\* (CredentialsStore!UpdateFailsWhole; updateCredentials()).
THEOREM UpdateFailsWholeHolds == Spec => []UpdateFailsWhole
<1>1. Typed => UpdateFailsWhole
  BY TypedFailsWhole
<1>2. QED BY <1>1, AlwaysTyped, PTL

LEMMA TypedRemovesAll ==
    ASSUME Typed
    PROVE  RemovalComplete
<1> SUFFICES ASSUME NEW id \in Id, NEW f \in SomeFaults,
                    RemoveCredentials(s, id, f).ok
             PROVE  LET t == RemoveCredentials(s, id, f).st
                    IN  /\ t.creds[id] = NoSecret
                        /\ \A n \in MethodId : t.store[<<id, n>>] = Null
                        /\ ~Exists(t.meta, id)
                        /\ OwnerList(t.meta, id) = {}
                        /\ References(t.meta, id, Null) = {}
  BY DEF RemovalComplete
<1> DEFINE t == RemoveCredentials(s, id, f).st
           meta == RemoveIdentity(s.meta, id, f)
<1>1. /\ s \in State /\ s.meta \in Tables /\ Coherent(s.meta)
  BY DEF Typed, TypeOK, State
<1>2. meta.ok /\ t.meta = meta.st /\ GoneOnly(s, t, {id})
  BY <1>1, CredentialsRemoved
<1>3. /\ meta.st.rows[id] = NoRow
      /\ \A o \in meta.st.owner : o[1] # id
      /\ \A q \in meta.st.refs : q[1] # id
  BY <1>1, <1>2, IdentityRemoved
<1> HIDE DEF t, meta
<1>4. t.creds[id] = NoSecret /\ \A n \in MethodId : t.store[<<id, n>>] = Null
  BY <1>2 DEF GoneOnly, SecretsGone
<1>5. ~Exists(t.meta, id) /\ OwnerList(t.meta, id) = {} /\ References(t.meta, id, Null) = {}
  BY <1>2, <1>3 DEF Exists, OwnerList, References
<1>6. QED BY <1>4, <1>5 DEF t

\* When the removal of an identity succeeds nothing of it is left
\* (CredentialsStore!RemovalComplete; removeCredentials(), and the triggers).
THEOREM RemovalCompleteHolds == Spec => []RemovalComplete
<1>1. Typed => RemovalComplete
  BY TypedRemovesAll
<1>2. QED BY <1>1, AlwaysTyped, PTL

\* The state of the databases keeps its types (CredentialsStore!TypeOK).
THEOREM TypeOKHolds == Spec => []TypeOK
<1>1. Typed => TypeOK
  BY DEF Typed
<1>2. QED BY <1>1, AlwaysTyped, PTL
-----------------------------------------------------------------------------
(* Passwords that are not to be remembered *)

\* What is to be written back is to be remembered.
KeptGiven ==
    \A i \in Id : s.cache[i] # NoSecret /\ s.cache[i].keep /\ s.cache[i].pass # Null
                    => <<i, s.cache[i].pass>> \in given

\* A step after which there is no password but those there were.
NoNewPassword ==
    \A i \in Id : /\ s'.creds[i] \in {s.creds[i], NoSecret}
                  /\ \/ s'.cache[i] \in {s.cache[i], NoSecret}
                     \/ s'.cache[i].pass = Null

Remembered == KeptGiven /\ NotRememberedNotStored

LEMMA RememberedStays ==
    ASSUME Remembered, NoNewPassword, given \subseteq given'
    PROVE  Remembered'
BY DEF Remembered, KeptGiven, NotRememberedNotStored, NoNewPassword

LEMMA NoneIsNew ==
    /\ NothingStored(s, s') \/ LostWithDaemon(s, s') => NoNewPassword
    /\ \A ids : GoneOnly(s, s', ids) \/ GoneWithDaemon(s, s', ids) => NoNewPassword
    /\ \A x \in Id \X MethodId : \A blob : DataCached(s, s', x, blob) => NoNewPassword
    /\ SameDatabase(s, s') /\ SameCache(s, s') => NoNewPassword
    /\ s' = s => NoNewPassword
<1>1. NothingStored(s, s') => NoNewPassword
  BY DEF NothingStored, SameCache, NoNewPassword
<1>2. LostWithDaemon(s, s') => NoNewPassword
  BY DEF LostWithDaemon, NoEntries, NoNewPassword
<1>3. \A ids : GoneOnly(s, s', ids) => NoNewPassword
  BY DEF GoneOnly, SecretsGone, SameCache, NoNewPassword
<1>4. \A ids : GoneWithDaemon(s, s', ids) => NoNewPassword
  BY DEF GoneWithDaemon, SecretsGone, NoEntries, NoNewPassword
<1>5. ASSUME NEW x \in Id \X MethodId, NEW blob, DataCached(s, s', x, blob)
      PROVE  NoNewPassword
  BY <1>5 DEF DataCached, SameDatabase, NoNewPassword
<1>6. SameDatabase(s, s') /\ SameCache(s, s') => NoNewPassword
  BY DEF SameDatabase, SameCache, NoNewPassword
<1>7. s' = s => NoNewPassword
  BY DEF NoNewPassword
<1>8. QED BY <1>1, <1>2, <1>3, <1>4, <1>5, <1>6, <1>7

LEMMA RememberedUpdate ==
    ASSUME Typed, Remembered, NEW info \in Infos, NEW id \in Id \cup {NewIdentity},
           NEW f \in SomeFaults, Update([info EXCEPT !.id = id], f)
    PROVE  Remembered'
<1> DEFINE u == [info EXCEPT !.id = id]
           meta == UpdateIdentity(s.meta, u, f)
<1>1. /\ UpdateOutcome(u, meta, f)
      /\ meta.id # NewIdentity => UpdateHistory(u, meta, f)
  BY UpdateStep
<1>2. u.hasPass <=> u.pass # Null
  BY InfoWithId
<1> HIDE DEF u, meta
<1>3. given \subseteq given'
  BY <1>1 DEF UpdateOutcome, UpdateHistory, history, Id, NewIdentity
<1>4. ASSUME meta.id \in Id, u.remember, u.pass # Null
      PROVE  <<meta.id, u.pass>> \in given'
  <2>1. UpdateHistory(u, meta, f)
    BY <1>1, <1>4 DEF Id, NewIdentity
  <2>2. u.hasPass
    BY <1>2, <1>4
  <2>3. given' = IF u.remember /\ u.hasPass THEN given \cup {<<meta.id, u.pass>>} ELSE given
    BY <2>1 DEF UpdateHistory
  <2>4. QED BY <1>4, <2>2, <2>3
<1>5. CASE NothingStored(s, s') \/ LostWithDaemon(s, s')
  BY <1>3, <1>5, NoneIsNew, RememberedStays
<1>6. CASE meta.id \in Id /\ u.remember /\ StoredInDatabase(s, s', meta.id, u.pass)
  <2>1. KeptGiven'
    BY <1>3, <1>6 DEF StoredInDatabase, SameCache, Remembered, KeptGiven
  <2>2. NotRememberedNotStored'
    BY <1>3, <1>4, <1>6 DEF StoredInDatabase, Remembered, NotRememberedNotStored
  <2>3. QED BY <2>1, <2>2 DEF Remembered
<1>7. CASE /\ meta.id \in Id
           /\ StoredInCache(s, s', meta.id, SecretUser(u), u.pass, u.remember)
  <2>1. NotRememberedNotStored'
    BY <1>3, <1>7 DEF StoredInCache, Remembered, NotRememberedNotStored
  <2>2. KeptGiven'
    BY <1>3, <1>4, <1>7 DEF StoredInCache, Remembered, KeptGiven
  <2>3. QED BY <2>1, <2>2 DEF Remembered
<1>8. QED BY <1>1, <1>5, <1>6, <1>7 DEF UpdateOutcome

LEMMA RememberedOpen ==
    ASSUME Typed, Remembered, NEW lost, NEW f, Open(lost, f)
    PROVE  Remembered'
<1>1. /\ given' = given
      /\ SameSecrets(s, s') \/ Opened(s, s', lost)
  BY OpenStep
<1>2. CASE SameSecrets(s, s')
  BY <1>1, <1>2, NoneIsNew, RememberedStays DEF SameSecrets
<1>3. CASE Opened(s, s', lost)
  <2>1. KeptGiven'
    BY <1>3 DEF Opened, KeptGiven, NoEntries
  <2>2. ASSUME NEW i \in Id, s'.creds[i] # NoSecret, s'.creds[i].pass # Null
        PROVE  <<i, s'.creds[i].pass>> \in given'
    <3>1. CASE WritesBack(s, lost, i)
      <4>1. s'.creds[i] = Written(s.cache[i]) /\ s.cache[i] # NoSecret
        BY <1>3, <3>1 DEF Opened, WritesBack
      <4>2. s.cache[i] \in Entry
        BY <4>1 DEF Typed, TypeOK, State
      <4>3. s.cache[i].keep /\ s'.creds[i].pass = s.cache[i].pass
        BY <2>2, <4>1, <4>2, EntryIsWritten DEF Entry
      <4>4. QED BY <1>1, <2>2, <4>1, <4>3 DEF Remembered, KeptGiven
    <3>2. CASE ~WritesBack(s, lost, i)
      BY <1>1, <1>3, <2>2, <3>2 DEF Opened, Remembered, NotRememberedNotStored
    <3>3. QED BY <3>1, <3>2
  <2>3. NotRememberedNotStored'
    BY <2>2 DEF NotRememberedNotStored
  <2>4. QED BY <2>1, <2>3 DEF Remembered
<1>4. QED BY <1>1, <1>2, <1>3

LEMMA RememberedNext ==
    ASSUME Typed, Remembered, [Next]_vars
    PROVE  Remembered'
<1>1. CASE Stop
  BY <1>1, StopStep, NoneIsNew, RememberedStays
<1>2. CASE Close
  BY <1>2, CloseStep, NoneIsNew, RememberedStays DEF history
<1>3. CASE \E f \in SomeFaults : Start(f)
  BY <1>3, StartStep, NoneIsNew, RememberedStays DEF history, SameSecrets
<1>4. CASE \E f \in SomeFaults, info \in Infos, id \in Id \cup {NewIdentity} :
              id < s.meta.nextId /\ Update([info EXCEPT !.id = id], f)
  BY <1>4, RememberedUpdate
<1>5. CASE \E f \in SomeFaults, id \in Id : Remove(id, f)
  BY <1>5, RemoveStep, NoneIsNew, RememberedStays DEF RemoveOutcome
<1>6. CASE \E f \in SomeFaults : Clear(f)
  BY <1>6, ClearStep, NoneIsNew, RememberedStays DEF RemoveOutcome
<1>7. CASE \E f \in SomeFaults, id \in Id, m \in Method, blob \in Blob : Store(id, m, blob, f)
  <2>1. PICK f \in SomeFaults, id \in Id, m \in Method, blob \in Blob : Store(id, m, blob, f)
    BY <1>7
  <2> DEFINE x == <<id, InsertMethods(s.meta, {m}).methods[m]>>
  <2>2. x \in Id \X MethodId /\ given' = given /\ StoreOutcome(x, blob)
    BY <2>1, StoreStep
  <2> HIDE DEF x
  <2>3. NoNewPassword
    BY <2>2, NoneIsNew DEF StoreOutcome, DataStored
  <2>4. QED BY <2>2, <2>3, RememberedStays
<1>8. CASE \E f \in SomeFaults, id \in Id, m \in Method \cup {Null} : RemoveDataOf(id, m, f)
  BY <1>8, RemoveDataStep, NoneIsNew, RememberedStays DEF DataGone
<1>9. CASE \E f \in SomeFaults, id \in Id, t \in Token \cup {Null} :
              \/ \E r \in Reference : Refer(id, t, r, f)
              \/ \E r \in Reference \cup {Null} : Unrefer(id, t, r, f)
  BY <1>9, ReferStep, NoneIsNew, RememberedStays DEF history, SameSecrets
<1>10. CASE \E f, lost : Open(lost, f)
  BY <1>10, RememberedOpen
<1>11. CASE UNCHANGED vars
  BY <1>11, NoneIsNew, RememberedStays DEF vars
<1>12. QED BY <1>1, <1>2, <1>3, <1>4, <1>5, <1>6, <1>7, <1>8, <1>9, <1>10, <1>11,
             NextSteps

\* The state of the databases that are found at the first start.
LEMMA FoundDatabases ==
    ASSUME Init
    PROVE  \E d \in Tables :
              /\ Coherent(d) /\ s.meta = d /\ s.open = FALSE
              /\ s.creds = NoEntries /\ s.store = NoBlobs
              /\ s.cache = NoEntries /\ s.blobs = NoBlobs
              /\ version = NoFile => d = CreateTables
<1>1. PICK d \in Tables : /\ Coherent(d) /\ s = NewState(d)
                          /\ version = NoFile => d = CreateTables
  BY CreatedTables, OldTablesAssumption DEF Init, NoFile
<1>2. QED BY <1>1, NewStateTyped

\* A password reaches the disk only when its identity was to remember it
\* (CredentialsStore!NotRememberedNotStored; storeToDB(), updateCredentials()).
THEOREM NotRememberedNotStoredHolds == Spec => []NotRememberedNotStored
<1>1. Init => Remembered
  BY FoundDatabases DEF Remembered, KeptGiven, NotRememberedNotStored, NoEntries
<1>2. Typed /\ Remembered /\ [Next]_vars => Remembered'
  BY RememberedNext
<1>3. Remembered => NotRememberedNotStored
  BY DEF Remembered
<1>4. QED BY <1>1, <1>2, <1>3, AlwaysTyped, PTL DEF Spec
-----------------------------------------------------------------------------
(* The data of plugins *)

\* What was stored is in the database, or waits in the cache to be written back.
DataKept ==
    \A x \in Id \X MethodId :
       /\ s.open => s.store[x] = data[x] /\ s.blobs[x] = Null
       /\ ~s.open => data[x] = IF s.blobs[x] \notin Huge \cup {Null}
                               THEN s.blobs[x] ELSE s.store[x]
       /\ s.blobs[x] # Null => s.cache[x[1]] # NoSecret

\* The data stays where it is.
LEMMA DataStays ==
    ASSUME DataKept, s'.open = s.open, s'.store = s.store, s'.blobs = s.blobs,
           \A i \in Id : s.cache[i] # NoSecret => s'.cache[i] # NoSecret,
           data' = data
    PROVE  DataKept'
<1>1. \A x \in Id \X MethodId : x[1] \in Id
  OBVIOUS
<1>2. QED BY <1>1 DEF DataKept

\* The daemon stops, after the data of ids has been taken away.
LEMMA DataLost ==
    ASSUME DataKept, NEW ids, Forgotten(Cached \cup ids),
           s'.open = FALSE, s'.blobs = NoBlobs,
           \A x \in Id \X MethodId : x[1] \notin ids => s'.store[x] = s.store[x]
    PROVE  DataKept'
<1> SUFFICES ASSUME NEW x \in Id \X MethodId
             PROVE  data'[x] = s'.store[x] /\ s'.blobs[x] = Null
  BY DEF DataKept
<1>1. x[1] \in Id /\ s'.blobs[x] = Null
  BY DEF NoBlobs
<1>2. data'[x] = IF x[1] \in Cached \cup ids THEN s'.store[x] ELSE data[x]
  BY DEF Forgotten
<1>3. CASE x[1] \in Cached \cup ids
  BY <1>1, <1>2, <1>3
<1>4. CASE x[1] \notin Cached \cup ids
  <2>1. s.cache[x[1]] = NoSecret
    BY <1>1, <1>4 DEF Cached
  <2>2. data[x] = s.store[x]
    BY <2>1 DEF DataKept
  <2>3. QED BY <1>1, <1>2, <1>4, <2>2
<1>5. QED BY <1>3, <1>4

\* The data of ids is removed from an open database.
LEMMA DataTaken ==
    ASSUME DataKept, s.open, s'.open, SameCache(s, s'),
           NEW gone, gone \in SUBSET (Id \X MethodId),
           \A x \in Id \X MethodId :
              s'.store[x] = IF x \in gone THEN Null ELSE s.store[x],
           \A x \in Id \X MethodId : data'[x] = IF x \in gone THEN Null ELSE data[x]
    PROVE  DataKept'
BY DEF DataKept, SameCache

LEMMA DataRemove ==
    ASSUME Typed, DataKept, NEW ids, NEW meta, NEW f, RemoveOutcome(ids, meta, f)
    PROVE  DataKept'
<1>1. CASE s' = s /\ UNCHANGED <<alive, superseded, data>>
  BY <1>1 DEF DataKept
<1>2. CASE /\ GoneWithDaemon(s, s', ids) /\ Forgotten(Cached \cup ids)
  <2>1. /\ s'.open = FALSE /\ s'.blobs = NoBlobs
        /\ \A x \in Id \X MethodId : x[1] \notin ids => s'.store[x] = s.store[x]
    BY <1>2 DEF GoneWithDaemon, SecretsGone
  <2>2. QED BY <1>2, <2>1, DataLost
<1>3. CASE /\ s.open /\ GoneOnly(s, s', ids)
           /\ data' = [x \in Id \X MethodId |-> IF x[1] \in ids THEN Null ELSE data[x]]
  <2> DEFINE gone == {x \in Id \X MethodId : x[1] \in ids}
  <2>1. /\ s'.open /\ SameCache(s, s')
        /\ \A x \in Id \X MethodId :
              s'.store[x] = IF x \in gone THEN Null ELSE s.store[x]
    BY <1>3 DEF GoneOnly, SecretsGone
  <2>2. \A x \in Id \X MethodId : data'[x] = IF x \in gone THEN Null ELSE data[x]
    BY <1>3
  <2>3. gone \in SUBSET (Id \X MethodId)
    OBVIOUS
  <2> HIDE DEF gone
  <2>4. QED BY <1>3, <2>1, <2>2, <2>3, DataTaken
<1>4. QED BY <1>1, <1>2, <1>3 DEF RemoveOutcome

LEMMA DataStore ==
    ASSUME Typed, DataKept, NEW x \in Id \X MethodId, NEW blob \in Blob, StoreOutcome(x, blob)
    PROVE  DataKept'
<1>1. /\ data \in [Id \X MethodId -> Blob \cup {Null}] /\ x[1] \in Id
      /\ s.cache \in [Id -> Entry \cup {NoSecret}]
  BY DEF Typed, TypeOK, State
<1>2. blob # Null
  BY PassAssumption
<1>3. CASE s' = s /\ UNCHANGED <<alive, superseded, data>>
  BY <1>3 DEF DataKept
<1>4. CASE s'.store = s.store /\ LostWithDaemon(s, s') /\ Forgotten(Cached)
  <2>1. Forgotten(Cached \cup {})
    BY <1>4
  <2>2. QED BY <1>4, <2>1, DataLost DEF LostWithDaemon
<1>5. CASE s.open /\ s'.store = s.store /\ NothingStored(s, s') /\ data' = data
  BY <1>5, DataStays DEF NothingStored, SameCache
<1>6. CASE /\ s.open /\ blob \notin Huge /\ DataStored(s, s', x, blob)
           /\ data' = [data EXCEPT ![x] = blob]
  <2>1. /\ data'[x] = blob
        /\ \A y \in (Id \X MethodId) \ {x} : data'[y] = data[y]
    BY <1>1, <1>6
  <2>2. QED BY <1>6, <2>1 DEF DataKept, DataStored, NothingStored, SameCache
<1>7. CASE /\ ~s.open /\ DataCached(s, s', x, blob)
           /\ data' = [data EXCEPT ![x] = IF blob \in Huge THEN s.store[x] ELSE blob]
  <2>1. /\ data'[x] = IF blob \in Huge THEN s.store[x] ELSE blob
        /\ \A y \in (Id \X MethodId) \ {x} : data'[y] = data[y]
    BY <1>1, <1>7
  <2>2. /\ s'.open = s.open /\ s'.store = s.store
        /\ s'.blobs[x] = blob
        /\ \A y \in (Id \X MethodId) \ {x} : s'.blobs[y] = s.blobs[y]
    BY <1>7 DEF DataCached, SameDatabase
  <2>3. /\ s'.cache[x[1]] # NoSecret
        /\ \A i \in Id : s.cache[i] # NoSecret => s'.cache[i] # NoSecret
    <3>1. s.cache[x[1]] = NoSecret => s'.cache[x[1]] \in Entry
      BY <1>7 DEF DataCached
    <3>2. \A i \in Id : i # x[1] \/ s.cache[i] # NoSecret => s'.cache[i] = s.cache[i]
      BY <1>7 DEF DataCached
    <3>3. QED BY <1>1, <3>1, <3>2, SecretIsThere
  <2>4. ASSUME NEW y \in Id \X MethodId
        PROVE  /\ data'[y] = IF s'.blobs[y] \notin Huge \cup {Null}
                             THEN s'.blobs[y] ELSE s'.store[y]
               /\ s'.blobs[y] # Null => s'.cache[y[1]] # NoSecret
    <3>1. y[1] \in Id
      OBVIOUS
    <3>2. QED BY <1>2, <1>7, <2>1, <2>2, <2>3, <3>1 DEF DataKept
  <2>5. QED BY <1>7, <2>2, <2>4 DEF DataKept
<1>8. QED BY <1>3, <1>4, <1>5, <1>6, <1>7 DEF StoreOutcome

LEMMA DataUpdate ==
    ASSUME Typed, DataKept, NEW info \in Infos, NEW id \in Id \cup {NewIdentity},
           NEW f \in SomeFaults, Update([info EXCEPT !.id = id], f)
    PROVE  DataKept'
<1> DEFINE u == [info EXCEPT !.id = id]
           meta == UpdateIdentity(s.meta, u, f)
<1>1. UpdateOutcome(u, meta, f) /\ s'.store = s.store
  BY UpdateStep
<1> HIDE DEF u, meta
<1>2. CASE data' = data /\ NothingStored(s, s')
  BY <1>1, <1>2, DataStays DEF NothingStored, SameCache
<1>3. CASE LostWithDaemon(s, s') /\ Forgotten(Cached \cup {meta.id})
  BY <1>1, <1>3, DataLost DEF LostWithDaemon
<1>4. CASE data' = data /\ StoredInDatabase(s, s', meta.id, u.pass)
  BY <1>1, <1>4, DataStays DEF StoredInDatabase, SameCache
<1>5. CASE /\ meta.id \in Id /\ data' = data
           /\ StoredInCache(s, s', meta.id, SecretUser(u), u.pass, u.remember)
  <2>1. \A i \in Id : s.cache[i] # NoSecret => s'.cache[i] # NoSecret
    BY <1>5, SecretIsThere DEF StoredInCache
  <2>2. QED BY <1>1, <1>5, <2>1, DataStays DEF StoredInCache
<1>6. QED BY <1>1, <1>2, <1>3, <1>4, <1>5 DEF UpdateOutcome, history

LEMMA DataOpen ==
    ASSUME Typed, DataKept, NEW lost, NEW f, Open(lost, f)
    PROVE  DataKept'
<1>1. /\ ~s.open
      /\ \/ SameSecrets(s, s') /\ UNCHANGED <<superseded, data>>
         \/ /\ Opened(s, s', lost)
            /\ data' = [x \in Id \X MethodId |-> IF x[1] \in lost THEN s.store[x] ELSE data[x]]
  BY OpenStep
<1>2. CASE SameSecrets(s, s') /\ data' = data
  BY <1>2, DataStays DEF SameSecrets, SameDatabase, SameCache
<1>3. CASE /\ Opened(s, s', lost)
           /\ data' = [x \in Id \X MethodId |-> IF x[1] \in lost THEN s.store[x] ELSE data[x]]
  <2>1. ASSUME NEW x \in Id \X MethodId
        PROVE  s'.store[x] = data'[x] /\ s'.blobs[x] = Null
    <3>1. /\ s'.store[x] = IF WritesDataBack(s, lost, x) THEN s.blobs[x] ELSE s.store[x]
          /\ s'.blobs[x] = Null
      BY <1>3 DEF Opened, NoBlobs
    <3>2. data'[x] = IF x[1] \in lost THEN s.store[x] ELSE data[x]
      BY <1>3
    <3>3. data[x] = IF s.blobs[x] \notin Huge \cup {Null} THEN s.blobs[x] ELSE s.store[x]
      BY <1>1 DEF DataKept
    <3>4. s.blobs[x] # Null => s.cache[x[1]] # NoSecret
      BY DEF DataKept
    <3>5. QED BY <3>1, <3>2, <3>3, <3>4 DEF WritesDataBack
  <2>2. s'.open
    BY <1>3 DEF Opened
  <2>3. QED BY <2>1, <2>2 DEF DataKept
<1>4. QED BY <1>1, <1>2, <1>3

LEMMA DataKeptNext ==
    ASSUME Typed, DataKept, [Next]_vars
    PROVE  DataKept'
<1>1. CASE Stop
  <2>1. Forgotten(Cached \cup {}) /\ s'.store = s.store /\ LostWithDaemon(s, s')
    BY <1>1, StopStep
  <2>2. QED BY <2>1, DataLost DEF LostWithDaemon
<1>2. CASE Close
  <2>1. s.open /\ s'.open = FALSE /\ SameDatabase(s, s') /\ SameCache(s, s') /\ data' = data
    BY <1>2, CloseStep DEF history
  <2>2. QED BY <2>1 DEF DataKept, SameDatabase, SameCache
<1>3. CASE \E f \in SomeFaults : Start(f)
  <2>1. SameSecrets(s, s') /\ data' = data
    BY <1>3, StartStep DEF history
  <2>2. QED BY <2>1, DataStays DEF SameSecrets, SameDatabase, SameCache
<1>4. CASE \E f \in SomeFaults, info \in Infos, id \in Id \cup {NewIdentity} :
              id < s.meta.nextId /\ Update([info EXCEPT !.id = id], f)
  BY <1>4, DataUpdate
<1>5. CASE \E f \in SomeFaults, id \in Id : Remove(id, f)
  BY <1>5, RemoveStep, DataRemove
<1>6. CASE \E f \in SomeFaults : Clear(f)
  BY <1>6, ClearStep, DataRemove
<1>7. CASE \E f \in SomeFaults, id \in Id, m \in Method, blob \in Blob : Store(id, m, blob, f)
  <2>1. PICK f \in SomeFaults, id \in Id, m \in Method, blob \in Blob : Store(id, m, blob, f)
    BY <1>7
  <2> DEFINE x == <<id, InsertMethods(s.meta, {m}).methods[m]>>
  <2>2. x \in Id \X MethodId /\ StoreOutcome(x, blob)
    BY <2>1, StoreStep
  <2> HIDE DEF x
  <2>3. QED BY <2>2, DataStore
<1>8. CASE \E f \in SomeFaults, id \in Id, m \in Method \cup {Null} : RemoveDataOf(id, m, f)
  <2>1. PICK f \in SomeFaults, id \in Id, m \in Method \cup {Null} : RemoveDataOf(id, m, f)
    BY <1>8
  <2> DEFINE ns == IF m = Null THEN MethodId ELSE {MethodIdOf(s.meta, m)}
             gone == {x \in Id \X MethodId : x[1] = id /\ x[2] \in ns}
  <2>2. \/ s' = s /\ UNCHANGED data
        \/ /\ s.open /\ DataGone(s, s', id, ns)
           /\ data' = [x \in Id \X MethodId |->
                          IF x[1] = id /\ x[2] \in ns THEN Null ELSE data[x]]
    BY <2>1, RemoveDataStep
  <2> HIDE DEF ns
  <2>3. CASE s' = s /\ UNCHANGED data
    BY <2>3 DEF DataKept
  <2>4. CASE /\ s.open /\ DataGone(s, s', id, ns)
             /\ data' = [x \in Id \X MethodId |->
                            IF x[1] = id /\ x[2] \in ns THEN Null ELSE data[x]]
    <3>1. /\ s'.open /\ SameCache(s, s')
          /\ \A x \in Id \X MethodId :
                s'.store[x] = IF x \in gone THEN Null ELSE s.store[x]
      BY <2>4 DEF DataGone, NothingStored
    <3>2. \A x \in Id \X MethodId : data'[x] = IF x \in gone THEN Null ELSE data[x]
      BY <2>4
    <3>3. gone \in SUBSET (Id \X MethodId)
      OBVIOUS
    <3> HIDE DEF gone
    <3>4. QED BY <2>4, <3>1, <3>2, <3>3, DataTaken
  <2>5. QED BY <2>2, <2>3, <2>4
<1>9. CASE \E f \in SomeFaults, id \in Id, t \in Token \cup {Null} :
              \/ \E r \in Reference : Refer(id, t, r, f)
              \/ \E r \in Reference \cup {Null} : Unrefer(id, t, r, f)
  <2>1. SameSecrets(s, s') /\ data' = data
    BY <1>9, ReferStep DEF history
  <2>2. QED BY <2>1, DataStays DEF SameSecrets, SameDatabase, SameCache
<1>10. CASE \E f, lost : Open(lost, f)
  BY <1>10, DataOpen
<1>11. CASE UNCHANGED vars
  BY <1>11 DEF vars, DataKept
<1>12. QED BY <1>1, <1>2, <1>3, <1>4, <1>5, <1>6, <1>7, <1>8, <1>9, <1>10, <1>11,
             NextSteps

\* Data that storeData() has accepted is in the secrets database whenever that is
\* open, and loadData() finds it there (CredentialsStore!AcceptedDataStored;
\* storeToDB(), storeData(), removeData()).
THEOREM AcceptedDataStoredHolds == Spec => []AcceptedDataStored
<1>1. Init => DataKept
  <2> SUFFICES ASSUME Init PROVE DataKept
    OBVIOUS
  <2>1. s.open = FALSE /\ s.store = NoBlobs /\ s.blobs = NoBlobs /\ data = NoBlobs
    BY FoundDatabases DEF Init
  <2>2. QED BY <2>1 DEF DataKept, NoBlobs
<1>2. Typed /\ DataKept /\ [Next]_vars => DataKept'
  BY DataKeptNext
<1>3. Typed /\ DataKept => AcceptedDataStored
  <2> SUFFICES ASSUME Typed, DataKept, s.open PROVE AcceptedDataStored
    BY DEF AcceptedDataStored
  <2>1. s.store = data
    BY DEF Typed, TypeOK, State, DataKept
  <2>2. \A i \in Id, m \in Method :
           LET n == MethodIdOf(s.meta, m) IN n # 0 => LoadData(s, i, m) = data[<<i, n>>]
    BY <2>1 DEF LoadData, SecretsLoadData
  <2>3. QED BY <2>1, <2>2 DEF AcceptedDataStored
<1>4. QED BY <1>1, <1>2, <1>3, AlwaysTyped, PTL DEF Spec
-----------------------------------------------------------------------------
(* Old passwords.  Without the fault "version": tables that are made anew     *)
(* give their first identities the secrets of others (init()).               *)

\* The daemon runs on tables that it has numbered, and new ones are empty.
Numbered ==
    /\ version # 0
    /\ alive => version # NoFile
    /\ version = NoFile => s.meta.nextId = 1

\* A number that no identity had has no secrets.
Fresh ==
    \A i \in Id : i >= s.meta.nextId => s.creds[i] = NoSecret /\ s.cache[i] = NoSecret

\* Where the password of an identity is that has always been remembered, or
\* never: a password that was replaced is in neither place, or is in a closed
\* database under another that will be written over it.
PassSafe(i) ==
    LET keep == s.meta.rows[i].remember
    IN  /\ s.cache[i] # NoSecret => s.cache[i].pass \notin superseded[i]
        /\ s.open /\ s.creds[i] # NoSecret => s.creds[i].pass \notin superseded[i]
        /\ s.cache[i] # NoSecret /\ s.cache[i].pass # Null => s.cache[i].keep = keep
        /\ keep = FALSE /\ s.creds[i] # NoSecret => s.creds[i].pass = Null
        /\ s.open /\ keep = TRUE => s.cache[i] = NoSecret
        /\ ~s.open /\ s.creds[i] # NoSecret /\ s.creds[i].pass \in superseded[i]
              => WritesBack(s, {}, i)

PassesSafe == \A i \in fixed : Exists(s.meta, i) => PassSafe(i)

NumberedFresh == Numbered /\ Fresh

\* Nothing new under the numbers that have no identity yet.
LEMMA FreshStays ==
    ASSUME Typed, s' \in State, Fresh, s.meta.nextId <= s'.meta.nextId,
           \A i \in Id : i >= s'.meta.nextId =>
              /\ s'.creds[i] \in {s.creds[i], NoSecret}
              /\ s'.cache[i] \in {s.cache[i], NoSecret}
    PROVE  Fresh'
<1>1. s.meta.nextId \in Nat /\ s'.meta.nextId \in Nat /\ Id \subseteq Nat
  BY MaxIdAssumption DEF Typed, TypeOK, State, Tables, Id
<1>2. QED BY <1>1 DEF Fresh

LEMMA FreshUpdate ==
    ASSUME Typed, Fresh, NEW info \in Infos, NEW id \in Id \cup {NewIdentity},
           id < s.meta.nextId, NEW f \in SomeFaults, Update([info EXCEPT !.id = id], f)
    PROVE  Fresh'
<1> DEFINE u == [info EXCEPT !.id = id]
           meta == UpdateIdentity(s.meta, u, f)
<1>1. /\ s' \in State /\ s'.meta = meta.st /\ UpdateOutcome(u, meta, f)
      /\ u.id = NewIdentity => s.meta.nextId \in Id
      /\ InsertMethods(s.meta, DOMAIN u.methods).nextMethod <= MaxMethodId + 1
  BY UpdateStep
<1>2. u \in Info /\ u.id = id
  BY InfoWithId
<1>3. s.meta \in Tables /\ Coherent(s.meta)
  BY DEF Typed, TypeOK, State
<1> HIDE DEF u
<1>4. /\ s.meta.nextId <= meta.st.nextId
      /\ meta.id \in Id => /\ meta.id = StoredId(s.meta, u)
                           /\ u.id = NewIdentity => meta.st.nextId = meta.id + 1
  BY <1>1, <1>2, <1>3, RowsUpdated
<1> HIDE DEF meta
<1>5. ASSUME meta.id \in Id PROVE meta.id < s'.meta.nextId
  <2>1. /\ s.meta.nextId \in Nat /\ s'.meta.nextId \in Nat /\ meta.id \in Nat
        /\ id \in Nat
    BY <1>1, <1>3, <1>5, MaxIdAssumption DEF State, Tables, Id, NewIdentity
  <2>2. QED BY <1>1, <1>2, <1>4, <1>5, <2>1 DEF StoredId
<1>6. ASSUME NEW i \in Id, i >= s'.meta.nextId
      PROVE  /\ s'.creds[i] \in {s.creds[i], NoSecret}
             /\ s'.cache[i] \in {s.cache[i], NoSecret}
  <2>1. meta.id \in Id => i # meta.id
    <3>1. s'.meta.nextId \in Nat /\ i \in Nat
      BY <1>1, MaxIdAssumption DEF State, Tables, Id
    <3>2. QED BY <1>5, <1>6, <3>1
  <2>2. CASE NothingStored(s, s')
    BY <2>2 DEF NothingStored, SameCache
  <2>3. CASE LostWithDaemon(s, s')
    BY <2>3 DEF LostWithDaemon, NoEntries
  <2>4. CASE meta.id \in Id /\ StoredInDatabase(s, s', meta.id, u.pass)
    BY <2>1, <2>4 DEF StoredInDatabase, SameCache
  <2>5. CASE /\ meta.id \in Id
             /\ StoredInCache(s, s', meta.id, SecretUser(u), u.pass, u.remember)
    BY <2>1, <2>5 DEF StoredInCache
  <2>6. QED BY <1>1, <2>2, <2>3, <2>4, <2>5 DEF UpdateOutcome
<1>7. QED BY <1>1, <1>4, <1>6, FreshStays

LEMMA FreshRemove ==
    ASSUME Typed, Fresh, s' \in State, NEW ids, NEW meta, NEW f,
           meta.nextId = s.meta.nextId, RemoveOutcome(ids, meta, f)
    PROVE  Fresh'
<1>1. s.meta.nextId \in Int
  BY DEF Typed, TypeOK, State, Tables
<1>2. s.meta.nextId <= s'.meta.nextId
  BY <1>1 DEF RemoveOutcome
<1>3. \A i \in Id : /\ s'.creds[i] \in {s.creds[i], NoSecret}
                    /\ s'.cache[i] \in {s.cache[i], NoSecret}
  BY DEF RemoveOutcome, GoneOnly, GoneWithDaemon, SecretsGone, SameCache, NoEntries
<1>4. QED BY <1>2, <1>3, FreshStays

LEMMA NumberedNext ==
    ASSUME "version" \notin Faults, Typed, NumberedFresh, [Next]_vars
    PROVE  NumberedFresh'
<1>1. /\ s \in State /\ s.meta \in Tables /\ Coherent(s.meta) /\ Numbered /\ Fresh
      /\ s.meta.nextId \in Int
  BY DEF Typed, TypeOK, State, Tables, NumberedFresh
<1>2. ASSUME alive, UNCHANGED version
      PROVE  Numbered'
  BY <1>1, <1>2 DEF Numbered
<1>3. ASSUME s'.meta.nextId = s.meta.nextId, s' \in State, SameCache(s, s') \/ s'.cache = NoEntries,
             \A i \in Id : s'.creds[i] = s.creds[i]
      PROVE  Fresh'
  <2>1. s.meta.nextId <= s'.meta.nextId
    BY <1>1, <1>3
  <2>2. \A i \in Id : s'.cache[i] \in {s.cache[i], NoSecret}
    BY <1>3 DEF SameCache, NoEntries
  <2>3. QED BY <1>1, <1>3, <2>1, <2>2, FreshStays
<1>4. CASE Stop
  <2>1. s' \in State /\ s'.meta = s.meta /\ LostWithDaemon(s, s') /\ alive /\ version' = version
    BY <1>4, StopStep
  <2>2. QED BY <1>2, <1>3, <2>1 DEF LostWithDaemon, NumberedFresh
<1>5. CASE Close
  <2>1. /\ s' \in State /\ s'.meta = s.meta /\ SameDatabase(s, s') /\ SameCache(s, s')
        /\ alive /\ version' = version
    BY <1>5, CloseStep
  <2>2. QED BY <1>2, <1>3, <2>1 DEF SameDatabase, NumberedFresh
<1>6. CASE \E f \in SomeFaults : Start(f)
  <2>1. PICK f \in SomeFaults : Start(f)
    BY <1>6
  <2>2. /\ s' \in State /\ alive' = TRUE /\ version' \in {0, 2}
        /\ version' = 0 => version = 0 \/ f = "version"
        /\ version \in {NoFile, 0} => s'.meta = CreateTables
        /\ version = 1 => s'.meta = UpdateFrom1(s.meta)
        /\ version = 2 => s'.meta = s.meta
        /\ SameSecrets(s, s')
    BY <2>1, StartStep
  <2>3. version \in {NoFile, 1, 2}
    BY <1>1 DEF Typed, TypeOK, Numbered
  <2>4. f # "version"
    BY DEF SomeFaults
  <2>5. Numbered'
    BY <1>1, <2>2, <2>4 DEF Numbered, NoFile
  <2>6. s'.meta.nextId = s.meta.nextId
    <3>1. CASE version = NoFile
      BY <1>1, <2>2, <3>1 DEF Numbered, CreateTables
    <3>2. CASE version = 1
      BY <1>1, <2>2, <3>2 DEF UpdateFrom1, Tables
    <3>3. CASE version = 2
      BY <2>2, <3>3
    <3>4. QED BY <2>3, <3>1, <3>2, <3>3
  <2>7. QED BY <1>3, <2>2, <2>5, <2>6 DEF SameSecrets, SameDatabase, NumberedFresh
<1>7. CASE \E f \in SomeFaults, info \in Infos, id \in Id \cup {NewIdentity} :
              id < s.meta.nextId /\ Update([info EXCEPT !.id = id], f)
  <2>1. alive /\ version' = version
    BY <1>7, UpdateStep
  <2>2. QED BY <1>1, <1>2, <1>7, <2>1, FreshUpdate DEF NumberedFresh
<1>8. CASE \E f \in SomeFaults, id \in Id : Remove(id, f)
  <2>1. PICK f \in SomeFaults, id \in Id : Remove(id, f)
    BY <1>8
  <2>2. /\ s' \in State /\ alive /\ version' = version
        /\ RemoveOutcome({id}, RemoveIdentity(s.meta, id, f).st, f)
    BY <2>1, RemoveStep
  <2>3. RemoveIdentity(s.meta, id, f).st.nextId = s.meta.nextId
    BY <1>1, IdentityRemoved
  <2>4. QED BY <1>1, <1>2, <2>2, <2>3, FreshRemove DEF NumberedFresh
<1>9. CASE \E f \in SomeFaults : Clear(f)
  <2>1. PICK f \in SomeFaults : Clear(f)
    BY <1>9
  <2>2. /\ s' \in State /\ alive /\ version' = version
        /\ RemoveOutcome(Id, ClearMetaData(s.meta, f).st, f)
    BY <2>1, ClearStep
  <2>3. ClearMetaData(s.meta, f).st.nextId = s.meta.nextId
    BY <1>1, TablesCleared
  <2>4. QED BY <1>1, <1>2, <2>2, <2>3, FreshRemove DEF NumberedFresh
<1>10. CASE \E f \in SomeFaults, id \in Id, m \in Method, blob \in Blob : Store(id, m, blob, f)
  <2>1. PICK f \in SomeFaults, id \in Id, m \in Method, blob \in Blob : Store(id, m, blob, f)
    BY <1>10
  <2> DEFINE meta == InsertMethods(s.meta, {m})
             x == <<id, meta.methods[m]>>
  <2>2. /\ s' \in State /\ alive /\ version' = version /\ s'.meta \in {s.meta, meta}
        /\ meta.nextMethod <= MaxMethodId + 1 /\ x \in Id \X MethodId /\ x[1] = id
        /\ StoreOutcome(x, blob)
    BY <2>1, StoreStep
  <2>3. meta.nextId = s.meta.nextId
    BY <1>1, <2>2, MethodsKeepCoherence
  <2> HIDE DEF meta, x
  <2>4. id < s.meta.nextId
    BY <2>1 DEF Store
  <2>5. ASSUME NEW i \in Id, i >= s'.meta.nextId
        PROVE  /\ s'.creds[i] \in {s.creds[i], NoSecret}
               /\ s'.cache[i] \in {s.cache[i], NoSecret}
    <3>1. i # x[1]
      BY <1>1, <2>2, <2>3, <2>4, <2>5, MaxIdAssumption DEF Id
    <3>2. QED BY <2>2, <3>1 DEF StoreOutcome, LostWithDaemon, NothingStored, SameCache,
                               SameDatabase, DataStored, DataCached, NoEntries
  <2>6. s.meta.nextId <= s'.meta.nextId
    BY <1>1, <2>2, <2>3
  <2>7. QED BY <1>1, <1>2, <2>2, <2>5, <2>6, FreshStays DEF NumberedFresh
<1>11. CASE \E f \in SomeFaults, id \in Id, m \in Method \cup {Null} : RemoveDataOf(id, m, f)
  <2>1. /\ s' \in State /\ alive /\ version' = version
        /\ s' = s \/ (s'.meta = s.meta /\ NothingStored(s, s'))
    BY <1>11, RemoveDataStep DEF DataGone
  <2>2. QED BY <1>2, <1>3, <2>1 DEF NothingStored, SameCache, NumberedFresh
<1>12. CASE \E f \in SomeFaults, id \in Id, t \in Token \cup {Null} :
              \/ \E r \in Reference : Refer(id, t, r, f)
              \/ \E r \in Reference \cup {Null} : Unrefer(id, t, r, f)
  <2>1. /\ s' \in State /\ alive /\ version' = version
        /\ SameLists(s.meta, s'.meta) /\ SameSecrets(s, s')
    BY <1>12, ReferStep
  <2>2. QED BY <1>2, <1>3, <2>1 DEF SameLists, SameSecrets, SameDatabase, NumberedFresh
<1>13. CASE \E f, lost : Open(lost, f)
  <2>1. PICK f, lost : Open(lost, f)
    BY <1>13
  <2>2. /\ s' \in State /\ s'.meta = s.meta /\ alive /\ version' = version
        /\ SameSecrets(s, s') \/ Opened(s, s', lost)
    BY <2>1, OpenStep
  <2>3. CASE SameSecrets(s, s')
    BY <1>2, <1>3, <2>2, <2>3 DEF SameSecrets, SameDatabase, NumberedFresh
  <2>4. CASE Opened(s, s', lost)
    <3>1. ASSUME NEW i \in Id, i >= s.meta.nextId
          PROVE  /\ s'.creds[i] \in {s.creds[i], NoSecret}
                 /\ s'.cache[i] \in {s.cache[i], NoSecret}
      BY <1>1, <2>4, <3>1 DEF Opened, NoEntries, Fresh, WritesBack
    <3>2. s.meta.nextId <= s'.meta.nextId
      BY <1>1, <2>2
    <3>3. QED BY <1>1, <1>2, <2>2, <3>1, <3>2, FreshStays DEF NumberedFresh
  <2>5. QED BY <2>2, <2>3, <2>4
<1>14. CASE UNCHANGED vars
  BY <1>14 DEF vars, NumberedFresh, Numbered, Fresh
<1>15. QED BY <1>4, <1>5, <1>6, <1>7, <1>8, <1>9, <1>10, <1>11, <1>12, <1>13, <1>14,
             NextSteps
\* An identity whose row stays, and whose secrets stay or are gone.
LEMMA PassStays ==
    ASSUME NEW i \in Id, PassSafe(i), s'.meta.rows[i] = s.meta.rows[i],
           s'.open = s.open, s'.cache[i] = s.cache[i], s'.creds[i] \in {s.creds[i], NoSecret},
           superseded'[i] = superseded[i]
    PROVE  PassSafe(i)'
BY DEF PassSafe, WritesBack

\* The daemon stops: what was in the cache is forgotten.
LEMMA PassLost ==
    ASSUME NEW i \in Id, PassSafe(i), s'.meta.rows[i] = s.meta.rows[i],
           NEW ids, Forgotten(Cached \cup ids), s'.open = FALSE, s'.cache = NoEntries,
           i \notin ids => s'.creds[i] = s.creds[i],
           s'.creds[i] \in {s.creds[i], NoSecret}
    PROVE  PassSafe(i)'
<1>1. /\ s'.cache[i] = NoSecret
      /\ superseded'[i] = IF i \in Cached \cup ids THEN {} ELSE superseded[i]
  BY DEF NoEntries, Forgotten
<1>2. i \notin Cached => s.cache[i] = NoSecret
  BY DEF Cached
<1>3. QED BY <1>1, <1>2 DEF PassSafe, WritesBack

\* An identity that another's update leaves as it was.
LEMMA PassOther ==
    ASSUME Typed, NEW u, NEW meta, NEW f, UpdateOutcome(u, meta, f),
           NEW i \in Id, i # meta.id, PassSafe(i), s'.meta.rows[i] = s.meta.rows[i]
    PROVE  PassSafe(i)'
<1>1. superseded \in [Id -> SUBSET Pass]
  BY DEF Typed, TypeOK
<1>2. CASE NothingStored(s, s') /\ superseded'[i] = superseded[i]
  BY <1>2, PassStays DEF NothingStored, SameCache
<1>3. CASE LostWithDaemon(s, s') /\ Forgotten(Cached \cup {meta.id})
  BY <1>3, PassLost DEF LostWithDaemon
<1>4. CASE StoredInDatabase(s, s', meta.id, u.pass) /\ superseded'[i] = superseded[i]
  BY <1>4, PassStays DEF StoredInDatabase, SameCache
<1>5. CASE /\ StoredInCache(s, s', meta.id, SecretUser(u), u.pass, u.remember)
           /\ superseded'[i] = superseded[i]
  BY <1>5, PassStays DEF StoredInCache
<1>6. CASE meta.id = NewIdentity /\ NothingStored(s, s') /\ UNCHANGED <<history, alive>>
  <2>1. superseded' = superseded
    BY <1>6 DEF history
  <2>2. QED BY <1>2, <1>6, <2>1
<1>7. ASSUME superseded' = [superseded EXCEPT ![meta.id] =
                IF ~u.hasPass THEN @ ELSE IF f = "secrets" THEN {} ELSE Pass \ {u.pass}]
      PROVE  superseded'[i] = superseded[i]
  BY <1>1, <1>7
<1>8. QED BY <1>2, <1>3, <1>4, <1>5, <1>6, <1>7 DEF UpdateOutcome

\* The identity that is updated, and keeps its flag or is new.
LEMMA PassUpdated ==
    ASSUME Typed, NEW u \in Info, u.hasPass <=> u.pass # Null, NEW meta, NEW f,
           UpdateOutcome(u, meta, f), meta.id \in Id,
           s'.meta.rows[meta.id].remember = u.remember,
           \/ PassSafe(meta.id) /\ s.meta.rows[meta.id].remember = u.remember
           \/ s.creds[meta.id] = NoSecret /\ s.cache[meta.id] = NoSecret
    PROVE  PassSafe(meta.id)'
<1> DEFINE i == meta.id
           new == IF ~u.hasPass THEN superseded[i]
                  ELSE IF f = "secrets" THEN {} ELSE Pass \ {u.pass}
<1>1. /\ superseded \in [Id -> SUBSET Pass] /\ i \in Id /\ Null \notin Pass
      /\ s.open \in BOOLEAN
  BY PassAssumption DEF Typed, TypeOK, State
<1>2. /\ u.pass \in Pass \cup {Null} /\ u.user \in User \cup {Null}
      /\ u.remember \in BOOLEAN /\ u.hasPass \in BOOLEAN
  BY InfoFields
<1>3. i # NewIdentity
  BY <1>1 DEF Id, NewIdentity
<1>4. \* Before the update, in the terms of what it stores.
      /\ s.cache[i] # NoSecret => s.cache[i].pass \notin superseded[i]
      /\ s.open /\ s.creds[i] # NoSecret => s.creds[i].pass \notin superseded[i]
      /\ s.cache[i] # NoSecret /\ s.cache[i].pass # Null => s.cache[i].keep = u.remember
      /\ u.remember = FALSE /\ s.creds[i] # NoSecret => s.creds[i].pass = Null
      /\ s.open /\ u.remember = TRUE => s.cache[i] = NoSecret
      /\ ~s.open /\ s.creds[i] # NoSecret /\ s.creds[i].pass \in superseded[i]
            => WritesBack(s, {}, i)
  BY DEF PassSafe
<1> HIDE DEF i
<1> SUFFICES
      /\ s'.cache[i] # NoSecret => s'.cache[i].pass \notin superseded'[i]
      /\ s'.open /\ s'.creds[i] # NoSecret => s'.creds[i].pass \notin superseded'[i]
      /\ s'.cache[i] # NoSecret /\ s'.cache[i].pass # Null => s'.cache[i].keep = u.remember
      /\ u.remember = FALSE /\ s'.creds[i] # NoSecret => s'.creds[i].pass = Null
      /\ s'.open /\ u.remember = TRUE => s'.cache[i] = NoSecret
      /\ ~s'.open /\ s'.creds[i] # NoSecret /\ s'.creds[i].pass \in superseded'[i]
            => WritesBack(s', {}, i)
  BY DEF PassSafe, i
<1>5. ~HasSecrets(u) => ~u.hasPass
  BY DEF HasSecrets
<1>6. new \in SUBSET Pass /\ u.pass \notin new
  BY <1>1, <1>2
<1>7. CASE LostWithDaemon(s, s') /\ Forgotten(Cached \cup {i})
  <2>1. s'.cache[i] = NoSecret /\ superseded'[i] = {} /\ s'.creds[i] = s.creds[i] /\ ~s'.open
    BY <1>1, <1>7 DEF LostWithDaemon, NoEntries, Forgotten
  <2>2. QED BY <1>4, <2>1
<1>8. ASSUME superseded' = [superseded EXCEPT ![i] = new]
      PROVE  superseded'[i] = new
  BY <1>1, <1>8
<1>9. ASSUME superseded'[i] \in {superseded[i], {}}, NothingStored(s, s')
      PROVE  /\ s'.cache[i] # NoSecret => s'.cache[i].pass \notin superseded'[i]
             /\ s'.open /\ s'.creds[i] # NoSecret => s'.creds[i].pass \notin superseded'[i]
             /\ s'.cache[i] # NoSecret /\ s'.cache[i].pass # Null => s'.cache[i].keep = u.remember
             /\ u.remember = FALSE /\ s'.creds[i] # NoSecret => s'.creds[i].pass = Null
             /\ s'.open /\ u.remember = TRUE => s'.cache[i] = NoSecret
             /\ ~s'.open /\ s'.creds[i] # NoSecret /\ s'.creds[i].pass \in superseded'[i]
                   => WritesBack(s', {}, i)
  BY <1>4, <1>9 DEF NothingStored, SameCache, WritesBack
<1>10. CASE superseded' = [superseded EXCEPT ![i] = new] /\ ~HasSecrets(u) /\ NothingStored(s, s')
  BY <1>5, <1>8, <1>9, <1>10
<1>11. CASE superseded' = [superseded EXCEPT ![i] = new] /\ f = "secrets" /\ NothingStored(s, s')
  <2>1. superseded'[i] \in {superseded[i], {}}
    BY <1>8, <1>11
  <2>2. QED BY <1>9, <1>11, <2>1
<1>12. CASE /\ superseded' = [superseded EXCEPT ![i] = new] /\ u.remember /\ s.open
            /\ StoredInDatabase(s, s', i, u.pass)
  <2>1. /\ superseded'[i] = new /\ s'.open /\ s'.cache[i] = s.cache[i]
        /\ s'.creds[i].pass = u.pass
    BY <1>8, <1>12 DEF StoredInDatabase, SameCache
  <2>2. u.remember = TRUE /\ s'.cache[i] = NoSecret
    BY <1>2, <1>4, <1>12, <2>1
  <2>3. QED BY <1>6, <1>12, <2>1, <2>2
<1>13. CASE /\ superseded' = [superseded EXCEPT ![i] = new]
            /\ HasSecrets(u) /\ ~(u.remember /\ s.open)
            /\ StoredInCache(s, s', i, SecretUser(u), u.pass, u.remember)
  <2> DEFINE entry == s'.cache[i]
  <2>1. /\ superseded'[i] = new /\ s'.open = s.open /\ s'.creds[i] = s.creds[i]
        /\ entry \in Entry /\ entry.user = SecretUser(u) /\ entry.pass = u.pass
        /\ entry.keep = u.remember
    BY <1>8, <1>13 DEF StoredInCache
  <2>2. u.remember = TRUE \/ u.remember = FALSE
    BY <1>2
  <2>3. s.open /\ s.creds[i] # NoSecret => s.creds[i].pass \notin new
    BY <1>4, <1>6, <1>13, <2>2, PassAssumption
  <2>4. ASSUME ~s.open, s.creds[i] # NoSecret, s.creds[i].pass \in new
        PROVE  WritesBack(s', {}, i)
    <3>1. u.remember = TRUE
      BY <1>1, <1>4, <1>6, <2>2, <2>4
    <3>2. Written(entry).user = SecretUser(u) /\ Written(entry).pass = u.pass
      BY <2>1, <3>1 DEF Written
    <3>3. SecretUser(u) # Null \/ u.pass # Null
      BY <1>2, <1>13 DEF HasSecrets, SecretUser
    <3>4. Written(entry) # [user |-> Null, pass |-> Null]
      BY <3>2, <3>3
    <3>5. entry # NoSecret
      BY <2>1, SecretIsThere
    <3>6. QED BY <3>4, <3>5 DEF WritesBack
  <2> HIDE DEF entry, new
  <2>5. entry.pass \notin superseded'[i]
    BY <1>6, <2>1
  <2>6. ~(s.open /\ u.remember = TRUE)
    BY <1>13
  <2>7. QED BY <1>4, <2>1, <2>3, <2>4, <2>5, <2>6 DEF entry
<1>14. QED BY <1>3, <1>7, <1>10, <1>11, <1>12, <1>13 DEF UpdateOutcome, i

LEMMA PassesUpdate ==
    ASSUME Typed, NumberedFresh, PassesSafe,
           NEW info \in Infos, NEW id \in Id \cup {NewIdentity},
           NEW f \in SomeFaults, Update([info EXCEPT !.id = id], f)
    PROVE  PassesSafe'
<1> DEFINE u == [info EXCEPT !.id = id]
           meta == UpdateIdentity(s.meta, u, f)
<1>1. /\ s'.meta = meta.st /\ UpdateOutcome(u, meta, f)
      /\ u.id = NewIdentity => s.meta.nextId \in Id
      /\ InsertMethods(s.meta, DOMAIN u.methods).nextMethod <= MaxMethodId + 1
      /\ meta.id # NewIdentity => UpdateHistory(u, meta, f)
  BY UpdateStep
<1>2. u \in Info /\ u.id = id /\ (u.hasPass <=> u.pass # Null)
  BY InfoWithId
<1>3. s.meta \in Tables /\ Coherent(s.meta) /\ fixed \in SUBSET Id
  BY DEF Typed, TypeOK, State
<1> HIDE DEF u
<1>4. /\ meta.id \in Id => meta.id = StoredId(s.meta, u)
      /\ \A i \in Id \ {meta.id} : meta.st.rows[i] = s.meta.rows[i]
      /\ meta.id \in Id /\ Exists(meta.st, meta.id) =>
            /\ meta.st.rows[meta.id].remember = u.remember
            /\ u.id = NewIdentity \/ Exists(s.meta, meta.id)
  BY <1>1, <1>2, <1>3, RowsUpdated
<1> HIDE DEF meta
<1>5. fixed' = fixed \/ (meta.id \in Id /\ UpdateHistory(u, meta, f))
  BY <1>1 DEF UpdateOutcome, history, Id, NewIdentity
<1>6. /\ fixed' \subseteq fixed
      /\ meta.id \in Id /\ meta.id \in fixed' /\ Exists(s.meta, meta.id)
            => s.meta.rows[meta.id].remember = u.remember
  <2>1. meta.id \in Id => UpdateHistory(u, meta, f)
    BY <1>1 DEF Id, NewIdentity
  <2>2. QED BY <1>5, <2>1 DEF UpdateHistory
<1> SUFFICES ASSUME NEW i \in fixed', Exists(s'.meta, i)
             PROVE  PassSafe(i)'
  BY DEF PassesSafe
<1>7. i \in Id /\ i \in fixed
  BY <1>3, <1>6
<1>8. CASE i # meta.id
  <2>1. s'.meta.rows[i] = s.meta.rows[i]
    BY <1>1, <1>4, <1>7, <1>8
  <2>2. PassSafe(i)
    BY <1>7, <2>1 DEF PassesSafe, Exists
  <2>3. QED BY <1>1, <1>7, <1>8, <2>1, <2>2, PassOther
<1>9. CASE i = meta.id
  <2>1. s'.meta.rows[meta.id].remember = u.remember
    BY <1>1, <1>4, <1>7, <1>9
  <2>2. CASE Exists(s.meta, meta.id)
    <3>1. PassSafe(meta.id) /\ s.meta.rows[meta.id].remember = u.remember
      BY <1>6, <1>7, <1>9, <2>2 DEF PassesSafe
    <3>2. QED BY <1>1, <1>2, <1>7, <1>9, <2>1, <3>1, PassUpdated
  <2>3. CASE ~Exists(s.meta, meta.id)
    <3>1. meta.id = s.meta.nextId
      BY <1>1, <1>4, <1>7, <1>9, <2>3 DEF StoredId
    <3>2. meta.id >= s.meta.nextId
      BY <1>7, <1>9, <3>1, MaxIdAssumption DEF Id
    <3>3. s.creds[meta.id] = NoSecret /\ s.cache[meta.id] = NoSecret
      BY <1>7, <1>9, <3>2 DEF NumberedFresh, Fresh
    <3>4. QED BY <1>1, <1>2, <1>7, <1>9, <2>1, <3>3, PassUpdated
  <2>4. QED BY <2>2, <2>3
<1>10. QED BY <1>8, <1>9

\* Steps after which no identity is there that was not, and every row stays.
LEMMA PassesStay ==
    ASSUME PassesSafe, fixed' = fixed, fixed \in SUBSET Id,
           \A i \in Id : Exists(s'.meta, i) => s'.meta.rows[i] = s.meta.rows[i],
           \A i \in Id : PassSafe(i) /\ s'.meta.rows[i] = s.meta.rows[i] => PassSafe(i)'
    PROVE  PassesSafe'
<1> SUFFICES ASSUME NEW i \in fixed, Exists(s'.meta, i)
             PROVE  PassSafe(i)'
  BY DEF PassesSafe
<1>1. s'.meta.rows[i] = s.meta.rows[i] /\ i \in Id
  OBVIOUS
<1>2. Exists(s.meta, i)
  BY <1>1 DEF Exists
<1>3. QED BY <1>1, <1>2 DEF PassesSafe

LEMMA PassesRemove ==
    ASSUME Typed, PassesSafe, NEW ids, NEW meta, NEW f, RemoveOutcome(ids, meta, f),
           fixed' = fixed,
           \A i \in Id : Exists(meta, i) => meta.rows[i] = s.meta.rows[i]
    PROVE  PassesSafe'
<1>1. \A i \in Id : Exists(s'.meta, i) => s'.meta.rows[i] = s.meta.rows[i]
  BY DEF RemoveOutcome
<1>2. ASSUME NEW i \in Id, PassSafe(i), s'.meta.rows[i] = s.meta.rows[i]
      PROVE  PassSafe(i)'
  <2>1. CASE s' = s /\ UNCHANGED <<alive, superseded, data>>
    BY <1>2, <2>1, PassStays
  <2>2. CASE GoneWithDaemon(s, s', ids) /\ Forgotten(Cached \cup ids)
    <3>1. /\ s'.open = FALSE /\ s'.cache = NoEntries
          /\ i \notin ids => s'.creds[i] = s.creds[i]
          /\ s'.creds[i] \in {s.creds[i], NoSecret}
      BY <2>2 DEF GoneWithDaemon, SecretsGone
    <3>2. QED BY <1>2, <2>2, <3>1, PassLost
  <2>3. CASE GoneOnly(s, s', ids) /\ UNCHANGED superseded
    <3>1. /\ s'.open = s.open /\ s'.cache[i] = s.cache[i]
          /\ s'.creds[i] \in {s.creds[i], NoSecret}
      BY <2>3 DEF GoneOnly, SecretsGone, SameCache
    <3>2. QED BY <1>2, <2>3, <3>1, PassStays
  <2>4. QED BY <2>1, <2>2, <2>3 DEF RemoveOutcome
<1>3. fixed \in SUBSET Id
  BY DEF Typed, TypeOK
<1>4. QED BY <1>1, <1>2, <1>3, PassesStay

LEMMA PassStore ==
    ASSUME Typed, NEW x \in Id \X MethodId, NEW blob, StoreOutcome(x, blob),
           NEW i \in Id, PassSafe(i), s'.meta.rows[i] = s.meta.rows[i]
    PROVE  PassSafe(i)'
<1>1. CASE s' = s /\ UNCHANGED <<alive, superseded, data>>
  BY <1>1, PassStays
<1>2. CASE LostWithDaemon(s, s') /\ Forgotten(Cached)
  <2>1. Forgotten(Cached \cup {})
    BY <1>2
  <2>2. /\ s'.open = FALSE /\ s'.cache = NoEntries /\ s'.creds[i] = s.creds[i]
    BY <1>2 DEF LostWithDaemon
  <2>3. QED BY <2>1, <2>2, PassLost
<1>3. CASE NothingStored(s, s') /\ UNCHANGED superseded
  BY <1>3, PassStays DEF NothingStored, SameCache
<1>4. CASE ~s.open /\ DataCached(s, s', x, blob) /\ UNCHANGED superseded
  <2>1. /\ s'.open = s.open /\ s'.creds[i] = s.creds[i] /\ superseded'[i] = superseded[i]
    BY <1>4 DEF DataCached, SameDatabase
  <2>2. CASE i # x[1] \/ s.cache[i] # NoSecret
    <3>1. s'.cache[i] = s.cache[i]
      BY <1>4, <2>2 DEF DataCached
    <3>2. QED BY <2>1, <3>1, PassStays
  <2>3. CASE i = x[1] /\ s.cache[i] = NoSecret
    <3>1. s'.cache[i] \in Entry /\ s'.cache[i].pass = Null
      BY <1>4, <2>3 DEF DataCached
    <3>2. Null \notin superseded[i]
      BY PassAssumption DEF Typed, TypeOK
    <3>3. QED BY <1>4, <2>1, <2>3, <3>1, <3>2 DEF PassSafe, WritesBack
  <2>4. QED BY <2>2, <2>3
<1>5. QED BY <1>1, <1>2, <1>3, <1>4 DEF StoreOutcome, DataStored

LEMMA PassOpened ==
    ASSUME Typed, NEW lost, Opened(s, s', lost), ~s.open,
           superseded' = [i \in Id |-> IF i \in lost THEN {} ELSE superseded[i]],
           NEW i \in Id, PassSafe(i), s'.meta.rows[i] = s.meta.rows[i]
    PROVE  PassSafe(i)'
<1>1. /\ s'.open = TRUE /\ s'.cache[i] = NoSecret
      /\ WritesBack(s, lost, i) => s'.creds[i] = Written(s.cache[i])
      /\ ~WritesBack(s, lost, i) => s'.creds[i] = s.creds[i]
      /\ superseded'[i] = IF i \in lost THEN {} ELSE superseded[i]
  BY DEF Opened, NoEntries
<1>2. Null \notin superseded[i] /\ s.cache[i] \in Entry \cup {NoSecret}
  BY PassAssumption DEF Typed, TypeOK, State
<1>3. CASE WritesBack(s, lost, i)
  <2>1. s.cache[i] # NoSecret /\ s.cache[i] \in Entry
    BY <1>2, <1>3 DEF WritesBack
  <2>2. /\ Written(s.cache[i]).pass \in {s.cache[i].pass, Null}
        /\ s.cache[i].keep \in BOOLEAN
        /\ ~s.cache[i].keep => Written(s.cache[i]).pass = Null
    BY <2>1, EntryIsWritten DEF Entry
  <2>3. QED BY <1>1, <1>2, <1>3, <2>1, <2>2 DEF PassSafe
<1>4. CASE ~WritesBack(s, lost, i)
  <2>1. i \notin lost => ~WritesBack(s, {}, i)
    BY <1>4 DEF WritesBack
  <2>2. QED BY <1>1, <1>4, <2>1 DEF PassSafe
<1>5. QED BY <1>3, <1>4

LEMMA PassesNext ==
    ASSUME "version" \notin Faults, Typed, NumberedFresh, PassesSafe, [Next]_vars
    PROVE  PassesSafe'
<1>1. /\ s \in State /\ s.meta \in Tables /\ Coherent(s.meta) /\ fixed \in SUBSET Id
  BY DEF Typed, TypeOK, State
<1>2. ASSUME s'.meta.rows = s.meta.rows, fixed' = fixed,
             \A i \in Id : PassSafe(i) /\ s'.meta.rows[i] = s.meta.rows[i] => PassSafe(i)'
      PROVE  PassesSafe'
  BY <1>1, <1>2, PassesStay
<1>3. ASSUME s'.open = s.open, s'.cache = s.cache, s'.creds = s.creds, superseded' = superseded
      PROVE  \A i \in Id : PassSafe(i) /\ s'.meta.rows[i] = s.meta.rows[i] => PassSafe(i)'
  BY <1>3, PassStays
<1>4. CASE Stop
  <2>1. /\ s'.meta = s.meta /\ LostWithDaemon(s, s') /\ Forgotten(Cached \cup {})
        /\ fixed' = fixed
    BY <1>4, StopStep
  <2>2. \A i \in Id : PassSafe(i) /\ s'.meta.rows[i] = s.meta.rows[i] => PassSafe(i)'
    BY <2>1, PassLost DEF LostWithDaemon
  <2>3. QED BY <1>2, <2>1, <2>2
<1>5. CASE Close
  <2>1. /\ s'.meta = s.meta /\ s.open /\ s'.open = FALSE
        /\ SameDatabase(s, s') /\ SameCache(s, s')
        /\ fixed' = fixed /\ superseded' = superseded
    BY <1>5, CloseStep DEF history
  <2>2. \A i \in Id : PassSafe(i) /\ s'.meta.rows[i] = s.meta.rows[i] => PassSafe(i)'
    BY <2>1 DEF PassSafe, SameDatabase, SameCache
  <2>3. QED BY <1>2, <2>1, <2>2
<1>6. CASE \E f \in SomeFaults : Start(f)
  <2>1. /\ version = NoFile => s'.meta = CreateTables
        /\ version = 1 => s'.meta = UpdateFrom1(s.meta)
        /\ version = 2 => s'.meta = s.meta
        /\ SameSecrets(s, s') /\ fixed' = fixed /\ superseded' = superseded
    BY <1>6, StartStep DEF history
  <2>2. version \in {NoFile, 1, 2}
    BY DEF Typed, TypeOK, NumberedFresh, Numbered
  <2>3. \A i \in Id : Exists(s'.meta, i) => s'.meta.rows[i] = s.meta.rows[i]
    <3>1. CASE version = NoFile
      BY <2>1, <3>1 DEF CreateTables, Exists
    <3>2. CASE version = 1
      BY <1>1, <2>1, <3>2 DEF UpdateFrom1, Tables
    <3>3. CASE version = 2
      BY <2>1, <3>3
    <3>4. QED BY <2>2, <3>1, <3>2, <3>3
  <2>4. \A i \in Id : PassSafe(i) /\ s'.meta.rows[i] = s.meta.rows[i] => PassSafe(i)'
    BY <1>3, <2>1 DEF SameSecrets, SameDatabase, SameCache
  <2>5. QED BY <1>1, <2>1, <2>3, <2>4, PassesStay
<1>7. CASE \E f \in SomeFaults, info \in Infos, id \in Id \cup {NewIdentity} :
              id < s.meta.nextId /\ Update([info EXCEPT !.id = id], f)
  BY <1>7, PassesUpdate
<1>8. CASE \E f \in SomeFaults, id \in Id : Remove(id, f)
  <2>1. PICK f \in SomeFaults, id \in Id : Remove(id, f)
    BY <1>8
  <2> DEFINE meta == RemoveIdentity(s.meta, id, f)
  <2>2. fixed' = fixed /\ RemoveOutcome({id}, meta.st, f)
    BY <2>1, RemoveStep
  <2>3. /\ \A i \in Id \ {id} : meta.st.rows[i] = s.meta.rows[i]
        /\ meta.ok \/ meta.st = s.meta
        /\ meta.ok => meta.st.rows[id] = NoRow
    BY <1>1, IdentityRemoved
  <2> HIDE DEF meta
  <2>4. \A i \in Id : Exists(meta.st, i) => meta.st.rows[i] = s.meta.rows[i]
    BY <2>3 DEF Exists
  <2>5. QED BY <2>2, <2>4, PassesRemove
<1>9. CASE \E f \in SomeFaults : Clear(f)
  <2>1. PICK f \in SomeFaults : Clear(f)
    BY <1>9
  <2> DEFINE meta == ClearMetaData(s.meta, f)
  <2>2. fixed' = fixed /\ RemoveOutcome(Id, meta.st, f)
    BY <2>1, ClearStep
  <2>3. meta.st = s.meta \/ \A i \in Id : ~Exists(meta.st, i)
    BY <1>1, TablesCleared
  <2> HIDE DEF meta
  <2>4. \A i \in Id : Exists(meta.st, i) => meta.st.rows[i] = s.meta.rows[i]
    BY <2>3
  <2>5. QED BY <2>2, <2>4, PassesRemove
<1>10. CASE \E f \in SomeFaults, id \in Id, m \in Method, blob \in Blob : Store(id, m, blob, f)
  <2>1. PICK f \in SomeFaults, id \in Id, m \in Method, blob \in Blob : Store(id, m, blob, f)
    BY <1>10
  <2> DEFINE meta == InsertMethods(s.meta, {m})
             x == <<id, meta.methods[m]>>
  <2>2. /\ s'.meta \in {s.meta, meta} /\ meta.nextMethod <= MaxMethodId + 1
        /\ x \in Id \X MethodId /\ StoreOutcome(x, blob) /\ fixed' = fixed
    BY <2>1, StoreStep
  <2>3. meta.rows = s.meta.rows
    BY <1>1, <2>2, MethodsKeepCoherence
  <2> HIDE DEF meta, x
  <2>4. \A i \in Id : PassSafe(i) /\ s'.meta.rows[i] = s.meta.rows[i] => PassSafe(i)'
    BY <2>2, PassStore
  <2>5. QED BY <1>2, <2>2, <2>3, <2>4
<1>11. CASE \E f \in SomeFaults, id \in Id, m \in Method \cup {Null} : RemoveDataOf(id, m, f)
  <2>1. /\ fixed' = fixed /\ superseded' = superseded
        /\ s' = s \/ (s'.meta = s.meta /\ NothingStored(s, s'))
    BY <1>11, RemoveDataStep DEF DataGone
  <2>2. QED BY <1>2, <1>3, <2>1 DEF NothingStored, SameCache
<1>12. CASE \E f \in SomeFaults, id \in Id, t \in Token \cup {Null} :
              \/ \E r \in Reference : Refer(id, t, r, f)
              \/ \E r \in Reference \cup {Null} : Unrefer(id, t, r, f)
  <2>1. /\ SameLists(s.meta, s'.meta) /\ SameSecrets(s, s')
        /\ fixed' = fixed /\ superseded' = superseded
    BY <1>12, ReferStep DEF history
  <2>2. QED BY <1>2, <1>3, <2>1 DEF SameLists, SameSecrets, SameDatabase, SameCache
<1>13. CASE \E f, lost : Open(lost, f)
  <2>1. PICK f, lost : Open(lost, f)
    BY <1>13
  <2>2. /\ s'.meta = s.meta /\ ~s.open /\ fixed' = fixed
        /\ \/ SameSecrets(s, s') /\ superseded' = superseded
           \/ /\ Opened(s, s', lost)
              /\ superseded' = [i \in Id |-> IF i \in lost THEN {} ELSE superseded[i]]
    BY <2>1, OpenStep
  <2>3. CASE SameSecrets(s, s') /\ superseded' = superseded
    BY <1>2, <1>3, <2>2, <2>3 DEF SameSecrets, SameDatabase, SameCache
  <2>4. CASE /\ Opened(s, s', lost)
             /\ superseded' = [i \in Id |-> IF i \in lost THEN {} ELSE superseded[i]]
    <3>1. \A i \in Id : PassSafe(i) /\ s'.meta.rows[i] = s.meta.rows[i] => PassSafe(i)'
      BY <2>2, <2>4, PassOpened
    <3>2. QED BY <1>2, <2>2, <3>1
  <2>5. QED BY <2>2, <2>3, <2>4
<1>14. CASE UNCHANGED vars
  BY <1>2, <1>3, <1>14 DEF vars
<1>15. QED BY <1>4, <1>5, <1>6, <1>7, <1>8, <1>9, <1>10, <1>11, <1>12, <1>13, <1>14,
             NextSteps

\* What credentials() and checkPassword() read.
LEMMA SafePassesRead ==
    ASSUME Typed, PassesSafe
    PROVE  NoOldPassword
<1> SUFFICES ASSUME NEW i \in fixed, Exists(s.meta, i)
             PROVE  /\ Credentials(s, i, TRUE).pass \notin superseded[i]
                    /\ \A u \in User \cup {Null}, p \in superseded[i] :
                          ~CheckPassword(s, i, u, p)
  BY DEF NoOldPassword
<1> DEFINE info == Identity(s.meta, i)
           keep == s.meta.rows[i].remember
           found == IF info.remember /\ s.open THEN SecretsLoad(s, i) ELSE LookupCredentials(s, i)
<1>1. /\ PassSafe(i) /\ i \in Id /\ s.meta.rows[i] \in Row
      /\ Null \notin superseded[i]
  BY PassAssumption DEF PassesSafe, Typed, TypeOK, State, Tables, Exists
<1>2. info.id = i /\ info.remember = keep /\ keep \in BOOLEAN
  BY <1>1 DEF Identity, NoInfo, Row
<1>3. i # NewIdentity
  BY <1>1 DEF Id, NewIdentity
<1> HIDE DEF info, keep
<1>4. found.pass \notin superseded[i]
  <2>1. SecretsLoad(s, i).pass = IF s.creds[i] = NoSecret THEN Null ELSE s.creds[i].pass
    BY DEF SecretsLoad
  <2>2. LookupCredentials(s, i).pass = IF s.cache[i] = NoSecret THEN Null ELSE s.cache[i].pass
    BY DEF LookupCredentials
  <2>3. CASE info.remember /\ s.open
    BY <1>1, <2>1, <2>3 DEF PassSafe
  <2>4. CASE ~(info.remember /\ s.open)
    BY <1>1, <2>2, <2>4 DEF PassSafe
  <2>5. QED BY <2>3, <2>4
<1>5. Credentials(s, i, TRUE) =
         [info EXCEPT !.user = IF info.secretName THEN found.user ELSE @,
                      !.pass = found.pass, !.hasPass = TRUE]
  BY <1>2, <1>3 DEF Credentials, info
<1>6. "pass" \in DOMAIN info
  BY DEF info, Identity, NoInfo
<1>7. Credentials(s, i, TRUE).pass = found.pass
  BY <1>5, <1>6
<1>8. ASSUME NEW u \in User \cup {Null}, NEW p \in superseded[i], CheckPassword(s, i, u, p)
      PROVE  FALSE
  <2>1. s.open /\ \E v : SecretsCheck(s, i, v, p)
    BY <1>8 DEF CheckPassword
  <2>2. s.creds[i] # NoSecret /\ s.creds[i].pass = p
    BY <2>1 DEF SecretsCheck, SecretsLoad
  <2>3. QED BY <1>1, <1>8, <2>1, <2>2 DEF PassSafe
<1>9. QED BY <1>4, <1>7, <1>8

\* A password that was replaced is neither found again nor accepted
\* (CredentialsStore!NoOldPassword; credentials(), checkPassword()).
THEOREM NoOldPasswordHolds ==
    ASSUME "version" \notin Faults
    PROVE  Spec => []NoOldPassword
<1>1. Init => NumberedFresh /\ PassesSafe
  <2> SUFFICES ASSUME Init PROVE NumberedFresh /\ PassesSafe
    OBVIOUS
  <2>1. /\ s.open = FALSE /\ s.creds = NoEntries /\ s.cache = NoEntries
        /\ version = NoFile => s.meta = CreateTables
        /\ alive = FALSE /\ version \in {NoFile, 1}
        /\ superseded = [i \in Id |-> {}] /\ fixed = Id
    BY FoundDatabases DEF Init
  <2>2. Numbered
    BY <2>1 DEF Numbered, CreateTables, NoFile
  <2>3. Fresh
    BY <2>1 DEF Fresh, NoEntries
  <2>4. PassesSafe
    BY <2>1 DEF PassesSafe, PassSafe, NoEntries
  <2>5. QED BY <2>2, <2>3, <2>4 DEF NumberedFresh
<1>2. Typed /\ NumberedFresh /\ PassesSafe /\ [Next]_vars => NumberedFresh' /\ PassesSafe'
  BY NumberedNext, PassesNext
<1>3. Typed /\ PassesSafe => NoOldPassword
  BY SafePassesRead
<1>4. QED BY <1>1, <1>2, <1>3, AlwaysTyped, PTL DEF Spec
-----------------------------------------------------------------------------
(* What is read of an identity is what was stored of it; or something of      *)
(* that, and of what was there, when the error of a statement was not looked *)
(* at.                                                                       *)

\* The tables, as they will be once a database of version 1 is converted.
Found == IF ~alive /\ version = 1 THEN UpdateFrom1(s.meta) ELSE s.meta

ReadAs(read, stored) ==
    IF stored.mixed THEN Within(read, stored.info) ELSE read = stored.info

ReadsLast ==
    /\ alive => version # 1
    /\ DOMAIN last = Id
    /\ \A i \in Id : Exists(Found, i) => ReadAs(Metadata(Identity(Found, i)), last[i])

LEMMA ReadStays ==
    ASSUME Typed, ReadsLast, alive, s' \in State, UNCHANGED <<version, last>>,
           KeepsRows(s.meta, s'.meta)
    PROVE  ReadsLast'
<1>1. Found = s.meta /\ Found' = s'.meta /\ version # 1
  BY DEF Found, ReadsLast
<1>2. s.meta \in Tables /\ Coherent(s.meta) /\ s'.meta \in Tables
  BY DEF Typed, TypeOK, State
<1>3. ASSUME NEW i \in Id, Exists(s'.meta, i)
      PROVE  ReadAs(Metadata(Identity(s'.meta, i)), last[i])
  <2>1. SameRowsOf(s.meta, s'.meta, i)
    BY <1>3 DEF KeepsRows
  <2>2. Exists(s.meta, i) /\ Identity(s'.meta, i) = Identity(s.meta, i)
    BY <1>2, <1>3, <2>1, IdentityKept
  <2>3. QED BY <1>1, <2>2 DEF ReadsLast
<1>4. QED BY <1>1, <1>3 DEF ReadsLast

\* The tables that updateCredentials() leaves when it returns the identity id.
LEMMA TablesStored ==
    ASSUME NEW d \in Tables, Coherent(d), NEW u \in Info, NEW f,
           u.id = NewIdentity => d.nextId \in Id,
           InsertMethods(d, DOMAIN u.methods).nextMethod <= MaxMethodId + 1,
           UpdateIdentity(d, u, f).id # NewIdentity,
           NEW t, t = UpdateIdentity(d, u, f).st,
           NEW id, id = UpdateIdentity(d, u, f).id, Exists(t, id)
    PROVE  LET row == UpdateRow(d, id, u)
           IN  /\ id \in Id /\ t \in Tables
               /\ row \in Tables /\ Coherent(row) /\ Exists(row, id)
               /\ t = UpdateLists(row, id, u, f)
               /\ InsertMethods(row, DOMAIN u.methods).nextMethod <= MaxMethodId + 1
               /\ row.methods = d.methods /\ row.mechs = d.mechs /\ row.tokens = d.tokens
               /\ row.acl = d.acl /\ row.owner = d.owner /\ row.realms = d.realms
               /\ u.id = NewIdentity \/ Exists(d, id)
               /\ u.id = NewIdentity => ~Exists(d, id)
               /\ t.rows[id] = [user |-> IF u.secretName THEN Null ELSE u.user,
                                remember |-> u.remember, secretName |-> u.secretName]
<1> DEFINE row == UpdateRow(d, id, u)
<1>1. /\ id = StoredId(d, u) /\ t = UpdateLists(row, id, u, f)
      /\ InsertMethods(row, DOMAIN u.methods).nextMethod <= MaxMethodId + 1
      /\ t \in Tables
  <2> DEFINE res == UpdateIdentity(d, u, f)
             to == StoredId(d, u)
  <2>1. /\ res.id \in {NewIdentity, to} /\ res.st \in Tables
        /\ res.id # NewIdentity =>
              /\ res.st = UpdateLists(UpdateRow(d, to, u), to, u, f)
              /\ InsertMethods(UpdateRow(d, to, u), DOMAIN u.methods).nextMethod
                    <= MaxMethodId + 1
    BY IdentityUpdated
  <2> HIDE DEF res, to
  <2>2. res.id = id /\ res.st = t
    BY DEF res
  <2>3. id = to
    BY <2>1, <2>2
  <2>4. QED BY <2>1, <2>2, <2>3 DEF to
<1>2. id \in Id /\ Coherent(row)
  BY <1>1, RowKeepsCoherence
<1>3. /\ row \in Tables
      /\ row.methods = d.methods /\ row.mechs = d.mechs /\ row.tokens = d.tokens
      /\ row.acl = d.acl /\ row.owner = d.owner /\ row.realms = d.realms
      /\ Exists(row, id) <=> u.id = NewIdentity \/ Exists(d, id)
      /\ Exists(row, id) =>
            row.rows[id] = [user |-> IF u.secretName THEN Null ELSE u.user,
                            remember |-> u.remember, secretName |-> u.secretName]
  BY <1>2, RowUpdated
<1>4. u.id = NewIdentity => ~Exists(d, id)
  <2>1. u.id = NewIdentity => id = d.nextId
    BY <1>1 DEF StoredId
  <2>2. Exists(d, id) => id < d.nextId
    BY <1>2 DEF Coherent
  <2>3. QED BY <1>2, <2>1, <2>2 DEF Id
<1> HIDE DEF row
<1>5. t.rows = row.rows
  BY <1>1, <1>2, <1>3, ListsUpdated
<1>6. Exists(row, id)
  BY <1>5 DEF Exists
<1>7. QED BY <1>1, <1>2, <1>3, <1>4, <1>5, <1>6 DEF row

\* The fields of what is kept of an identity.
LEMMA MetadataRead ==
    ASSUME NEW d \in Tables, NEW id \in Id, Exists(d, id)
    PROVE  LET read == Metadata(Identity(d, id))
           IN  /\ read.user = IF d.rows[id].secretName THEN Null ELSE d.rows[id].user
               /\ read.remember = d.rows[id].remember
               /\ read.secretName = d.rows[id].secretName
               /\ read.methods = [m \in Methods(d, id, Null) |-> MechanismsOf(d, id, m)]
               /\ read.acl = AccessControlList(d, id) /\ read.owners = OwnerList(d, id)
               /\ read.realms = {r \in Realm : <<id, r>> \in d.realms}
BY IdentityRead DEF Metadata

LEMMA MetadataFields ==
    ASSUME NEW u \in Info
    PROVE  LET x == Metadata(u)
           IN  /\ x.user = (IF u.secretName THEN Null ELSE u.user)
               /\ x.remember = u.remember /\ x.secretName = u.secretName
               /\ x.methods = u.methods /\ x.acl = u.acl
               /\ x.owners = u.owners /\ x.realms = u.realms
BY DEF Metadata

\* What updateCredentials() leaves to be read of the identity it has stored.
LEMMA ReadsStored ==
    ASSUME NEW d \in Tables, Coherent(d), NEW u \in Info, NEW f, f \notin Unchecked,
           u.id = NewIdentity => d.nextId \in Id,
           InsertMethods(d, DOMAIN u.methods).nextMethod <= MaxMethodId + 1,
           UpdateIdentity(d, u, f).id # NewIdentity,
           NEW t, t = UpdateIdentity(d, u, f).st,
           NEW id, id = UpdateIdentity(d, u, f).id, Exists(t, id)
    PROVE  Metadata(Identity(t, id)) = Metadata(u)
<1> DEFINE row == UpdateRow(d, id, u)
           info == Identity(t, id)
<1>1. /\ id \in Id /\ t \in Tables
      /\ row \in Tables /\ Coherent(row) /\ Exists(row, id)
      /\ t = UpdateLists(row, id, u, f)
      /\ InsertMethods(row, DOMAIN u.methods).nextMethod <= MaxMethodId + 1
      /\ t.rows[id] = [user |-> IF u.secretName THEN Null ELSE u.user,
                       remember |-> u.remember, secretName |-> u.secretName]
  BY TablesStored
<1> HIDE DEF row
<1>2. /\ Methods(t, id, Null) = DOMAIN u.methods
      /\ \A m \in DOMAIN u.methods : MechanismsOf(t, id, m) = u.methods[m]
      /\ AccessControlList(t, id) = u.acl /\ OwnerList(t, id) = u.owners
      /\ \A r \in Realm : <<id, r>> \in t.realms <=> r \in u.realms
  BY <1>1, IdentityWritten
<1>3. /\ info.user = t.rows[id].user
      /\ info.remember = t.rows[id].remember /\ info.secretName = t.rows[id].secretName
      /\ info.methods = [m \in Methods(t, id, Null) |-> MechanismsOf(t, id, m)]
      /\ info.acl = AccessControlList(t, id) /\ info.owners = OwnerList(t, id)
      /\ info.realms = {r \in Realm : <<id, r>> \in t.realms}
  BY <1>1, IdentityRead
<1> HIDE DEF info
<1>4. info.methods = u.methods
  <2>1. u.methods \in [DOMAIN u.methods -> SUBSET Mechanism]
    BY InfoFields
  <2>2. QED BY <1>2, <1>3, <2>1
<1>5. info.realms = u.realms
  <2>1. u.realms \in SUBSET Realm
    BY InfoFields
  <2>2. QED BY <1>2, <1>3, <2>1
<1>6. /\ info.user = IF u.secretName THEN Null ELSE u.user
      /\ info.remember = u.remember /\ info.secretName = u.secretName
  BY <1>1, <1>3
<1>7. info.acl = u.acl /\ info.owners = u.owners
  BY <1>2, <1>3
<1>8. (IF info.secretName THEN Null ELSE info.user) = IF u.secretName THEN Null ELSE u.user
  BY <1>6
<1>9. Metadata(info) = Metadata(u)
  BY <1>4, <1>5, <1>6, <1>7, <1>8 DEF Metadata
<1>10. QED BY <1>9 DEF info

\* And when a statement failed unnoticed: something of the old and of the new.
LEMMA ReadsWithin ==
    ASSUME NEW d \in Tables, Coherent(d), NEW u \in Info, NEW f,
           u.id = NewIdentity => d.nextId \in Id,
           InsertMethods(d, DOMAIN u.methods).nextMethod <= MaxMethodId + 1,
           UpdateIdentity(d, u, f).id # NewIdentity,
           NEW t, t = UpdateIdentity(d, u, f).st,
           NEW id, id = UpdateIdentity(d, u, f).id, Exists(t, id),
           NEW w
    PROVE  LET read == Metadata(Identity(t, id))
           IN  /\ u.id = NewIdentity \/ Exists(d, id)
               /\ ~Exists(d, id) => Within(read, Metadata(u))
               /\ Exists(d, id) /\ Within(Metadata(Identity(d, id)), w)
                     => Within(read, Mixed(w, Metadata(u)))
<1> DEFINE row == UpdateRow(d, id, u)
           read == Metadata(Identity(t, id))
           old == Metadata(Identity(d, id))
           new == Metadata(u)
           mixed == Mixed(w, new)
<1>1. /\ id \in Id /\ t \in Tables
      /\ row \in Tables /\ Coherent(row)
      /\ t = UpdateLists(row, id, u, f)
      /\ InsertMethods(row, DOMAIN u.methods).nextMethod <= MaxMethodId + 1
      /\ row.methods = d.methods /\ row.mechs = d.mechs /\ row.tokens = d.tokens
      /\ row.acl = d.acl /\ row.owner = d.owner /\ row.realms = d.realms
      /\ u.id = NewIdentity \/ Exists(d, id)
      /\ u.id = NewIdentity => ~Exists(d, id)
      /\ t.rows[id] = [user |-> IF u.secretName THEN Null ELSE u.user,
                       remember |-> u.remember, secretName |-> u.secretName]
  BY TablesStored
<1> HIDE DEF row
<1>2. /\ Methods(row, id, Null) = Methods(d, id, Null)
      /\ \A m : MechanismsOf(row, id, m) = MechanismsOf(d, id, m)
      /\ AccessControlList(row, id) = AccessControlList(d, id)
      /\ OwnerList(row, id) = OwnerList(d, id)
  BY <1>1 DEF Methods, MechanismsOf, AccessControlList, OwnerList
<1> DEFINE before == u.id # NewIdentity
<1>3. /\ \A m \in Methods(t, id, Null) :
            m \in DOMAIN u.methods \/ (before /\ m \in Methods(d, id, Null))
      /\ \A m \in Method : \A k \in MechanismsOf(t, id, m) :
            \/ m \in DOMAIN u.methods /\ k \in u.methods[m]
            \/ before /\ m \in Methods(d, id, Null) /\ k \in MechanismsOf(d, id, m)
      /\ \A x \in AccessControlList(t, id) :
            x \in u.acl \/ (before /\ x \in AccessControlList(d, id))
      /\ \A x \in OwnerList(t, id) : x \in u.owners \/ (before /\ x \in OwnerList(d, id))
      /\ \A x : <<id, x>> \in t.realms =>
            x \in u.realms \/ (before /\ <<id, x>> \in d.realms)
  <2>1. /\ \A m \in Methods(t, id, Null) :
              m \in DOMAIN u.methods \/ (before /\ m \in Methods(row, id, Null))
        /\ \A m \in Method : \A k \in MechanismsOf(t, id, m) :
              \/ m \in DOMAIN u.methods /\ k \in u.methods[m]
              \/ before /\ m \in Methods(row, id, Null) /\ k \in MechanismsOf(row, id, m)
        /\ \A x \in AccessControlList(t, id) :
              x \in u.acl \/ (before /\ x \in AccessControlList(row, id))
        /\ \A x \in OwnerList(t, id) : x \in u.owners \/ (before /\ x \in OwnerList(row, id))
        /\ \A x : <<id, x>> \in t.realms =>
              x \in u.realms \/ (before /\ <<id, x>> \in row.realms)
    BY <1>1, IdentityWithin
  <2>2. row.realms = d.realms
    BY <1>1
  <2> HIDE DEF before
  <2>3. QED BY <1>2, <2>1, <2>2
<1>4. Exists(t, id) /\ Methods(t, id, Null) \subseteq Method
  BY DEF Methods
<1>5. /\ read.user = new.user /\ read.remember = new.remember
      /\ read.secretName = new.secretName
      /\ read.methods = [m \in Methods(t, id, Null) |-> MechanismsOf(t, id, m)]
      /\ read.acl = AccessControlList(t, id) /\ read.owners = OwnerList(t, id)
      /\ read.realms = {r \in Realm : <<id, r>> \in t.realms}
  <2> HIDE DEF read, new
  <2>1. /\ read.user = (IF t.rows[id].secretName THEN Null ELSE t.rows[id].user)
        /\ read.remember = t.rows[id].remember
        /\ read.secretName = t.rows[id].secretName
        /\ read.methods = [m \in Methods(t, id, Null) |-> MechanismsOf(t, id, m)]
        /\ read.acl = AccessControlList(t, id) /\ read.owners = OwnerList(t, id)
        /\ read.realms = {r \in Realm : <<id, r>> \in t.realms}
    BY <1>1, <1>4, MetadataRead DEF read
  <2>2. /\ new.user = (IF u.secretName THEN Null ELSE u.user)
        /\ new.remember = u.remember /\ new.secretName = u.secretName
    BY MetadataFields DEF new
  <2>3. QED BY <1>1, <2>1, <2>2
<1>6. /\ new.methods = u.methods /\ new.acl = u.acl
      /\ new.owners = u.owners /\ new.realms = u.realms
  BY MetadataFields
<1>7. Exists(d, id) =>
         /\ old.methods = [m \in Methods(d, id, Null) |-> MechanismsOf(d, id, m)]
         /\ old.acl = AccessControlList(d, id) /\ old.owners = OwnerList(d, id)
         /\ old.realms = {r \in Realm : <<id, r>> \in d.realms}
  BY <1>1, MetadataRead
<1>8. /\ mixed.user = new.user /\ mixed.remember = new.remember
      /\ mixed.secretName = new.secretName
      /\ mixed.methods = [m \in DOMAIN w.methods \cup DOMAIN new.methods |->
                             MechanismsIn(w, m) \cup MechanismsIn(new, m)]
      /\ mixed.acl = new.acl \cup w.acl /\ mixed.owners = new.owners \cup w.owners
      /\ mixed.realms = new.realms \cup w.realms
  BY DEF Mixed, Metadata
<1> HIDE DEF read, new, old, mixed
<1>9. ASSUME ~Exists(d, id) PROVE Within(read, new)
  <2>1. ~before
    BY <1>1, <1>9
  <2>2. /\ DOMAIN read.methods \subseteq DOMAIN new.methods
        /\ \A m \in DOMAIN read.methods : read.methods[m] \subseteq new.methods[m]
    BY <1>3, <1>4, <1>5, <1>6, <2>1
  <2>3. read.acl \subseteq new.acl /\ read.owners \subseteq new.owners
        /\ read.realms \subseteq new.realms
    BY <1>3, <1>5, <1>6, <2>1
  <2>4. QED BY <1>5, <2>2, <2>3 DEF Within
<1>10. ASSUME Exists(d, id), Within(old, w) PROVE Within(read, mixed)
  <2>1. /\ DOMAIN old.methods \subseteq DOMAIN w.methods
        /\ \A m \in DOMAIN old.methods : old.methods[m] \subseteq w.methods[m]
        /\ old.acl \subseteq w.acl /\ old.owners \subseteq w.owners /\ old.realms \subseteq w.realms
    BY <1>10 DEF Within
  <2>2. DOMAIN read.methods \subseteq DOMAIN mixed.methods
    BY <1>3, <1>5, <1>6, <1>7, <1>8, <1>10, <2>1
  <2>3. ASSUME NEW m \in DOMAIN read.methods, NEW k \in read.methods[m]
        PROVE  k \in mixed.methods[m]
    <3>1. m \in Method /\ k \in MechanismsOf(t, id, m)
      BY <1>4, <1>5
    <3>2. CASE m \in DOMAIN u.methods /\ k \in u.methods[m]
      BY <1>6, <1>8, <3>2 DEF MechanismsIn
    <3>3. CASE m \in Methods(d, id, Null) /\ k \in MechanismsOf(d, id, m)
      <4>1. m \in DOMAIN w.methods /\ k \in w.methods[m]
        BY <1>7, <1>10, <2>1, <3>3
      <4>2. QED BY <1>8, <4>1 DEF MechanismsIn
    <3>4. QED BY <1>3, <3>1, <3>2, <3>3
  <2>4. read.acl \subseteq mixed.acl /\ read.owners \subseteq mixed.owners
    BY <1>3, <1>5, <1>6, <1>7, <1>8, <1>10, <2>1
  <2>5. read.realms \subseteq mixed.realms
    BY <1>3, <1>5, <1>6, <1>7, <1>8, <1>10, <2>1
  <2>6. QED BY <1>5, <1>8, <2>2, <2>3, <2>4, <2>5 DEF Within
<1>11. QED BY <1>1, <1>9, <1>10 DEF read, new, old, mixed

LEMMA ReadsUpdate ==
    ASSUME Typed, ReadsLast,
           NEW info \in Infos, NEW id \in Id \cup {NewIdentity},
           NEW f \in SomeFaults, Update([info EXCEPT !.id = id], f)
    PROVE  ReadsLast'
<1> DEFINE u == [info EXCEPT !.id = id]
           meta == UpdateIdentity(s.meta, u, f)
<1>1. /\ s' \in State /\ Coherent(s'.meta) /\ s'.meta = meta.st
      /\ u.id = NewIdentity => s.meta.nextId \in Id
      /\ InsertMethods(s.meta, DOMAIN u.methods).nextMethod <= MaxMethodId + 1
      /\ alive /\ UNCHANGED version
      /\ UpdateOutcome(u, meta, f)
      /\ meta.id # NewIdentity => UpdateHistory(u, meta, f)
  BY UpdateStep
<1>2. u \in Info
  BY InfoWithId
<1>3. s.meta \in Tables /\ Coherent(s.meta) /\ s'.meta \in Tables
  BY <1>1 DEF Typed, TypeOK, State
<1> HIDE DEF u
<1>4. CASE meta.id = NewIdentity
  <2>1. KeepsRows(s.meta, s'.meta)
    BY <1>1, <1>2, <1>3, <1>4, NoneStoredKeeps
  <2>2. last' = last
    BY <1>1, <1>4 DEF UpdateOutcome, history, Id, NewIdentity
  <2>3. QED BY <1>1, <2>1, <2>2, ReadStays
<1>5. CASE meta.id # NewIdentity
  <2> DEFINE to == meta.id
             read == Metadata(Identity(s'.meta, to))
             new == Metadata(u)
             w == last[to].info
             stored == [info |-> IF f \in Unchecked /\ Exists(s.meta, to)
                                 THEN Mixed(w, new) ELSE new,
                        mixed |-> f \in Unchecked]
  <2>1. Found = s.meta /\ Found' = s'.meta /\ version' # 1
    BY <1>1 DEF Found, ReadsLast
  <2>2. last' = [last EXCEPT ![to] = IF ~Exists(s'.meta, to) THEN @ ELSE stored]
    BY <1>1, <1>5 DEF UpdateHistory
  <2>3. \A i \in Id \ {to} : SameRowsOf(s.meta, s'.meta, i)
    BY <1>1, <1>2, <1>3, <1>5, OthersKept
  <2>4. ASSUME Exists(s'.meta, to) PROVE ReadAs(read, stored)
    <3>1. CASE f \notin Unchecked
      <4>1. read = new
        BY <1>1, <1>2, <1>3, <1>5, <2>4, <3>1, ReadsStored
      <4>2. QED BY <3>1, <4>1 DEF ReadAs
    <3>2. CASE f \in Unchecked
      <4>1. /\ ~Exists(s.meta, to) => Within(read, new)
            /\ Exists(s.meta, to) /\ Within(Metadata(Identity(s.meta, to)), w)
                  => Within(read, Mixed(w, new))
        BY <1>1, <1>2, <1>3, <1>5, <2>4, ReadsWithin
      <4>2. Exists(s.meta, to) => Within(Metadata(Identity(s.meta, to)), w)
        <5>1. to \in Id /\ \A x : Within(x, x)
          BY <2>4 DEF Exists, Within
        <5> HIDE DEF meta, to
        <5>2. QED BY <2>1, <5>1 DEF ReadsLast, ReadAs, to
      <4> HIDE DEF read, new, to, w
      <4>3. QED BY <3>2, <4>1, <4>2 DEF ReadAs
    <3>3. QED BY <3>1, <3>2
  <2> HIDE DEF meta, to, stored
  <2>5. DOMAIN last' = Id /\ DOMAIN last = Id
    BY <2>2 DEF ReadsLast
  <2>6. ASSUME NEW i \in Id, Exists(s'.meta, i)
        PROVE  ReadAs(Metadata(Identity(s'.meta, i)), last'[i])
    <3>1. CASE i = to
      <4>1. last'[i] = stored
        BY <2>2, <2>5, <2>6, <3>1
      <4>2. QED BY <2>4, <2>6, <3>1, <4>1
    <3>2. CASE i # to
      <4>1. SameRowsOf(s.meta, s'.meta, i)
        BY <2>3, <3>2
      <4>2. Exists(s.meta, i) /\ Identity(s'.meta, i) = Identity(s.meta, i)
        BY <1>3, <2>6, <4>1, IdentityKept
      <4>3. last'[i] = last[i]
        BY <2>2, <2>5, <3>2
      <4>4. QED BY <2>1, <4>2, <4>3 DEF ReadsLast
    <3>3. QED BY <3>1, <3>2
  <2>7. QED BY <2>1, <2>5, <2>6 DEF ReadsLast
<1>6. QED BY <1>4, <1>5

\* UpdateFrom1() touches OWNER alone; no identity is read between.
LEMMA ReadsStart ==
    ASSUME Typed, ReadsLast, NEW f, Start(f)
    PROVE  ReadsLast'
<1>1. /\ ~alive /\ alive' = TRUE /\ version' \in {0, 2}
      /\ version \in {NoFile, 0} => s'.meta = CreateTables
      /\ version = 1 => s'.meta = UpdateFrom1(s.meta)
      /\ version = 2 => s'.meta = s.meta
      /\ last' = last
  BY StartStep DEF history
<1>2. version \in {NoFile, 0, 1, 2}
  BY DEF Typed, TypeOK
<1>3. Found' = s'.meta /\ version' # 1
  BY <1>1 DEF Found
<1>4. CASE version \in {NoFile, 0}
  <2>1. \A i \in Id : ~Exists(s'.meta, i)
    BY <1>1, <1>4 DEF CreateTables, Exists
  <2>2. QED BY <1>1, <1>3, <2>1 DEF ReadsLast
<1>5. CASE version \in {1, 2}
  <2>1. s'.meta = Found
    BY <1>1, <1>5 DEF Found
  <2>2. QED BY <1>1, <1>3, <2>1 DEF ReadsLast
<1>6. QED BY <1>2, <1>4, <1>5

LEMMA ReadsNext ==
    ASSUME Typed, ReadsLast, [Next]_vars
    PROVE  ReadsLast'
<1>1. s \in State /\ s.meta \in Tables /\ Coherent(s.meta)
  BY DEF Typed, TypeOK, State
<1>2. CASE Stop
  BY <1>2, StopStep, RowsKept, ReadStays
<1>3. CASE Close
  BY <1>3, CloseStep, RowsKept, ReadStays DEF history
<1>4. CASE \E f \in SomeFaults : Start(f)
  BY <1>4, ReadsStart
<1>5. CASE \E f \in SomeFaults, info \in Infos, id \in Id \cup {NewIdentity} :
              id < s.meta.nextId /\ Update([info EXCEPT !.id = id], f)
  BY <1>5, ReadsUpdate
<1>6. CASE \E f \in SomeFaults, id \in Id : Remove(id, f)
  <2>1. PICK f \in SomeFaults, id \in Id : Remove(id, f)
    BY <1>6
  <2> DEFINE meta == RemoveIdentity(s.meta, id, f)
  <2>2. /\ s' \in State /\ alive /\ UNCHANGED <<version, last>>
        /\ RemoveOutcome({id}, meta.st, f)
    BY <2>1, RemoveStep
  <2>3. /\ meta.st.methods = s.meta.methods
        /\ meta.st.mechs = s.meta.mechs /\ meta.st.tokens = s.meta.tokens
        /\ meta.ok \/ meta.st = s.meta
        /\ meta.ok => meta.st.rows[id] = NoRow
        /\ \A i \in Id \ {id} :
              /\ meta.st.rows[i] = s.meta.rows[i]
              /\ \A a \in s.meta.acl : a[1] = i => a \in meta.st.acl
              /\ \A o \in s.meta.owner : o[1] = i => o \in meta.st.owner
              /\ \A x \in s.meta.realms : x[1] = i => x \in meta.st.realms
        /\ meta.st.acl \subseteq s.meta.acl /\ meta.st.owner \subseteq s.meta.owner
        /\ meta.st.realms \subseteq s.meta.realms
    BY <1>1, IdentityRemoved
  <2> HIDE DEF meta
  <2>4. KeepsRows(s.meta, meta.st)
    <3>1. CASE ~meta.ok
      BY <2>3, <3>1, RowsKept
    <3>2. CASE meta.ok
      <4>1. ASSUME NEW i \in Id, Exists(meta.st, i) PROVE SameRowsOf(s.meta, meta.st, i)
        <5>1. i # id
          BY <2>3, <3>2, <4>1 DEF Exists
        <5>2. QED BY <2>3, <5>1 DEF SameRowsOf
      <4>2. QED BY <4>1 DEF KeepsRows
    <3>3. QED BY <3>1, <3>2
  <2>5. KeepsRows(s.meta, s'.meta)
    BY <2>2, <2>4, RowsKept DEF RemoveOutcome
  <2>6. QED BY <2>2, <2>5, ReadStays
<1>7. CASE \E f \in SomeFaults : Clear(f)
  <2>1. PICK f \in SomeFaults : Clear(f)
    BY <1>7
  <2> DEFINE meta == ClearMetaData(s.meta, f)
  <2>2. /\ s' \in State /\ alive /\ UNCHANGED <<version, last>>
        /\ RemoveOutcome(Id, meta.st, f)
    BY <2>1, ClearStep
  <2>3. meta.st = s.meta \/ \A i \in Id : ~Exists(meta.st, i)
    BY <1>1, TablesCleared
  <2> HIDE DEF meta
  <2>4. KeepsRows(s.meta, meta.st)
    BY <2>3, RowsKept DEF KeepsRows
  <2>5. KeepsRows(s.meta, s'.meta)
    BY <2>2, <2>4, RowsKept DEF RemoveOutcome
  <2>6. QED BY <2>2, <2>5, ReadStays
<1>8. CASE \E f \in SomeFaults, id \in Id, m \in Method, blob \in Blob : Store(id, m, blob, f)
  <2>1. PICK f \in SomeFaults, id \in Id, m \in Method, blob \in Blob : Store(id, m, blob, f)
    BY <1>8
  <2> DEFINE meta == InsertMethods(s.meta, {m})
  <2>2. /\ s' \in State /\ alive /\ UNCHANGED <<version, last>>
        /\ s'.meta \in {s.meta, meta} /\ meta.nextMethod <= MaxMethodId + 1
    BY <2>1, StoreStep
  <2>3. /\ meta.rows = s.meta.rows /\ meta.mechs = s.meta.mechs
        /\ meta.tokens = s.meta.tokens /\ meta.acl = s.meta.acl
        /\ meta.owner = s.meta.owner /\ meta.realms = s.meta.realms
        /\ \A n \in Method : s.meta.methods[n] # 0 => meta.methods[n] = s.meta.methods[n]
    BY <1>1, <2>2, MethodsKeepCoherence
  <2> HIDE DEF meta
  <2>4. KeepsRows(s.meta, meta)
    BY <2>3 DEF KeepsRows, SameRowsOf
  <2>5. KeepsRows(s.meta, s'.meta)
    BY <2>2, <2>4, RowsKept
  <2>6. QED BY <2>2, <2>5, ReadStays
<1>9. CASE \E f \in SomeFaults, id \in Id, m \in Method \cup {Null} : RemoveDataOf(id, m, f)
  <2>1. /\ s' \in State /\ alive /\ UNCHANGED <<version, last>> /\ s'.meta = s.meta
    BY <1>9, RemoveDataStep
  <2>2. QED BY <2>1, RowsKept, ReadStays
<1>10. CASE \E f \in SomeFaults, id \in Id, t \in Token \cup {Null} :
              \/ \E r \in Reference : Refer(id, t, r, f)
              \/ \E r \in Reference \cup {Null} : Unrefer(id, t, r, f)
  <2>1. /\ s' \in State /\ alive /\ UNCHANGED <<version, last>>
        /\ SameLists(s.meta, s'.meta)
    BY <1>10, ReferStep DEF history
  <2>2. QED BY <2>1, RowsKept, ReadStays
<1>11. CASE \E f, lost : Open(lost, f)
  <2>1. PICK f, lost : Open(lost, f)
    BY <1>11
  <2>2. /\ s' \in State /\ alive /\ UNCHANGED <<version, last>> /\ s'.meta = s.meta
    BY <2>1, OpenStep
  <2>3. QED BY <2>2, RowsKept, ReadStays
<1>12. CASE UNCHANGED vars
  BY <1>12 DEF vars, ReadsLast, Found
<1>13. QED BY <1>2, <1>3, <1>4, <1>5, <1>6, <1>7, <1>8, <1>9, <1>10, <1>11, <1>12,
             NextSteps

\* An identity is read as it was last stored; after an update in which a statement
\* failed unnoticed, within what was there and what was stored
\* (CredentialsStore!ReadBack; updateIdentity(), identity()).
THEOREM ReadBackHolds == Spec => []ReadBack
<1>1. Init => ReadsLast
  BY DEF Init, ReadsLast, ReadAs, Found
<1>2. Typed /\ ReadsLast /\ [Next]_vars => ReadsLast'
  BY ReadsNext
<1>3. ReadsLast => ReadBack
  BY DEF ReadsLast, ReadAs, ReadBack, Found
<1>4. QED BY <1>1, <1>2, <1>3, AlwaysTyped, PTL DEF Spec
=============================================================================
