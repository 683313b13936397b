---------------------------- MODULE CredentialsDB ----------------------------
(* CredentialsDB: the two databases of the daemon behind one interface, and  *)
(* the cache of the secrets that cannot be, or are not to be, on the disk.   *)
(* MetaDataDB is always open.  The database of the secrets (SecretsDB, which *)
(* DefaultSecretsStorage opens and closes) is on the encrypted file system.  *)
(*                                                                           *)
(* An operation is an operator on the state s of both, as in MetaDataDB.  Its *)
(* fault f is the statement that fails: one of MetaDataDB's, "secrets" for   *)
(* one of the secrets database (its begin, a statement, or a commit that is  *)
(* rolled back, as all are but that of updateCredentials(), which does not   *)
(* fail here), or "crash": the daemon stops when the first of two            *)
(* transactions has been committed.                                          *)
EXTENDS MetaDataDB

CONSTANTS Pass, \* passwords
          Blob, \* the dictionaries that a plugin may store
          Huge  \* those of them that are larger than SSO_MAX_TOKEN_STORAGE

ASSUME PassAssumption == Null \notin Pass \cup Blob /\ Huge \subseteq Blob

\* SignonIdentityInfo.
Info == [id : 0..MaxId, user : User \cup {Null}, pass : Pass \cup {Null}, hasPass : BOOLEAN,
         remember : BOOLEAN, secretName : BOOLEAN,
         methods : UNION {[ms -> SUBSET Mechanism] : ms \in SUBSET Method},
         acl : SUBSET Token, owners : SUBSET Token, realms : SUBSET Realm]

\* A row of the secrets database's CREDENTIALS, or an entry of the cache with
\* its m_storePassword.
Secret == [user : User \cup {Null}, pass : Pass \cup {Null}]
Entry == [user : User \cup {Null}, pass : Pass \cup {Null}, keep : BOOLEAN]
NoSecret == [none |-> TRUE]

State == [meta : Tables,
          creds : [Id -> Secret \cup {NoSecret}],              \* SecretsDB CREDENTIALS
          store : [Id \X MethodId -> Blob \cup {Null}],        \* SecretsDB STORE
          open : BOOLEAN,                                      \* isSecretsDBOpen()
          cache : [Id -> Entry \cup {NoSecret}],               \* m_cache
          blobs : [Id \X MethodId -> Blob \cup {Null}]]        \* its m_blobData

NoBlobs == [x \in Id \X MethodId |-> Null]
NoEntries == [i \in Id |-> NoSecret]
NewState(tables) == [meta |-> tables, creds |-> NoEntries, store |-> NoBlobs,
                     open |-> FALSE, cache |-> NoEntries, blobs |-> NoBlobs]

\* What the end of the daemon leaves.
Crash(s) == [s EXCEPT !.open = FALSE, !.cache = NoEntries, !.blobs = NoBlobs]

\* What the metadata database keeps of an info.
Metadata(info) == [user |-> IF info.secretName THEN Null ELSE info.user,
                   remember |-> info.remember, secretName |-> info.secretName,
                   methods |-> info.methods, acl |-> info.acl,
                   owners |-> info.owners, realms |-> info.realms]

HasSecrets(info) == info.hasPass \/ (info.secretName /\ info.user # Null)

-----------------------------------------------------------------------------
\* SecretsDB.  INSERT OR REPLACE does not fire the trigger of a deletion: the
\* rows of STORE stay.

SecretsUpdate(s, id, user, pass, f) ==
    IF f = "secrets" THEN s ELSE [s EXCEPT !.creds[id] = [user |-> user, pass |-> pass]]

SecretsRemove(s, id) ==
    [s EXCEPT !.creds[id] = NoSecret,
              !.store = [x \in Id \X MethodId |-> IF x[1] = id THEN Null ELSE @[x]]]

SecretsClear(s) == [s EXCEPT !.creds = NoEntries, !.store = NoBlobs]

\* storeData() replaces all that there is; one that is too large is refused, and
\* what was there stays.
SecretsStoreData(s, id, m, data, f) ==
    IF f = "secrets" \/ data \in Huge
    THEN [st |-> s, ok |-> FALSE]
    ELSE [st |-> [s EXCEPT !.store[<<id, m>>] = data], ok |-> TRUE]

\* removeData(): of one method, or with 0 of all.
SecretsRemoveData(s, id, m) ==
    [s EXCEPT !.store = [x \in Id \X MethodId |->
                            IF x[1] = id /\ m \in {0, x[2]} THEN Null ELSE @[x]]]

SecretsLoad(s, id) ==
    IF s.creds[id] = NoSecret THEN [user |-> Null, pass |-> Null] ELSE s.creds[id]

SecretsLoadData(s, id, m) == s.store[<<id, m>>]

\* AbstractSecretsStorage::checkPassword().
SecretsCheck(s, id, user, pass) ==
    s.creds[id] # NoSecret /\ SecretsLoad(s, id) = [user |-> user, pass |-> pass]

\* DefaultSecretsStorage.

\* initialize(): what is open is closed first.
Initialize(s, f) == [s EXCEPT !.open = f # "secrets"]

CloseStorage(s) == [s EXCEPT !.open = FALSE]

-----------------------------------------------------------------------------
\* SecretsCache.

LookupCredentials(s, id) ==
    IF s.cache[id] = NoSecret THEN [user |-> Null, pass |-> Null]
    ELSE [user |-> s.cache[id].user, pass |-> s.cache[id].pass]

LookupData(s, id, m) == s.blobs[<<id, m>>]

CacheUpdate(s, id, user, pass, keep) ==
    [s EXCEPT !.cache[id] = [user |-> user, pass |-> pass, keep |-> keep]]

\* updateData() makes an entry with nothing else in it, if there is none.
CacheData(s, id, m, data) ==
    [s EXCEPT !.blobs[<<id, m>>] = data,
              !.cache[id] = IF @ = NoSecret
                            THEN [user |-> Null, pass |-> Null, keep |-> FALSE] ELSE @]

\* Defects: m_storePassword is not looked at, and is written too.
WrittenAll(e) == [user |-> e.user, pass |-> e.pass]
WrittenAsIs(e) == e

Written(e) == [user |-> e.user, pass |-> IF e.keep THEN e.pass ELSE Null]

\* storeToDB(), in which the entries of the set lost fail to be stored: nobody
\* looks at the results.
StoreToDB(s, lost) ==
    LET kept(i) == i \notin lost /\ s.cache[i] # NoSecret
    IN  [s EXCEPT
           !.creds = [i \in Id |->
               IF kept(i) /\ Written(s.cache[i]) # [user |-> Null, pass |-> Null]
               THEN Written(s.cache[i]) ELSE @[i]],
           !.store = [x \in Id \X MethodId |->
               IF kept(x[1]) /\ s.blobs[x] \notin Huge \cup {Null}
               THEN s.blobs[x] ELSE @[x]]]

ClearCache(s) == [s EXCEPT !.cache = NoEntries, !.blobs = NoBlobs]

-----------------------------------------------------------------------------
\* CredentialsDB.  Each operation clears lastError() first.

\* RETURN_IF_NO_SECRETS_DB.
NoSecretsDB(s) == [st |-> s, ok |-> FALSE, err |-> TRUE]

\* Defects: the cache is not cleared, or is cleared first.
OpenSecretsDBKept(s, lost, f) ==
    LET opened == Initialize(s, f)
    IN  IF opened.open THEN StoreToDB(opened, lost) ELSE opened
OpenSecretsDBEarly(s, lost, f) ==
    LET opened == Initialize(s, f)
    IN  IF opened.open THEN StoreToDB(ClearCache(opened), lost) ELSE opened

\* openSecretsDB().
OpenSecretsDB(s, lost, f) ==
    LET opened == Initialize(s, f)
    IN  IF opened.open THEN ClearCache(StoreToDB(opened, lost)) ELSE opened

CheckPassword(s, id, user, pass) ==
    LET info == Identity(s.meta, id)
    IN  /\ s.open
        /\ id \in Id
        /\ IF info.secretName THEN SecretsCheck(s, id, user, pass)
           ELSE user = info.user /\ SecretsCheck(s, id, Null, pass)

\* credentials(): the cache is looked at when the secret is not to be stored, or
\* when the database it is stored in is closed.
Credentials(s, id, queryPassword) ==
    LET info == Identity(s.meta, id)
        found == IF info.remember /\ s.open
                 THEN SecretsLoad(s, id)
                 ELSE LookupCredentials(s, id)
    IN  IF ~queryPassword \/ info.id = NewIdentity
        THEN info
        ELSE [info EXCEPT !.user = IF info.secretName THEN found.user ELSE @,
                          !.pass = found.pass, !.hasPass = TRUE]

\* The rest of updateCredentials(), after updateIdentity() with the result res:
\* that the secrets are stored is not looked at.
StoreSecrets(s, info, res, f) ==
    LET updated == [s EXCEPT !.meta = res.st]
        user == IF info.secretName THEN info.user ELSE Null
        new == IF f = "crash" THEN Crash(updated)
               ELSE IF ~HasSecrets(info) THEN updated
               ELSE IF info.remember /\ s.open
               THEN SecretsUpdate(updated, res.id, user, info.pass, f)
               ELSE CacheUpdate(updated, res.id, user, info.pass, info.remember)
    IN  [st |-> IF res.id = NewIdentity THEN updated ELSE new,
         id |-> res.id, err |-> res.err]

\* updateCredentials(), with the id it returns: the secrets are stored after the
\* metadata has been committed.
UpdateCredentials(s, info, f) == StoreSecrets(s, info, UpdateIdentity(s.meta, info, f), f)

InsertCredentials(s, info, f) == UpdateCredentials(s, [info EXCEPT !.id = NewIdentity], f)

\* removeCredentials(): the secrets first.
RemoveCredentials(s, id, f) ==
    LET removed == SecretsRemove(s, id)
        res == RemoveIdentity(s.meta, id, f)
    IN  IF ~s.open THEN NoSecretsDB(s)
        ELSE IF f = "secrets" THEN [st |-> s, ok |-> FALSE, err |-> FALSE]
        ELSE IF f = "crash" THEN [st |-> Crash(removed), ok |-> FALSE, err |-> FALSE]
        ELSE [res EXCEPT !.st = [removed EXCEPT !.meta = res.st]]

\* clear().
ClearCredentials(s, f) ==
    LET cleared == SecretsClear(s)
        res == ClearMetaData(s.meta, f)
    IN  IF ~s.open THEN NoSecretsDB(s)
        ELSE IF f = "secrets" THEN [st |-> s, ok |-> FALSE, err |-> FALSE]
        ELSE IF f = "crash" THEN [st |-> Crash(cleared), ok |-> FALSE, err |-> FALSE]
        ELSE [res EXCEPT !.st = [cleared EXCEPT !.meta = res.st]]

LoadData(s, id, m) ==
    LET n == MethodIdOf(s.meta, m)
    IN  IF id \notin Id \/ n = 0 THEN Null
        ELSE IF s.open THEN SecretsLoadData(s, id, n) ELSE LookupData(s, id, n)

\* storeData(): for any identity, there or not; the method gets its number first.
StoreData(s, id, m, data, f) ==
    LET meta == InsertMethods(s.meta, {m})
        named == [s EXCEPT !.meta = meta]
    IN  IF id \notin Id \/ (f = "exec" /\ meta # s.meta)
        THEN [st |-> s, ok |-> FALSE]
        ELSE IF f = "crash" THEN [st |-> Crash(named), ok |-> FALSE]
        ELSE IF s.open THEN SecretsStoreData(named, id, meta.methods[m], data, f)
        ELSE [st |-> CacheData(named, id, meta.methods[m], data), ok |-> TRUE]

\* removeData(): of a method, or with Null of every method.
RemoveData(s, id, m, f) ==
    LET n == IF m = Null THEN 0 ELSE MethodIdOf(s.meta, m)
    IN  IF \/ ~s.open
           \/ id \notin Id
           \/ m # Null /\ n = 0
           \/ f = "secrets"
        THEN [st |-> s, ok |-> FALSE]
        ELSE [st |-> SecretsRemoveData(s, id, n), ok |-> TRUE]
=============================================================================
