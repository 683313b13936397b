--------------------------- MODULE CredentialsStore ---------------------------
(* The credentials database as the daemon uses it: the identities, the       *)
(* sessions and the credentials access manager call the operations of        *)
(* CredentialsDB in any order; the encrypted file system comes and goes; the *)
(* daemon stops and starts again.                                            *)
(*                                                                           *)
(* The variables after version remember what the callers have asked for, for *)
(* the properties: nothing reads them.                                       *)
EXTENDS CredentialsDB

CONSTANTS Infos,     \* what the clients store, with an id that is ignored
          OldTables, \* databases of version 1 that may be found at the first start
          Faults,    \* the faults that occur
          MaxMixed   \* bound: identities stored without some of their rows, or of
                     \* whose rows some could not be deleted

\* A password that is stored is not empty: Null is the empty string too.
ASSUME InfosAssumption ==
    /\ Infos \subseteq Info
    /\ \A info \in Infos : info.hasPass <=> info.pass # Null
ASSUME OldTablesAssumption == \A old \in OldTables : old \in Tables /\ Coherent(old)
ASSUME FaultsAssumption == Faults \subseteq Statements \cup {"secrets", "crash", "version"}

VARIABLES s,
          alive,      \* the daemon runs
          version,    \* PRAGMA user_version; NoFile: there is no database
          given,      \* passwords that were to be stored, with their identities
          superseded, \* by identity, passwords that another has replaced
          fixed,      \* identities whose storePassword has never changed
          last,       \* by identity, its metadata as last stored, and whether they are mixed
          data        \* the data last stored, as the secrets database should have it

vars == <<s, alive, version, given, superseded, fixed, last, data>>
history == <<given, superseded, fixed, last, data>>

NoFile == -1
SomeFaults == Faults \cup {"none"}

TypeOK ==
    /\ s \in State
    /\ alive \in BOOLEAN
    /\ version \in {NoFile, 0, 1, 2}
    /\ given \in SUBSET (Id \X Pass)
    /\ superseded \in [Id -> SUBSET Pass]
    /\ fixed \in SUBSET Id
    /\ data \in [Id \X MethodId -> Blob \cup {Null}]

Init ==
    /\ alive = FALSE
    /\ \/ version = NoFile /\ s = NewState(CreateTables)
       \/ version = 1 /\ \E old \in OldTables : s = NewState(old)
    /\ given = {}
    /\ superseded = [i \in Id |-> {}]
    /\ fixed = Id
    /\ last = [i \in Id |->
                   [info |-> Metadata(Identity(
                       (IF version = 1 THEN UpdateFrom1(s.meta) ELSE s.meta), i)),
                    mixed |-> FALSE]]
    /\ data = NoBlobs

-----------------------------------------------------------------------------
\* init(): the tables are made, converted from version 1, or left as they are.
\* With the fault "version" the number is not written.  A database with tables
\* and no number is made anew, and gets no number then.
Start(f) ==
    /\ ~alive
    /\ f \in {"none", "version"}
    /\ alive' = TRUE
    /\ version' = IF version = 0 \/ f = "version" THEN 0 ELSE 2
    /\ s' = [s EXCEPT !.meta = IF version \in {NoFile, 0} THEN CreateTables
                               ELSE IF version = 1 THEN UpdateFrom1(s.meta) ELSE @]
    /\ f = "version" => version = NoFile
    /\ UNCHANGED history

\* What a secret that was only in the cache of a daemon that stops leaves: the
\* one before it may be found again.
Forgotten(ids) ==
    /\ superseded' = [i \in Id |-> IF i \in ids THEN {} ELSE superseded[i]]
    /\ data' = [x \in Id \X MethodId |-> IF x[1] \in ids THEN s'.store[x] ELSE data[x]]

Cached == {i \in Id : s.cache[i] # NoSecret}

Stop ==
    /\ alive
    /\ alive' = FALSE
    /\ s' = Crash(s)
    /\ Forgotten(Cached)
    /\ UNCHANGED <<version, given, fixed, last>>

\* The metadata x, or y, or something of both.
MechanismsIn(x, m) == IF m \in DOMAIN x.methods THEN x.methods[m] ELSE {}

Mixed(x, y) ==
    [y EXCEPT !.methods = [m \in DOMAIN x.methods \cup DOMAIN y.methods |->
                              MechanismsIn(x, m) \cup MechanismsIn(y, m)],
              !.acl = @ \cup x.acl, !.owners = @ \cup x.owners, !.realms = @ \cup x.realms]

Within(x, y) ==
    /\ x.user = y.user /\ x.remember = y.remember /\ x.secretName = y.secretName
    /\ DOMAIN x.methods \subseteq DOMAIN y.methods
    /\ \A m \in DOMAIN x.methods : x.methods[m] \subseteq y.methods[m]
    /\ x.acl \subseteq y.acl /\ x.owners \subseteq y.owners /\ x.realms \subseteq y.realms

\* updateCredentials() and insertCredentials().  An unchecked statement that fails
\* and would have changed nothing is not told from one that succeeds.
Update(info, f) ==
    LET res == UpdateCredentials(s, info, f)
        id == res.id
        new == Metadata(info)
        stored == [info |-> IF f \in Unchecked /\ Exists(s.meta, id)
                            THEN Mixed(last[id].info, new) ELSE new,
                   mixed |-> f \in Unchecked]
    IN  /\ alive
        /\ info.id = NewIdentity => s.meta.nextId \in Id
        /\ InsertMethods(s.meta, DOMAIN info.methods).nextMethod <= MaxMethodId + 1
        /\ f \in Unchecked => /\ Cardinality({i \in Id : last[i].mixed}) < MaxMixed
                             /\ res # UpdateCredentials(s, info, "none")
        /\ s' = res.st
        /\ alive' = (f # "crash" \/ id = NewIdentity)
        /\ IF id = NewIdentity
           THEN UNCHANGED history
           ELSE /\ given' = IF info.remember /\ info.hasPass
                            THEN given \cup {<<id, info.pass>>} ELSE given
                /\ IF f = "crash" THEN Forgotten(Cached \cup {id})
                   ELSE /\ superseded' = [superseded EXCEPT ![id] =
                               IF ~info.hasPass THEN @
                               ELSE IF f = "secrets" THEN {} ELSE Pass \ {info.pass}]
                        /\ UNCHANGED data
                /\ fixed' = IF Exists(s.meta, id)
                               /\ s.meta.rows[id].remember # info.remember
                            THEN fixed \ {id} ELSE fixed
                /\ last' = [last EXCEPT ![id] = IF Exists(res.st.meta, id) THEN stored ELSE @]
        /\ UNCHANGED version

\* The secrets of ids have been removed, unless the database is closed or fails.
Removes(ids, f) ==
    /\ UNCHANGED <<version, given, fixed, last>>
    /\ IF ~s.open \/ f = "secrets" THEN UNCHANGED <<alive, superseded, data>>
       ELSE IF f = "crash" THEN alive' = FALSE /\ Forgotten(Cached \cup ids)
       ELSE /\ UNCHANGED <<alive, superseded>>
            /\ data' = [x \in Id \X MethodId |-> IF x[1] \in ids THEN Null ELSE data[x]]

\* removeCredentials(), for an identity or for one that is no longer there.
Remove(id, f) ==
    LET res == RemoveCredentials(s, id, f)
    IN  /\ alive
        /\ id < s.meta.nextId
        /\ s' = res.st
        /\ Removes({id}, f)

Clear(f) ==
    LET res == ClearCredentials(s, f)
    IN  /\ alive
        /\ s' = res.st
        /\ Removes(Id, f)

Store(id, m, blob, f) ==
    LET res == StoreData(s, id, m, blob, f)
        n == InsertMethods(s.meta, {m})
    IN  /\ alive
        /\ id < s.meta.nextId
        /\ n.nextMethod <= MaxMethodId + 1
        /\ s' = res.st
        /\ alive' = (f # "crash")
        /\ IF f = "crash" THEN Forgotten(Cached)
           ELSE /\ data' = IF ~res.ok THEN data
                           ELSE [data EXCEPT ![<<id, n.methods[m]>>] =
                                    IF blob \in Huge THEN s.store[<<id, n.methods[m]>>] ELSE blob]
                /\ UNCHANGED superseded
        /\ UNCHANGED <<version, given, fixed, last>>

RemoveDataOf(id, m, f) ==
    LET res == RemoveData(s, id, m, f)
    IN  /\ alive
        /\ id < s.meta.nextId
        /\ s' = res.st
        /\ data' = IF res.ok
                   THEN [x \in Id \X MethodId |->
                            IF x[1] = id /\ (m = Null \/ x[2] = MethodIdOf(s.meta, m))
                            THEN Null ELSE data[x]]
                   ELSE data
        /\ UNCHANGED <<alive, version, given, superseded, fixed, last>>

ReferenceCall(res) ==
    /\ alive
    /\ s' = [s EXCEPT !.meta = res.st]
    /\ UNCHANGED <<alive, version>> /\ UNCHANGED history

Refer(id, token, ref, f) == ReferenceCall(AddReference(s.meta, id, token, ref, f))
Unrefer(id, token, ref, f) == ReferenceCall(RemoveReference(s.meta, id, token, ref, f))

\* The encrypted file system is there.  The entries of the cache in lost are
\* not stored, unless the database cannot be opened at all.
Open(lost, f) ==
    /\ alive
    /\ ~s.open
    /\ lost \subseteq Cached
    /\ s' = OpenSecretsDB(s, lost, f)
    /\ IF f = "secrets" THEN UNCHANGED <<superseded, data>>
       ELSE /\ superseded' = [i \in Id |-> IF i \in lost THEN {} ELSE superseded[i]]
            /\ data' = [x \in Id \X MethodId |-> IF x[1] \in lost THEN s.store[x] ELSE data[x]]
    /\ UNCHANGED <<alive, version, given, fixed, last>>

Close ==
    /\ alive /\ s.open
    /\ s' = CloseStorage(s)
    /\ UNCHANGED <<alive, version>> /\ UNCHANGED history

Next ==
    \/ Stop \/ Close
    \/ \E f \in SomeFaults, info \in Infos, id \in Id \cup {NewIdentity} :
           id < s.meta.nextId /\ Update([info EXCEPT !.id = id], f)
    \/ \E f \in SomeFaults \ Unchecked :
        \/ Start(f)
        \/ \E id \in Id : Remove(id, f)
        \/ Clear(f)
        \/ \E id \in Id, m \in Method, blob \in Blob : Store(id, m, blob, f)
        \/ \E id \in Id, m \in Method \cup {Null} : RemoveDataOf(id, m, f)
        \/ \E id \in Id, t \in Token \cup {Null}, r \in Reference : Refer(id, t, r, f)
        \/ \E id \in Id, t \in Token \cup {Null}, r \in Reference \cup {Null} :
               Unrefer(id, t, r, f)
    \/ Open({}, "none")
    \/ "secrets" \in Faults /\ \E lost \in SUBSET Cached : Open(lost, "none")
    \/ "secrets" \in Faults /\ Open({}, "secrets")

Spec == Init /\ [][Next]_vars

-----------------------------------------------------------------------------
\* A password reaches the disk only when its identity was to remember it: the
\* cache that is written back when the secrets database is opened holds the
\* others too (SecretsCache::storeToDB(), updateCredentials()).
NotRememberedNotStored ==
    \A i \in Id : s.creds[i] # NoSecret /\ s.creds[i].pass # Null
                    => <<i, s.creds[i].pass>> \in given

\* A password that was replaced by another is neither found again by
\* credentials() nor accepted by checkPassword(), whichever of the cache and the
\* two databases was open when either was stored, unless the one that replaced it
\* was lost with the daemon or by the storage.  Identities whose storePassword
\* has changed are left out: the password stays where it was.
NoOldPassword ==
    \A i \in {j \in fixed : Exists(s.meta, j)} :
        /\ Credentials(s, i, TRUE).pass \notin superseded[i]
        /\ \A u \in User \cup {Null}, p \in superseded[i] : ~CheckPassword(s, i, u, p)

\* Data that storeData() has accepted is in the secrets database whenever that is
\* open, wherever it was when the data was stored, and loadData() finds it there
\* (storeToDB(), storeData(), removeData()).  Data that is too large for it, which
\* the cache accepts, leaves there what was there before.
AcceptedDataStored ==
    s.open => /\ s.store = data
              /\ \A i \in Id, m \in Method : LET n == MethodIdOf(s.meta, m)
                                            IN  n # 0 => LoadData(s, i, m) = data[<<i, n>>]

\* An identity is read as it was last stored: the rows of the eight tables are put
\* together again (updateIdentity(), identity()).  An update that goes on after an
\* unchecked statement that failed is reported as done, and the identity reads
\* differently, until it is stored again: but it alone, and it names no application,
\* method, mechanism or realm that neither it nor the update did.
ReadBack ==
    alive => \A i \in {j \in Id : Exists(s.meta, j)} :
        LET read == Metadata(Identity(s.meta, i))
        IN  IF last[i].mixed THEN Within(read, last[i].info) ELSE read = last[i].info

\* An update of an identity that is reported as failed changes nothing of it: it
\* fails at whichever of the statements that are looked at (updateIdentity()).
UpdateFailsWhole ==
    alive => \A info \in Infos, f \in SomeFaults,
                id \in {i \in Id : Exists(s.meta, i)}
                           \cup (IF s.meta.nextId \in Id THEN {NewIdentity} ELSE {}) :
        LET res == UpdateCredentials(s, [info EXCEPT !.id = id], f)
        IN  res.id = NewIdentity => res.st = s

\* When the removal of an identity succeeds nothing of it is left in the tables
\* of the two databases (removeCredentials(), and the triggers).
RemovalComplete ==
    s.open => \A id \in Id, f \in SomeFaults :
        LET res == RemoveCredentials(s, id, f)
        IN  res.ok => /\ res.st.creds[id] = NoSecret
                      /\ \A n \in MethodId : res.st.store[<<id, n>>] = Null
                      /\ ~Exists(res.st.meta, id)
                      /\ OwnerList(res.st.meta, id) = {}
                      /\ References(res.st.meta, id, Null) = {}
=============================================================================
