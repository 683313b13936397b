--------------------------- MODULE IdentityObjects ---------------------------
(* The objects that the daemon keeps for the identities its clients use:     *)
(* SignonDisposable, whose objects are destroyed when nobody has used them   *)
(* for a while; the daemon's table of the stored ones; and the copy each     *)
(* SignonIdentity keeps of its row, m_pInfo.                                 *)
(*                                                                           *)
(* The operations are operators on the record r of the objects, the table    *)
(* and the two timers.  An object is alive, doomed once destroy() has run    *)
(* (its deleteLater() waits for the event loop), and then deleted.  The room *)
(* of a deleted object is free for another, unless the table still points to *)
(* it.                                                                       *)
EXTENDS CredentialsDB, AccessControl

CONSTANT Object \* bound: objects at one time

NoObject == 0
ASSUME ObjectAssumption == NoObject \notin Object

NoCache == [none |-> TRUE] \* m_pInfo is NULL

Objects == [obj : [Object -> [st : {"free", "alive", "doomed", "deleted"},
                              id : 0..MaxId,                  \* m_id
                              info : Info \cup {NoCache},     \* m_pInfo
                              auto : BOOLEAN,                 \* autoDestruct
                              idle : BOOLEAN,                 \* past maxInactivity
                              listed : BOOLEAN,               \* in disposableObjects
                              watched : BOOLEAN]],            \* connected to the daemon
            byId : [0..MaxId -> Object \cup {NoObject}],      \* m_storedIdentities
            dispose : BOOLEAN,                                \* disposeTimer is active
            notify : BOOLEAN]                                 \* notifyTimer is active

FreeObject == [st |-> "free", id |-> NewIdentity, info |-> NoCache, auto |-> TRUE,
               idle |-> FALSE, listed |-> FALSE, watched |-> FALSE]

NoObjects == [obj |-> [o \in Object |-> FreeObject],
              byId |-> [i \in 0..MaxId |-> NoObject], dispose |-> FALSE, notify |-> FALSE]

Existing(r) == {o \in Object : r.obj[o].st \in {"alive", "doomed"}}
Listed(r) == {o \in Object : r.obj[o].listed}

-----------------------------------------------------------------------------
\* SignonDisposable.

KeepInUse(r, o) == [r EXCEPT !.obj[o].idle = FALSE, !.notify = FALSE, !.dispose = TRUE]

SetAutoDestruct(r, o, value) == [KeepInUse(r, o) EXCEPT !.obj[o].auto = value]

Destroy(r, o) == [r EXCEPT !.obj[o].st = "doomed"]

\* A defect: the flag is not looked at.
DestroyUnusedAll(r) ==
    LET unused == {o \in Listed(r) : r.obj[o].idle}
        new == [r EXCEPT !.obj = [o \in Object |->
                   IF o \in unused THEN [@[o] EXCEPT !.st = "doomed", !.listed = FALSE]
                   ELSE @[o]]]
    IN  [new EXCEPT !.notify = @ \/ Listed(new) = {}]

\* A defect: the timer is started before the list is empty.
DestroyUnusedFirst(r) ==
    LET unused == {o \in Listed(r) : r.obj[o].auto /\ r.obj[o].idle}
    IN  [r EXCEPT !.obj = [o \in Object |->
                     IF o \in unused THEN [@[o] EXCEPT !.st = "doomed", !.listed = FALSE]
                     ELSE @[o]],
                  !.notify = @ \/ Listed(r) = {}]

DestroyUnused(r) ==
    LET unused == {o \in Listed(r) : r.obj[o].auto /\ r.obj[o].idle}
        new == [r EXCEPT !.obj = [o \in Object |->
                   IF o \in unused THEN [@[o] EXCEPT !.st = "doomed", !.listed = FALSE]
                   ELSE @[o]]]
    IN  [new EXCEPT !.notify = @ \/ Listed(new) = {}]

\* The timer's receivers are the objects themselves.
OnDisposeTimer(r) ==
    LET stopped == [r EXCEPT !.dispose = FALSE]
    IN  IF Existing(r) = {} THEN stopped ELSE DestroyUnused(stopped)

-----------------------------------------------------------------------------
\* SignonDaemon.

\* createIdentity().
Create(r, o, id) ==
    KeepInUse([r EXCEPT !.obj[o] = [FreeObject EXCEPT !.st = "alive", !.id = id,
                                                     !.listed = TRUE]], o)

\* onIdentityStored().
OnIdentityStored(r, o) == [r EXCEPT !.byId[r.obj[o].id] = o]

\* watchIdentity().
WatchIdentity(r, o) ==
    LET watched == [r EXCEPT !.obj[o].watched = TRUE]
    IN  IF r.obj[o].id = NewIdentity THEN watched ELSE OnIdentityStored(watched, o)

\* A defect: the entry of the object is kept.
DeleteKeepingEntry(r, o) ==
    LET named == \E i \in 0..MaxId : r.byId[i] = o
    IN  [r EXCEPT !.obj[o] = [FreeObject EXCEPT !.st = IF named THEN "deleted" ELSE "free"]]

\* A defect: the destructor leaves the list to destroyUnused().
DeleteListed(r, o) ==
    LET byId == IF r.obj[o].watched THEN [r.byId EXCEPT ![r.obj[o].id] = NoObject] ELSE r.byId
        named == \E i \in 0..MaxId : byId[i] = o
    IN  [r EXCEPT !.byId = byId,
                  !.obj[o] = [FreeObject EXCEPT
                     !.listed = r.obj[o].listed,
                     !.st = IF named \/ r.obj[o].listed THEN "deleted" ELSE "free"]]

\* The destructors, with onIdentityDestroyed(): the entry of the id that the
\* object has now is removed, whichever object it is.
Delete(r, o) ==
    LET byId == IF r.obj[o].watched THEN [r.byId EXCEPT ![r.obj[o].id] = NoObject] ELSE r.byId
        named == \E i \in 0..MaxId : byId[i] = o
    IN  [r EXCEPT !.byId = byId,
                  !.obj[o] = [FreeObject EXCEPT !.st = IF named THEN "deleted" ELSE "free"]]

-----------------------------------------------------------------------------
\* SignonIdentity.

\* queryInfo(): the copy is loaded when there is none, or when it has no
\* password and the caller wants one.  With the fault "query" the database
\* cannot be read.
QueryInfo(s, r, o, queryPassword, f) ==
    LET cached == r.obj[o].info
        load == cached = NoCache \/ (queryPassword /\ cached.pass = Null)
        loaded == IF ~load THEN cached
                  ELSE IF f = "query" THEN NoCache
                  ELSE Credentials(s, r.obj[o].id, queryPassword)
    IN  [st |-> [r EXCEPT !.obj[o].info = loaded],
         ok |-> loaded # NoCache,
         info |-> IF loaded = NoCache THEN NoInfo ELSE loaded]

\* A defect: only the object that asked for the change hears of it.
OnCredentialsUpdatedOne(r, id) == r

\* onCredentialsUpdated(), of every object: CredentialsDB says which identity it
\* has changed.
OnCredentialsUpdated(r, id) ==
    [r EXCEPT !.obj = [o \in Object |->
        IF id # NewIdentity /\ @[o].st \in {"alive", "doomed"} /\ @[o].id = id
        THEN [@[o] EXCEPT !.info = NoCache] ELSE @[o]]]

\* SignonIdentityInfo::update(): each value that was sent replaces the old one, but
\* for the id.  All are sent but the password, which may be left out.
MergeInfo(old, new) ==
    [new EXCEPT !.id = old.id,
                !.pass = IF new.hasPass THEN new.pass ELSE old.pass,
                !.hasPass = new.hasPass \/ old.hasPass]

\* store(): what is to be stored.  The creator becomes an owner when there is no
\* copy.
InfoToStore(r, o, info, sent, peer) ==
    IF r.obj[o].info # NoCache
    THEN MergeInfo(r.obj[o].info, info)
    ELSE [info EXCEPT !.id = sent, !.owners = @ \cup ({AppId[peer]} \ {Null})]

\* The rest of storeCredentials(), after updateCredentials() with the result res.
CredentialsStored(r, o, info, res) ==
    LET heard == OnCredentialsUpdated([r EXCEPT !.obj[o].info = info], res.id)
        id == IF info.id # NewIdentity THEN r.obj[o].id
              ELSE IF res.err THEN NewIdentity ELSE res.id
        named == [heard EXCEPT !.obj[o].id = id]
        dropped == [named EXCEPT !.obj[o].info = NoCache]
    IN  [s |-> res.st, err |-> res.err, id |-> id,
         r |-> IF res.err THEN named
               ELSE IF r.obj[o].watched THEN OnIdentityStored(dropped, o) ELSE dropped]

\* storeCredentials(), with whether an error was seen, and the id it returns.  A
\* transaction that does not begin, or commit, leaves none.
StoreCredentials(s, r, o, info, f) ==
    CredentialsStored(r, o, info, IF info.id = NewIdentity THEN InsertCredentials(s, info, f)
                                  ELSE UpdateCredentials(s, info, f))
=============================================================================
