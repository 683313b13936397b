--------------------------- MODULE IdentityService ---------------------------
(* The identities as the clients use them over D-Bus: SignonDaemon, its      *)
(* SignonIdentity objects with their adaptors' access checks, the databases  *)
(* beneath, and the dialogs of signon-ui that a call may wait for.  Each     *)
(* D-Bus call, each answer of signon-ui or of the access control manager,    *)
(* each timer and each deletion is one turn of the daemon's event loop; they *)
(* come in any order.                                                        *)
EXTENDS IdentityObjects

CONSTANTS Call,       \* bound: calls that wait for signon-ui at one time
          Kinds,      \* the kinds of call that are made
          MaxRetries, \* bound: retries that a client allows in verifyUser()
          AnyId,      \* store() is also sent the id of another identity
          MaxAsking,  \* bound: requests for access that wait for an answer
          Infos,      \* what the clients store
          Faults,     \* the faults that occur
          Encrypted   \* the database of the secrets is on an encrypted file system

ASSUME BoundsAssumption ==
    Encrypted \in BOOLEAN /\ AnyId \in BOOLEAN /\ MaxRetries \in Nat /\ MaxAsking \in Nat
ASSUME InfosAssumption == Infos \subseteq Info /\ Cardinality(Method) <= MaxMethodId
\* The end of the daemon is an action of its own.
ASSUME FaultsAssumption == Faults \subseteq Statements \cup {"secrets", "query"}
ASSUME KindsAssumption == Kinds \subseteq {"update", "verify", "remove", "signOut"}

VARIABLES s,      \* the databases
          up,     \* the daemon runs
          r,      \* its objects
          calls,  \* the calls that wait for signon-ui
          asking, \* who waits to be given access to an identity
          dirty,  \* objects whose copy may be other than what is stored: it has been
                  \* changed and not dropped, or its secret is not found any more
          anew    \* objects that have been stored as new twice

vars == <<s, up, r, calls, asking, dirty, anew>>

NoCall == [none |-> TRUE]
\* over: another call of the object has ended since, or its destruction.
Waiting == [kind : Kinds, o : Object, retries : 0..MaxRetries, over : BOOLEAN]
SomeFaults == Faults \cup {"none"}

Alive == {o \in Object : r.obj[o].st = "alive"}
Waits(o) == {c \in Call : calls[c] # NoCall /\ calls[c].o = o}

TypeOK ==
    /\ s \in State
    /\ up \in BOOLEAN
    /\ r \in Objects
    /\ calls \in [Call -> Waiting \cup {NoCall}]
    /\ asking \in SUBSET (Peer \X Id)
    /\ dirty \subseteq Object /\ anew \subseteq Object

\* openCredentialsSystem(): without encryption it opens both databases.
InitialSecrets(db) == IF Encrypted THEN db ELSE OpenSecretsDB(db, {}, "none")

Init ==
    /\ s = InitialSecrets(NewState(CreateTables))
    /\ up = TRUE
    /\ r = NoObjects
    /\ calls = [c \in Call |-> NoCall]
    /\ asking = {}
    /\ dirty = {} /\ anew = {}

-----------------------------------------------------------------------------
\* SignonDaemonAdaptor.

\* dirty and anew are about copies that are there.
Forget(r2) ==
    /\ dirty' = {o \in dirty : r2.obj[o].info # NoCache}
    /\ anew' = {o \in anew : r2.obj[o].st # "free"}

RegisterNewIdentity(o) ==
    /\ up
    /\ r.obj[o].st = "free"
    /\ r' = DestroyUnused(WatchIdentity(Create(r, o, NewIdentity), o))
    /\ Forget(r')
    /\ UNCHANGED <<s, up, calls, asking>>

\* SignonDaemon::getIdentity(), and the adaptor after it.  An identity that is
\* not there, or a database that cannot be read, has the object destroyed.
GetIdentity(o, id, f) ==
    LET known == r.byId[id]
        had == IF known = NoObject THEN Create(r, o, id) ELSE r
        got == QueryInfo(s, had, o, FALSE, f)
        kept == KeepInUse(WatchIdentity(got.st, o), o)
    IN  /\ IF known = NoObject THEN r.obj[o].st = "free"
           ELSE o = known /\ r.obj[o].st # "deleted"
        /\ r' = IF got.info.id = NewIdentity THEN Destroy(got.st, o) ELSE DestroyUnused(kept)
        /\ calls' = IF got.info.id = NewIdentity
                    THEN [c \in Call |-> IF c \in Waits(o)
                                         THEN [calls[c] EXCEPT !.over = TRUE] ELSE calls[c]]
                    ELSE calls
        /\ Forget(r')

GetAllowed(o, peer, id, f) ==
    /\ up
    /\ IsPeerAllowedToUse(s.meta, peer, id)
    /\ GetIdentity(o, id, f)
    /\ UNCHANGED <<s, up, asking>>

\* Otherwise the access control manager is asked.
AskAccess(peer, id) ==
    /\ up
    /\ <<peer, id>> \notin asking /\ Cardinality(asking) < MaxAsking
    /\ ~IsPeerAllowedToUse(s.meta, peer, id)
    /\ asking' = asking \cup {<<peer, id>>}
    /\ Forget(r)
    /\ UNCHANGED <<s, up, r, calls>>

\* onIdentityAccessReplyFinished(): who is accepted is checked again.
AccessRefused(peer, id) ==
    /\ <<peer, id>> \in asking
    /\ asking' = asking \ {<<peer, id>>}
    /\ Forget(r)
    /\ UNCHANGED <<s, up, r, calls>>

AccessAccepted(o, peer, id, f) ==
    /\ <<peer, id>> \in asking
    /\ IsPeerAllowedToUse(s.meta, peer, id)
    /\ asking' = asking \ {<<peer, id>>}
    /\ GetIdentity(o, id, f)
    /\ UNCHANGED <<s, up>>

-----------------------------------------------------------------------------
\* SignonIdentityAdaptor and SignonIdentity: the calls.

\* A call reaches an object that is registered on the bus, from a client that
\* may use its identity.
MayUse(o, peer) ==
    /\ up
    /\ o \in Alive
    /\ IsPeerAllowedToUse(s.meta, peer, r.obj[o].id)

GetInfo(o, peer, f) ==
    LET got == QueryInfo(s, r, o, FALSE, f)
    IN  /\ MayUse(o, peer)
        /\ r' = IF got.info.id = NewIdentity THEN got.st ELSE KeepInUse(got.st, o)
        /\ Forget(r')
        /\ UNCHANGED <<s, up, calls, asking>>

\* A call that waits for signon-ui keeps its object from being destroyed.
WaitForUi(o, c, kind, retries, r2) ==
    /\ kind \in Kinds
    /\ calls[c] = NoCall
    /\ r' = SetAutoDestruct(r2, o, FALSE)
    /\ calls' = [calls EXCEPT ![c] = [kind |-> kind, o |-> o, retries |-> retries,
                                      over |-> FALSE]]
    /\ Forget(r')

RequestCredentialsUpdate(o, c, peer, f) ==
    LET got == QueryInfo(s, r, o, FALSE, f)
    IN  /\ MayUse(o, peer)
        /\ IF got.info.remember
           THEN WaitForUi(o, c, "update", 0, got.st)
           ELSE r' = got.st /\ UNCHANGED calls /\ Forget(r')
        /\ UNCHANGED <<s, up, asking>>

\* The number of retries is the client's; one that is missing allows none.  It goes
\* to signon-ui, which is taken to send back what it was given.
VerifyUser(o, c, peer, retries, f) ==
    LET got == QueryInfo(s, r, o, TRUE, f)
    IN  /\ MayUse(o, peer)
        /\ IF got.info.remember /\ got.info.pass # Null
           THEN WaitForUi(o, c, "verify", retries, got.st)
           ELSE r' = got.st /\ UNCHANGED calls /\ Forget(r')
        /\ UNCHANGED <<s, up, asking>>

\* verifySecret() answers at once: CheckPassword().
VerifySecret(o, peer, f) ==
    LET got == QueryInfo(s, r, o, TRUE, f)
    IN  /\ MayUse(o, peer)
        /\ r' = IF got.ok THEN KeepInUse(got.st, o) ELSE got.st
        /\ Forget(r')
        /\ UNCHANGED <<s, up, calls, asking>>

\* remove() does not touch the copy.  That of an object that is not stored removes
\* nothing, and waits for signon-ui all the same.
RemoveIdentityCall(o, c, peer, f) ==
    LET res == RemoveCredentials(s, r.obj[o].id, f)
    IN  /\ up /\ o \in Alive
        /\ MayRemove(s.meta, peer, r.obj[o].id)
        /\ s' = res.st
        /\ IF res.ok
           THEN WaitForUi(o, c, "remove", 0, r)
           ELSE /\ UNCHANGED <<r, calls, anew>>
                /\ dirty' = IF r.obj[o].info = NoCache THEN dirty ELSE dirty \cup {o}
        /\ UNCHANGED <<up, asking>>

SignOut(o, c, peer, f) ==
    /\ MayUse(o, peer)
    /\ s' = RemoveData(s, r.obj[o].id, Null, f).st
    /\ WaitForUi(o, c, "signOut", 0, r)
    /\ UNCHANGED <<up, asking>>

\* The id that is sent is the one the client library knows: the object's, or none if
\* an earlier store() has not been answered yet.  Another client may send any, and
\* who may store is decided by the object's.
Store(o, peer, info, sent, f) ==
    LET used == KeepInUse(r, o)
        new == InfoToStore(used, o, info, sent, peer)
        res == StoreCredentials(s, used, o, new, f)
    IN  /\ up /\ o \in Alive
        /\ sent \in {NewIdentity, r.obj[o].id} \/ (AnyId /\ sent < s.meta.nextId)
        /\ MayStore(s.meta, peer, r.obj[o].id, sent)
        /\ new.id = NewIdentity => s.meta.nextId \in Id
        /\ s' = res.s
        /\ r' = res.r
        /\ dirty' = {x \in dirty \cup (IF res.err THEN {o} ELSE {}) : r'.obj[x].info # NoCache}
        /\ anew' = IF new.id = NewIdentity /\ r.obj[o].id # NewIdentity
                   THEN anew \cup {o} ELSE anew
        /\ UNCHANGED <<up, calls, asking>>

-----------------------------------------------------------------------------
\* The answers of signon-ui.

\* The first answer lets the object be destroyed, though others may wait.
Ended(c) == [x \in Call |-> IF x = c THEN NoCall
                            ELSE IF x \in Waits(calls[c].o)
                            THEN [calls[x] EXCEPT !.over = TRUE] ELSE calls[x]]

Answered(c, kind) ==
    /\ calls[c] # NoCall
    /\ calls[c].kind = kind

\* queryUiSlot() and verifyUiSlot() with an error, or without a password.
DialogFailed(c) ==
    /\ calls[c] # NoCall
    /\ calls[c].kind \in {"update", "verify"}
    /\ r' = SetAutoDestruct(r, calls[c].o, TRUE)
    /\ calls' = Ended(c)
    /\ Forget(r')
    /\ UNCHANGED <<s, up, asking>>

\* queryUiSlot() with a password: it is stored with the copy, if there still is
\* one.
QueryUiSlot(c, pass, f) ==
    LET o == calls[c].o
        free == SetAutoDestruct(r, o, TRUE)
        info == [r.obj[o].info EXCEPT !.pass = pass, !.hasPass = TRUE]
        res == UpdateCredentials(s, info, f)
    IN  /\ Answered(c, "update")
        /\ IF r.obj[o].info = NoCache
           THEN r' = free /\ s' = s
           ELSE /\ info.id = NewIdentity => s.meta.nextId \in Id
                /\ s' = res.st
                /\ r' = [OnCredentialsUpdated(free, res.id) EXCEPT !.obj[o].info = NoCache]
        /\ calls' = Ended(c)
        /\ Forget(r')
        /\ UNCHANGED <<up, asking>>

\* A defect: whether retries are left is not looked at.
VerifyUiSlotUnbounded(c, pass) ==
    LET o == calls[c].o
        free == SetAutoDestruct(r, o, TRUE)
        again == r.obj[o].info # NoCache /\ r.obj[o].info.pass # pass
    IN  /\ Answered(c, "verify")
        /\ IF again
           THEN /\ r' = SetAutoDestruct(free, o, FALSE)
                /\ calls' = [calls EXCEPT ![c].retries = @ - 1]
           ELSE /\ r' = [free EXCEPT !.obj[o].info = NoCache]
                /\ calls' = Ended(c)
        /\ Forget(r')
        /\ UNCHANGED <<s, up, asking>>

\* verifyUiSlot() with a password: it is compared with the copy's, and asked for
\* again while there are retries left.
VerifyUiSlot(c, pass) ==
    LET o == calls[c].o
        free == SetAutoDestruct(r, o, TRUE)
        again == /\ r.obj[o].info # NoCache
                 /\ r.obj[o].info.pass # pass
                 /\ calls[c].retries > 0
    IN  /\ Answered(c, "verify")
        /\ IF again
           THEN /\ r' = SetAutoDestruct(free, o, FALSE)
                /\ calls' = [calls EXCEPT ![c].retries = @ - 1]
           ELSE /\ r' = [free EXCEPT !.obj[o].info = NoCache]
                /\ calls' = Ended(c)
        /\ Forget(r')
        /\ UNCHANGED <<s, up, asking>>

\* removeCompleted(), signOutCompleted().
Completed(c) ==
    /\ calls[c] # NoCall
    /\ calls[c].kind \in {"remove", "signOut"}
    /\ r' = SetAutoDestruct(r, calls[c].o, TRUE)
    /\ calls' = Ended(c)
    /\ Forget(r')
    /\ UNCHANGED <<s, up, asking>>

-----------------------------------------------------------------------------
\* Time, the event loop, and what else uses the databases.  The daemon's timeout is
\* not 0, which would have it make no timer, and no session core keeps it in use.

\* maxInactivity has passed since the object was used.
Expire(o) ==
    /\ o \in Alive /\ ~r.obj[o].idle
    /\ r' = [r EXCEPT !.obj[o].idle = TRUE]
    /\ Forget(r')
    /\ UNCHANGED <<s, up, calls, asking>>

\* Every keepInUse() starts disposeTimer again, which takes longer than the
\* inactivity of any object.
DisposeTimer ==
    /\ up /\ r.dispose
    /\ \A o \in Alive : r.obj[o].idle
    /\ r' = OnDisposeTimer(r)
    /\ Forget(r')
    /\ UNCHANGED <<s, up, calls, asking>>

\* deleteLater().  The calls that wait for the object are its children, and are
\* never answered.
DeleteObject(o) ==
    /\ r.obj[o].st = "doomed"
    /\ r' = Delete(r, o)
    /\ calls' = [c \in Call |-> IF c \in Waits(o) THEN NoCall ELSE calls[c]]
    /\ Forget(r')
    /\ UNCHANGED <<s, up, asking>>

\* The daemon has had no object for a while, and ends.
NotifyTimer ==
    /\ up /\ r.notify
    /\ up' = FALSE
    /\ s' = Crash(s)
    /\ r' = NoObjects
    /\ calls' = [c \in Call |-> NoCall]
    /\ asking' = {}
    /\ Forget(r')

Start ==
    /\ ~up
    /\ up' = TRUE
    /\ s' = InitialSecrets(s)
    /\ Forget(r)
    /\ UNCHANGED <<r, calls, asking>>

\* A session core stores what a plugin has got (processResultReply()).
UpdatedByPlugin(id, pass, f) ==
    LET res == UpdateCredentials(s, [Credentials(s, id, TRUE) EXCEPT
                                        !.pass = pass, !.hasPass = TRUE], f)
    IN  /\ up
        /\ Exists(s.meta, id)
        /\ s' = res.st
        /\ r' = OnCredentialsUpdated(r, res.id)
        /\ Forget(r')
        /\ UNCHANGED <<up, calls, asking>>

\* The secure storage is mounted, or unmounted, and no object hears of it: what
\* was found of a secret in the cache is not found any more when the databases
\* open, if it was not to be written, nor when they close, if it was.
Cached == {i \in Id : s.cache[i] # NoSecret}
CopiesOf(ids) == {o \in Object : r.obj[o].info # NoCache /\ r.obj[o].id \in ids}

SecretsOpened ==
    /\ Encrypted /\ up /\ ~s.open
    /\ s' = OpenSecretsDB(s, {}, "none")
    /\ dirty' = dirty \cup CopiesOf({i \in Cached : ~(s.cache[i].keep /\ s.meta.rows[i].remember)})
    /\ UNCHANGED <<up, r, calls, asking, anew>>

SecretsClosed ==
    /\ Encrypted /\ up /\ s.open
    /\ s' = CloseStorage(s)
    /\ dirty' = dirty \cup CopiesOf({i \in Cached : s.meta.rows[i].remember})
    /\ UNCHANGED <<up, r, calls, asking, anew>>

-----------------------------------------------------------------------------
ClientCall ==
    \/ Start
    \/ \E o \in Object : RegisterNewIdentity(o)
    \/ \E peer \in Peer, id \in Id : AskAccess(peer, id)
    \/ \E o \in Object, peer \in Peer, f \in SomeFaults \cap {"none", "query"} :
        \/ \E id \in Id : GetAllowed(o, peer, id, f)
        \/ GetInfo(o, peer, f)
        \/ VerifySecret(o, peer, f)
        \/ \E c \in Call : RequestCredentialsUpdate(o, c, peer, f)
        \/ \E c \in Call, n \in 0..MaxRetries : VerifyUser(o, c, peer, n, f)
    \/ \E o \in Object, peer \in Peer, f \in SomeFaults \ {"query"} :
        \/ \E c \in Call : RemoveIdentityCall(o, c, peer, f)
        \/ \E c \in Call : SignOut(o, c, peer, f)
        \/ \E info \in Infos, sent \in 0..MaxId : Store(o, peer, info, sent, f)

UiAnswer(c) ==
    \/ DialogFailed(c)
    \/ \E pass \in Pass, f \in SomeFaults \ {"query"} : QueryUiSlot(c, pass, f)
    \/ \E pass \in Pass : VerifyUiSlot(c, pass)
    \/ Completed(c)

AccessAnswer(peer, id) ==
    \/ AccessRefused(peer, id)
    \/ \E o \in Object, f \in SomeFaults \cap {"none", "query"} : AccessAccepted(o, peer, id, f)

Timers == DisposeTimer \/ NotifyTimer

Others ==
    \/ \E id \in Id, pass \in Pass, f \in SomeFaults \ {"query"} : UpdatedByPlugin(id, pass, f)
    \/ SecretsOpened \/ SecretsClosed

Next ==
    \/ ClientCall
    \/ \E c \in Call : UiAnswer(c)
    \/ \E peer \in Peer, id \in Id : AccessAnswer(peer, id)
    \/ \E o \in Object : Expire(o) \/ DeleteObject(o)
    \/ Timers
    \/ Others

\* signon-ui answers, or its call times out (SIGNOND_MAX_TIMEOUT); an extension
\* answers the requests it is given; time passes and the event loop runs.  No
\* client has to call.
Fairness ==
    /\ \A c \in Call : WF_vars(UiAnswer(c))
    /\ \A peer \in Peer, id \in Id : WF_vars(AccessAnswer(peer, id))
    /\ \A o \in Object : WF_vars(Expire(o)) /\ WF_vars(DeleteObject(o))
    /\ WF_vars(Timers)

Spec == Init /\ [][Next]_vars /\ Fairness

-----------------------------------------------------------------------------
\* The copy of its row that an object answers from, and writes back with the
\* answer of a dialog, is what is stored, whoever changed that last: another
\* call of the object, a plugin's result, or the cache of the secrets
\* (queryInfo(), onCredentialsUpdated()).  A secret that the copy has is the one
\* that is stored, or that waits to be.  Not after a failed store() or remove(),
\* whose changes stay in the copy, nor for a secret that the opening or the
\* closing of the databases has hidden, and not once the row is removed.
SecretIn(info) == [user |-> IF info.secretName THEN info.user ELSE Null, pass |-> info.pass]
SecretOf(db, i) ==
    LET row == db.meta.rows[i]
        found == IF row.remember /\ (db.open \/ db.cache[i] = NoSecret)
                 THEN SecretsLoad(db, i) ELSE LookupCredentials(db, i)
    IN  [user |-> IF row.secretName THEN found.user ELSE Null, pass |-> found.pass]
NothingSecret == [user |-> Null, pass |-> Null]

CopyCoherent(db, info, i) ==
    /\ info.id = i
    /\ Metadata(info) = Metadata(Identity(db.meta, i))
    /\ SecretIn(info) \in {NothingSecret, SecretOf(db, i)}

CacheCoherent ==
    \A o \in Alive \ dirty :
        r.obj[o].info # NoCache /\ Exists(s.meta, r.obj[o].id)
            => CopyCoherent(s, r.obj[o].info, r.obj[o].id)

\* An object does not go while a call waits for signon-ui: its destruction would
\* leave the caller without an answer (setAutoDestruct(), destroyUnused()).
\* Unless another call of the object has ended in between, which lets the object
\* be destroyed, or a database that could not be read has had it destroyed.
WaitingKept ==
    \A c \in Call : calls[c] # NoCall /\ ~calls[c].over => calls[c].o \in Alive

\* The daemon's table has one entry for each stored identity in use, that of its
\* only object, and points to nothing deleted (onIdentityStored(),
\* onIdentityDestroyed()).  But for an object that has been stored as new twice:
\* its first entry is never removed.
MapSound ==
    /\ \A i \in Id : r.byId[i] # NoObject /\ r.byId[i] \notin anew
                       => r.byId[i] \in Existing(r) /\ r.obj[r.byId[i]].id = i
    /\ \A o \in Alive : r.obj[o].id # NewIdentity => r.byId[r.obj[o].id] = o

\* The list that the timer goes through holds every object that lives, and none
\* that is deleted (SignonDisposable's destructor, destroyUnused()).
ObjectsListed ==
    /\ Alive \subseteq Listed(r)
    /\ Listed(r) \subseteq Existing(r)

\* A daemon that has had an object ends when the clients do not call any more:
\* its objects are destroyed after their inactivity, and the last of them starts
\* the timer of the daemon (keepInUse(), destroyUnused(), invokeOnIdle()).  But
\* for one that getIdentity() destroys, which leaves it on the list: nothing
\* starts the timer when that is the last.  Nor when an answer of signon-ui
\* reaches an object between its destroy() and its deletion, which stops the
\* timer again.
IdleDaemonEnds ==
    \/ []<><<ClientCall>>_vars
    \/ <>(\E o \in Object : r.obj[o].st = "doomed" /\ (r.obj[o].listed \/ Waits(o) # {}))
    \/ [](Listed(r) # {} => <>~up)
=============================================================================
