---------------------------- MODULE SecureStorage ----------------------------
(* The secure storage of the daemon: the CredentialsAccessManager with its   *)
(* KeyHandler, key authorizer and CryptoManager, driven by the key managers, *)
(* by session cores that need the storage, by backups and by restarts.       *)
(*                                                                           *)
(* A step is one turn of the daemon's event loop: a signal of a key manager  *)
(* or of the authorizer, a posted event or a D-Bus call, with all that it    *)
(* calls; or a step of the environment.                                      *)
EXTENDS KeyHandler

CONSTANTS KeyManager,  \* loaded key managers
          Sender,      \* objects that post secure storage events
          Asks,        \* the authorizer asks a user; else it is the default one
          Removes,     \* key managers may remove keys
          Backups,     \* backups are made
          Crashes      \* the daemon may be killed

ASSUME StorageAssumption ==
    /\ Asks \in BOOLEAN
    /\ Removes \in BOOLEAN
    /\ Backups \in BOOLEAN
    /\ Crashes \in BOOLEAN

VARIABLES setup, slots, keychain, plain, kernel,   \* the volume and its mount
          mounted, encryptionKey,                  \* CryptoManager
          inserted, authorized, readyKeyManagers,  \* KeyHandler
          alive, opened, db, secrets,              \* CredentialsAccessManager
          started,  \* init() and the first openCredentialsSystem() are done
          queries,  \* keys whose authorization the authorizer has to answer
          sender    \* of each object: how far its event has come

diskVars == <<setup, slots, keychain, plain, kernel>>
keyVars == <<mounted, encryptionKey, inserted, authorized>>
camVars == <<alive, opened, db, secrets>>
stateVars == <<diskVars, keyVars, camVars>>
otherVars == <<started, readyKeyManagers, queries, sender>>
vars == <<stateVars, otherVars>>

\* The state as the calls take it, and the step to the one they give.
Now == [setup |-> setup, slots |-> slots, keychain |-> keychain, plain |-> plain,
        kernel |-> kernel, mounted |-> mounted, encryptionKey |-> encryptionKey,
        inserted |-> inserted, authorized |-> authorized, alive |-> alive,
        opened |-> opened, db |-> db, secrets |-> secrets]

Become(s) ==
    /\ setup' = s.setup /\ slots' = s.slots
    /\ keychain' = s.keychain /\ plain' = s.plain /\ kernel' = s.kernel
    /\ mounted' = s.mounted /\ encryptionKey' = s.encryptionKey
    /\ inserted' = s.inserted /\ authorized' = s.authorized
    /\ alive' = s.alive /\ opened' = s.opened
    /\ db' = s.db /\ secrets' = s.secrets

\* "posted" to the manager, "waiting" among its notifiers, "answered".
SenderStates == {"idle", "posted", "waiting", "answered"}

StorageTypeOK ==
    /\ Now \in State
    /\ started \in BOOLEAN
    /\ readyKeyManagers \in SUBSET KeyManager
    /\ queries \in SUBSET AnyKey
    /\ sender \in [Sender -> SenderStates]

\* A daemon that starts, on a volume that no one has created.
Init ==
    /\ setup = FALSE
    /\ slots = EmptyHeader
    /\ keychain = {} /\ plain = {}
    /\ kernel = "closed"
    /\ mounted = FALSE
    /\ encryptionKey = NoKey
    /\ inserted = {} /\ authorized = {}
    /\ readyKeyManagers = {}
    /\ alive = TRUE
    /\ opened = FALSE /\ db = FALSE /\ secrets = FALSE
    /\ started = FALSE
    /\ queries = {}
    /\ sender = [x \in Sender |-> "idle"]

-----------------------------------------------------------------------------
\* isReady().
Ready == readyKeyManagers = KeyManager

\* A choice of anyAuthorizedKey() among the authorized keys of s.
AnyAuthorized(s) == IF s.authorized = {} THEN {NoKey} ELSE s.authorized

\* replyToSecureStorageEventNotifiers().
ReplyToNotifiers ==
    sender' = [x \in Sender |->
                  IF sender[x] = "waiting" THEN "answered" ELSE sender[x]]

\* Mutant: the default authorizer formats although it knows keys.
WrongDefaultResult(s) == IF s.authorized = {} THEN "Approved" ELSE "Exclusive"

\* DefaultKeyAuthorizer: what queryKeyAuthorization() answers at once.
DefaultResult(s) == IF s.authorized = {} THEN "Exclusive" ELSE "Approved"

\* onKeyAuthorizationQueried(), up to the reply to the notifiers.
Authorize(s, key, result, f) ==
    IF result = "Denied" THEN {s}
    ELSE {AuthorizeKey(s, key, result = "Exclusive", a, f) : a \in AnyAuthorized(s)}

\* queryKeyAuthorization(), of the default authorizer or of one that asks.
QueryAuthorization(s, key, f) ==
    IF Asks
    THEN /\ Become(s)
         /\ queries' = queries \cup {key}
         /\ UNCHANGED sender
    ELSE /\ \E t \in Authorize(s, key, DefaultResult(s), f) : Become(t)
         /\ ReplyToNotifiers
         /\ UNCHANGED queries

\* closeSecretsDB() of the CredentialsAccessManager.
CloseSecretsDB(s, f) == UnmountFileSystem([s EXCEPT !.secrets = FALSE], f).st

\* onKeyDisabled(), with onLastAuthorizedKeyRemoved(), which asks the database
\* object whether it is open: there is none while the system is closed.
DisableKey(s, key, f) ==
    LET out == [s EXCEPT !.inserted = @ \ {key}]
        last == AuthorizedInserted(out) = {} /\ key \in s.authorized
    IN  CASE ~last -> out
          [] last /\ ~s.db -> [out EXCEPT !.alive = FALSE]
          [] OTHER -> IF s.secrets \/ s.mounted THEN CloseSecretsDB(out, f) ELSE out

\* Mutant: the database of a storage that is mounted already is not opened.
OpenSystemOnMount(s, f) ==
    LET ready == [s EXCEPT !.db = TRUE, !.opened = TRUE]
    IN  IF s.mounted THEN ready ELSE MountFileSystem(ready, f).st

\* openCredentialsSystem().
OpenSystem(s, f) ==
    LET ready == [s EXCEPT !.db = TRUE, !.opened = TRUE]
    IN  IF f = "metadata"
        THEN [s EXCEPT !.db = TRUE]
        ELSE IF s.mounted THEN OpenSecretsDB(ready, f) ELSE MountFileSystem(ready, f).st

\* Mutant: the secrets database stays open.
CloseMetaDataOnly(s, f) == [s EXCEPT !.db = FALSE, !.opened = FALSE]

\* closeCredentialsSystem().
CloseSystem(s, f) ==
    IF s.opened
    THEN [(IF s.secrets THEN CloseSecretsDB(s, f) ELSE s)
             EXCEPT !.db = FALSE, !.opened = FALSE]
    ELSE s

-----------------------------------------------------------------------------
\* onKeyInserted(): a manager's first signal counts it as ready, and may carry
\* the empty key; a key that is not known is put to the authorizer.  The first
\* signals may come from setup(), before the system is opened.
KeyInserted(m, key) ==
    /\ alive
    /\ key \notin inserted
    /\ readyKeyManagers' = IF Ready THEN readyKeyManagers ELSE readyKeyManagers \cup {m}
    /\ UNCHANGED started
    /\ IF key = NoKey
       THEN UNCHANGED <<stateVars, queries, sender>>
       ELSE \E f, g \in Faults :
               LET taken == TakeInserted(Now, key, f)
               IN  IF key \in taken.authorized
                   THEN Become(taken) /\ UNCHANGED <<queries, sender>>
                   ELSE QueryAuthorization(taken, key, g)

\* onKeyDisabled(), for a key that a manager has inserted.
KeyDisabled(key) ==
    /\ alive /\ started
    /\ key \in inserted
    /\ \E f \in Faults : Become(DisableKey(Now, key, f))
    /\ UNCHANGED otherVars

\* onKeyRemoved(): the key is disabled, then its authorization revoked.
KeyRemoved(key) ==
    /\ Removes
    /\ alive /\ started
    /\ \E f, g \in Faults :
          LET disabled == DisableKey(Now, key, f)
          IN  IF disabled.alive /\ key \in disabled.authorized
              THEN \E a \in AnyAuthorized(disabled) :
                      Become(RevokeKeyAuthorization(disabled, key, a, g))
              ELSE Become(disabled)
    /\ UNCHANGED otherVars

\* onKeyAuthorizationQueried(), called by an authorizer that has asked.
KeyAuthorizationQueried(key, result) ==
    /\ alive /\ started
    /\ key \in queries
    /\ queries' = queries \ {key}
    /\ \E f \in Faults : \E t \in Authorize(Now, key, result, f) : Become(t)
    /\ ReplyToNotifiers
    /\ UNCHANGED <<started, readyKeyManagers>>

\* openCredentialsSystem(), at the end of the daemon's start.
OpenCredentialsSystem ==
    /\ alive /\ ~started
    /\ started' = TRUE
    /\ \E f \in Faults : Become(OpenSystem(Now, f))
    /\ UNCHANGED <<readyKeyManagers, queries, sender>>

\* backupStarts(): it returns early, with the system closed, when the files for
\* the backup cannot be made.
BackupStarts ==
    /\ Backups
    /\ alive /\ started
    /\ \E f, g \in Faults :
          LET closed == CloseSystem(Now, f)
          IN  Become(IF g = "tree" THEN closed ELSE OpenSystem(closed, g))
    /\ UNCHANGED otherVars

\* A session core stores a result while the secrets database is closed.
PostStorageEvent(x) ==
    /\ alive /\ opened /\ ~secrets
    /\ sender[x] = "idle"
    /\ sender' = [sender EXCEPT ![x] = "posted"]
    /\ UNCHANGED <<stateVars, started, readyKeyManagers, queries>>

\* Mutant: the sender is not one of those that are answered.
AnswerEventForgetting(x) ==
    /\ ~db \/ secrets
    /\ sender' = [sender EXCEPT ![x] = "waiting"]
    /\ UNCHANGED <<stateVars, queries>>

\* customEvent(), when there is nothing to ask for.
AnswerEvent(x) ==
    /\ ~db \/ secrets
    /\ sender' = [y \in Sender |->
                     IF y = x \/ sender[y] = "waiting" THEN "answered" ELSE sender[y]]
    /\ UNCHANGED <<stateVars, queries>>

\* customEvent(), when the storage is needed: the query has no key.  The default
\* authorizer answers it at once, and the sender with it.
QueryForEvent(x) ==
    /\ db /\ ~secrets
    /\ IF Asks
       THEN /\ sender' = [sender EXCEPT ![x] = "waiting"]
            /\ queries' = queries \cup {NoKey}
            /\ UNCHANGED stateVars
       ELSE /\ \E f \in Faults :
                  \E t \in Authorize(Now, NoKey, DefaultResult(Now), f) : Become(t)
            /\ sender' = [y \in Sender |->
                     IF y = x \/ sender[y] = "waiting" THEN "answered" ELSE sender[y]]
            /\ UNCHANGED queries

\* customEvent().
CustomEvent(x) ==
    /\ alive
    /\ sender[x] = "posted"
    /\ AnswerEvent(x) \/ QueryForEvent(x)
    /\ UNCHANGED <<started, readyKeyManagers>>

\* The sender handles the reply, or is destroyed.
SenderDone(x) ==
    /\ alive
    /\ sender[x] # "idle"
    /\ sender' = [sender EXCEPT ![x] = "idle"]
    /\ UNCHANGED <<stateVars, started, readyKeyManagers, queries>>

-----------------------------------------------------------------------------
\* The daemon is killed: the kernel's mount stays.
Crash ==
    /\ Crashes
    /\ alive
    /\ Become([Now EXCEPT !.alive = FALSE])
    /\ UNCHANGED otherVars

\* The daemon is started again.
Restart ==
    /\ ~alive
    /\ Become([Now EXCEPT !.mounted = FALSE, !.encryptionKey = NoKey,
                          !.inserted = {}, !.authorized = {}, !.alive = TRUE,
                          !.opened = FALSE, !.db = FALSE, !.secrets = FALSE])
    /\ started' = FALSE
    /\ readyKeyManagers' = {}
    /\ queries' = {}
    /\ sender' = [x \in Sender |-> "idle"]

Next ==
    \/ \E m \in KeyManager, key \in AnyKey : KeyInserted(m, key)
    \/ \E key \in Key : KeyDisabled(key)
    \/ \E key \in Key : KeyRemoved(key)
    \/ \E key \in AnyKey, result \in {"Denied", "Approved", "Exclusive"} :
          KeyAuthorizationQueried(key, result)
    \/ OpenCredentialsSystem
    \/ BackupStarts
    \/ \E x \in Sender : PostStorageEvent(x)
    \/ \E x \in Sender : CustomEvent(x)
    \/ \E x \in Sender : SenderDone(x)
    \/ Crash
    \/ Restart

Spec == Init /\ [][Next]_vars

\* Posted events are delivered, an authorizer answers what it has been asked,
\* and a daemon that has ended is started again, on demand, and starts.
Fairness ==
    /\ \A x \in Sender : WF_vars(CustomEvent(x))
    /\ \A key \in AnyKey : WF_vars(\E result \in {"Denied", "Approved", "Exclusive"} :
                                      KeyAuthorizationQueried(key, result))
    /\ WF_vars(OpenCredentialsSystem)
    /\ WF_vars(Restart)

FairSpec == Spec /\ Fairness

-----------------------------------------------------------------------------
(* Properties *)

\* The secrets database is open only while the system is open and its file
\* system mounted, however mounts, closed keys, backups and failures mix.
SecretsOnMounted ==
    secrets => mounted /\ opened /\ db

\* The two roads to openSecretsDB(), the signal of a mount and the opening of
\* the system, miss no case: where the storage is mounted the database is open.
SecretsAvailable ==
    "database" \notin FaultKinds /\ alive /\ opened /\ mounted => secrets

\* m_mountState and the kernel agree, over restarts that find the storage still
\* mounted too: what is "mounted" is, unless mount() itself has failed.
MountedReally ==
    "mount" \notin FaultKinds /\ mounted => kernel = "mounted"

\* encryptionKeyInUse() reads the keychain file in place of the LUKS header: a
\* key in it has a slot, through additions, removals and formats that fail.
KeychainHasSlots ==
    "mount" \notin FaultKinds => \A key \in keychain : \E i \in Slot : slots[i] = key

\* An authorized key can open the storage (canAddKeyAuthorization() says that the
\* key handler knows keys which can).
AuthorizedHaveSlots ==
    \A key \in authorized : \E i \in Slot : slots[i] = key

\* The default authorizer formats the storage of no authorized key, and no step
\* that fails halfway loses one.
AuthorizedKeepSlots ==
    [][\A i \in Slot : slots[i] \in authorized => slots'[i] = slots[i]]_vars

\* An object that has asked for the storage is answered, or the daemon ends.
SendersAnswered ==
    \A x \in Sender : sender[x] \in {"posted", "waiting"}
                          ~> sender[x] \in {"answered", "idle"}
=============================================================================
