# A verification development for signond

signond is a D-Bus daemon that stores identities (user names, passwords, access
lists) and runs authentication for its clients: a client opens an *auth session*
on an identity and a method, sends requests through it, and the daemon has a
*plugin*, in a process of its own, carry them out, with dialogs of an external
service (signon-ui) where the user is needed.

This directory holds TLA+ models of that program, TLC configurations that check
them on small instances, and proofs, checked by TLAPS, of what must hold on
instances of any size. `PROJECT.json` ties each definition to the lines it
models, each property to a run and to a mutant of the code it catches, and each
hazard of the code to the properties about it.

    tlc -workers 2 -config SessionCancel.cfg MCSessionCore
    tlc -workers 2 -config StorageFaults.cfg MCSecureStorage
    tlc -workers 2 -config CredentialsSecrets.cfg MCCredentialsStore
    tlc -workers 2 -config IdentityDialogs.cfg MCIdentityService
    tlc -workers 2 -config ClientCalls.cfg MCClientLibrary
    tlc -workers 2 -config BackupFiles.cfg MCBackupRestore
    for m in SessionCore SessionService SecureStorage CredentialsDB \
             CredentialsStore IdentityService ClientLibrary BackupRestore
    do tlapm ${m}Proofs.tla; done

## The system

Paths are relative to the repository. "State" is what a component keeps between
calls.

| component | state | operations | talks to | what makes it correct |
| --- | --- | --- | --- | --- |
| Session core (`src/signond/signonsessioncore.cpp`) | queue of requests, `m_requestIsActive`, `m_canceled`, `m_watcher`, `m_id`, `m_tmpUsername/Password` | `process`, `cancel`, `setId`, posted `startNewRequest` and `queryUiSlot`, the plugin's slots, `destroy` | clients (D-Bus), plugin proxy, signon-ui, database, disposal timer | one request at a time, in order; every request answered, once, with its own answer; only its own credentials stored; never destroyed under work |
| Plugin proxy (`src/signond/pluginproxy.cpp`) | `m_isProcessing`, `m_isResultObtained`, `m_uiPolicy`, the process | `process`, `processUi`, `processRefresh`, `cancel`, `stop`, reading of responses, `onExit`, restart | session core (direct signals), plugin process (two pipes) | the first result or error of a request gets through and no other; an end of the process is noticed by whom it concerns |
| Plugin process (`src/remotepluginprocess`) | buffered input, plugin's state, two notifiers | `startTask`, cancel thread, the plugin's signals | proxy, plugin | operations executed once, in order; a cancel reaches the plugin while it works |
| Plugins (`src/plugins`) | the work under way | `process`, `userActionFinished`, `refresh`, `cancel` | plugin process | end every request with a result or an error |
| Blob channel (`lib/plugins/signon-plugins-common/SignOn/blobiohandler.cpp`) | bytes read and expected | `sendData`, `receiveData`, `readBlob` | both ends of the pipes | data is taken apart where it was put together |
| Disposable objects (`src/signond/signondisposable.cpp`) | last activity, `autoDestruct`, list of objects, two timers | `keepInUse`, `setAutoDestruct`, `destroyUnused` | session cores, identities, daemon | objects in use live, unused ones go, and the daemon then ends |
| Auth sessions (`signonauthsession*.cpp`) | core, owner's pid, path | `process`, `cancel`, `setId`, `objectUnref` | clients, session core | only the owner's calls reach the core |
| Identity (`signonidentity*.cpp`) | copy of its row `m_pInfo`, pending dialogs | `getInfo`, `store`, `remove`, references, `requestCredentialsUpdate`, `verifyUser`, `signOut` | clients, database, signon-ui | the copy agrees with the database; an object stays while a caller waits for it |
| Credentials database (`credentialsdb.cpp`, `default-secrets-storage.cpp`) | two SQL databases, secrets cache | insert, update, remove, look-up, data of methods, opening and closing of the secrets | identity, session core, secure storage | a secret is found where it was last put, whether the storage was open or not; an update happens as a whole; removed identities leave nothing |
| Secure storage (`credentialsaccessmanager.cpp`, `key-handler.cpp`, `default-key-authorizer.cpp`, `extensions/cryptsetup`) | inserted and authorized keys, mount state, pending events | key inserted / disabled / removed, authorization answered, mount, unmount, format | key managers, database | open exactly while an authorized key is in; never reformatted under a key that can open it |
| Access control (`accesscontrolmanagerhelper.cpp`) | requests for access that wait | predicates on peer and identity | adaptors, an extension | a client uses what its rights allow |
| Daemon and registry (`signondaemon.cpp`) | identities by id, maps of session cores, backup mode | registration, queries, `clear`, backup, restore | everything | one object per stored identity; a backup is complete; a restoration loses nothing |
| signon-ui interface (`signonui_interface.cpp`) | none | `queryDialog`, `refreshDialog`, `cancelUiRequest` | signon-ui (external) | its answers reach the call that asked |
| Client library (`lib/SignOn`) | connection, remote object, queued calls, identity state | calls and their replies, registration, reconnection | daemon | every call is answered or fails once; an identity answers from what is stored |
| Network proxy factory, test suites | | | | not modelled |

How they interact: everything in the daemon runs on one thread under Qt's event
loop. D-Bus calls and replies, and posted events (`Qt::QueuedConnection`,
`QDBusPendingCallWatcher::finished`) are delivered one at a time; signals between
objects are direct calls. The plugin process has two threads: its main thread
reads operations through a buffering `QFile`, and while the plugin works a second
thread watches the raw pipe for a cancel. The hard behaviours are therefore
orders, not data races: cancels that cross results, answers to dialogs that are
posted and not yet handled, posted starts that find the world changed, crashes
noticed late, and flags that outlive what they were set for.

The secure storage is the other shared thing with a life of its own: key managers
(extensions) signal that keys come and go, an authorizer says what to do with an
unknown key, and the crypto manager formats, mounts and unmounts a LUKS volume
with external tools. Its signals are direct calls too: one key's arrival may run
from the key handler through a mount into the opening of a database. What is hard
there is that every such step may fail halfway, that the kernel's mounts outlive
the daemon, and that four objects (key handler, crypto manager, kernel, credentials
manager) each keep their own idea of one state.

The databases are what the others share. Every change of them is one turn of the
event loop, but not one transaction: metadata and secrets are two databases, the
second of which may be closed, and then a cache takes its place until it opens.
Each identity object keeps a copy of its row besides. What is hard is that the
copies must agree over every order of stores, results of plugins, answers of
dialogs, failing statements and restarts.

A client sees none of this but D-Bus messages on a connection of its own. The
library hides that the daemon comes and goes: calls wait in a queue until the
daemon has been activated, connected to, and has given the path of the remote
object, which it may destroy at any time. The hard behaviours are the orders of
replies, errors, signals and the loss of the connection.

## Modules

    RemotePluginProcess      the plugin process, its pipes and the plugin
      PluginProxy            + the daemon's end of them
        SessionCore          + one session core, its events, its disposal
          SessionRefinement  = RequestService under a mapping
            MCSessionCore    instances for TLC
          SessionCoreProofs  theorems: requests and their answers; none is forgotten, and
                             no session refuses to go
          SessionServiceProofs   ... RequestService is implemented, each gets its own
    RequestService           what a session core promises

    CryptoManager            the encrypted volume: mounts, formats, key slots
      KeyHandler             + inserted and authorized keys
        SecureStorage        + the credentials manager, authorizers, events
          MCSecureStorage    instances for TLC
          SecureStorageProofs theorems

    MetaDataDB               the tables and triggers of the metadata
      CredentialsDB          + the secrets database and the cache
        CredentialsDBProofs  lemmas about the operators of both
        CredentialsStore     + its callers in any order, failures, restarts
          MCCredentialsStore instances for TLC
          CredentialsStoreProofs theorems
      AccessControl          who may do what (on MetaDataDB)
        IdentityObjects      objects, their list and timers, their copies (on CredentialsDB)
          IdentityService    + clients, dialogs, the event loop
            MCIdentityService instances for TLC
            IdentityServiceProofs theorems

    AsyncDBusProxy           connection, activation, queue of calls
      IdentityImpl           + an identity of the client
      AuthSessionImpl        + a session
      AuthServiceImpl        + the daemon as a service
        ClientLibrary        + application, messages, daemon
          MCClientLibrary    instances for TLC
          ClientLibraryProofs theorems

    BackupRestore            the files of the daemon, copied one by one
      MCBackupRestore        instances for TLC
      BackupRestoreProofs    theorems

The session's modules extend one another rather than run side by side because the calls
between core and proxy are direct: a response read from the pipe and the slot it
ends in are one step, in which the proxy's operator (`ReadFinal`, `SendProcess`)
is conjoined with the core's (`ProcessResultReply`, ...).

**RemotePluginProcess.** `pipe` is what signond has written and nobody has read,
`inFile` what the main thread has buffered: `StartTask` may buffer any number of
operations and executes the first. `CancelThreadRunning` holds while the plugin
works (`enableCancelThread()` to `disableCancelThread()`); then
`CancelThreadReads` takes four bytes off the pipe, whatever they are, calls the
plugin's `cancel()`, and may leave the payload of another operation behind
(`garbled`), which the main thread takes for an unknown opcode and stops on.
The plugin is any library that implements `AuthPluginInterface`: while it works
it may report (`store`, `statusChanged`), ask for a dialog, or end with a result
or an error; `CancelReactions` says what its `cancel()` does (PasswordPlugin
signals an error whatever it is doing; the default does nothing) and
`EndsDialogs` whether it may end while its dialog is open. Plugins send nothing
while idle. A process that stops or crashes is `exited` or `crashed` until the
daemon's QProcess reports it.

**PluginProxy.** The three flags, what each operation writes, and what each
response does to them. `Send` contains `restartIfRequired()`; a restart may
fail, and may also fail though the process runs, when `onReadStandardOutput()`,
still connected, takes the bytes `waitForStarted()` waits for. `m_uiPolicy` is
not initialised by the constructor, so it starts anywhere. An incomplete blob
(`ReadBrokenBlob`, a fault) leaves the rest of the data to be taken for an
unknown opcode, with which everything that can be read is flushed.

**SessionCore.** One core with its queue. `events` are the posted
`startNewRequest()` and `queryUiSlot()` calls in order. Qt delivers all of them
before it polls again, so while some are pending the daemon reads only output
that `poll()` had already reported: `batch` counts it. D-Bus messages are posted
by libdbus's own dispatching and may come at any time. `unused` and
`autoDestruct` are the disposal timer's view; `Destroy` is `destroyUnused()`
with `destroy()`. The rest is bookkeeping for properties: `arrived`, `served`
(handed to the plugin), `cutShort` (canceled while active), `answers` (what each
caller was sent, and for whose work), `tmp` and `row.secret` (whose credentials
are cached, and stored), and bounds.

| action | code |
| --- | --- |
| `Process`, `Cancel`, `SetId`, `CredentialsSystemReady` | the methods of the same names |
| `StartNothing`, `StartLater`, `StartProcess` | `startNewRequest()` by its early returns, with `startProcess()` |
| `QueryUiSlot`, `QueryUiSlotAsserts` | `queryUiSlot()`, with and without a request |
| `UiAnswers` | signon-ui answers; `finished()` is posted |
| `ResultArrives`, `ErrorArrives`, `ReportArrives`, `UiArrives`, `BrokenBlobArrives` | `handlePluginResponse()` or `blobIOError()` with the core's slot |
| `PluginFinishes` | `onExit()` with `processError()` when it reports one |
| `RemoveIdentity` | `SignonIdentity::remove()`, which tells no session |
| `BecomeUnused`, `Destroy` | `destroyUnused()` and `destroy()` |

**CryptoManager, KeyHandler.** Everything the storage does happens inside a
handler, as calls of calls, so these two modules have no variables: an operator
takes the state before a call, a record, and gives the state after it. The
argument `f` is the step of that call which fails ("none", or one of
`FaultKinds`): "loop" no loop device is set up, "open" or "format" cryptsetup
fails, "umount" and "close" the kernel refuses, "slot" a header is not written,
"database" the secrets database does not open, and so on. A handler with two such
calls chooses a fault for each. `Kernel` is what the operating system has, and
survives the daemon; `mounted`, `encryptionKey`, `authorized` are what the daemon
believes. `slots` is the LUKS header, `keychain` the file in the volume that lists
its keys, `plain` the file of the same name that is written when `mount()` has
failed unnoticed and the path is the bare directory.

**SecureStorage** has the variables, `Now` as the record of them, and one action
per signal, event or call:

| action | code |
| --- | --- |
| `KeyInserted` | `onKeyInserted()` of key handler and credentials manager, with the query to the authorizer |
| `KeyDisabled`, `KeyRemoved` | `onKeyDisabled()` with `onLastAuthorizedKeyRemoved()`; `onKeyRemoved()` with `revokeKeyAuthorization()` |
| `KeyAuthorizationQueried` | the slot, with `authorizeKey()` and the reply to the waiting senders |
| `OpenCredentialsSystem`, `BackupStarts` | `initStorage()`'s opening of the system; `backupStarts()`, closing and reopening it |
| `PostStorageEvent`, `CustomEvent`, `SenderDone` | a session core's storage event, its handling, and the reply's |
| `Crash`, `Restart` | the process is killed; `init()` of a new one, on what the old one has left |

`Asks` chooses between the default authorizer, which answers `queryKeyAuthorization()`
at once (`DefaultResult`: "Exclusive", that is format, when no key is authorized),
and an extension that answers later, with any result. `anyAuthorizedKey()` is the
first of a hash set: any of them.

**MetaDataDB, CredentialsDB** have no variables either, for the same reason: a method
of the database is one call in a handler. An operator takes the tables (or the two
databases with the cache) and the statement `f` that fails, and gives what is left,
what is returned (`ok`, or the id), and whether `lastError()` is set, which is not
the same thing: a failed commit sets none, and what is set is the error of the last
statement. `updateIdentity()` looks at few of its results. What fails unseen is
`Unchecked`: the inserts in METHODS ("method"), MECHANISMS, TOKENS, ACL and OWNER, and
the deletions of REALMS, ACL and OWNER ("deleteRealms", ...); it then goes on, commits, and
reports the id. `NamesInserted`, `AclInserted`, `OwnerInserted` and `NotDeleted` say what
is there in the end: a name that could not be inserted is NULL in the rows that select
it (`Selected`). Such a fault takes all the statements of its kind in one call, and one
kind at a time. The tables are sets of rows, with the
triggers that stand in for foreign keys (`CascadeIdentity`, `CascadeToken`,
`ViolatesForeignKey`) and what comes of a trigger's rollback that nobody notices
(`UpdateOfMissing`). `UpdateIdentity`, `RemoveIdentity`, `ClearMetaData`,
`AddReference`, `RemoveReference` are the methods of `MetaDataDB`; `Credentials`,
`UpdateCredentials`, `RemoveCredentials`, `StoreData`, `RemoveData`, `LoadData`,
`CheckPassword`, `OpenSecretsDB` those of `CredentialsDB`, and `StoreToDB` is the cache
written back. The fault "crash" is the daemon's end between its two transactions.

**CredentialsStore** has the databases as a variable and one action per operation:
`Update`, `Remove`, `Clear`, `Store` and `RemoveDataOf` (data of a method), `Refer`,
`Unrefer`, `Open` and `Close` of the secrets, `Stop` and `Start` with the creation or
conversion of the tables. The other variables are history: what was given to be
remembered, what has been replaced, what was stored last.

**AccessControl** translates `AccessControlManagerHelper` and the adaptors' checks as
predicates over any extension: `AppId` and `Access` are constants.

**IdentityObjects** is what the daemon keeps in memory of the identities: objects with
their copy and their part of `SignonDisposable`, the list, the daemon's table and
the two timers, again as operators on a record. **IdentityService** has the actions
below. `store()` may be sent the id that the client library sends, its object's or none, or
where `AnyId` any that has been given, whose row it then writes: the adaptor asks who owns the
object's identity only. `remove()` of an object that is not stored removes nothing, and
waits for signon-ui like any other.

| action | code |
| --- | --- |
| `RegisterNewIdentity`, `GetAllowed`, `AskAccess`, `AccessAccepted`, `AccessRefused` | the daemon's adaptor, `getIdentity()`, and `onIdentityAccessReplyFinished()` |
| `GetInfo`, `RequestCredentialsUpdate`, `VerifyUser`, `VerifySecret`, `RemoveIdentityCall`, `SignOut`, `Store` | the identity's calls, each with its access check |
| `DialogFailed`, `QueryUiSlot`, `VerifyUiSlot`, `Completed` | the answers of signon-ui: `queryUiSlot()`, `verifyUiSlot()`, `removeCompleted()`, `signOutCompleted()` |
| `Expire`, `DisposeTimer`, `DeleteObject`, `NotifyTimer`, `Start` | inactivity, `destroyUnused()`, `deleteLater()`, the end of the idle daemon and its activation |
| `UpdatedByPlugin`, `SecretsOpened`, `SecretsClosed` | what session cores and the secure storage do to the databases |

An object is doomed between `destroy()` and its deletion, for the event loop may
deliver an answer in between; a call reaches only objects that are registered.

**AsyncDBusProxy** is the connection manager, the proxies and their pending calls as
operators on the client's state: `QueueCall`, `Enqueue`, `Update` (what `update()`,
`setStatus()` and the destruction of an interface do to the calls), `SetConnection`,
`SetDisconnected`, `InitConnection`. A call is queued, sent, failing (its error is
posted) or failed (its error is about to be told). **IdentityImpl**,
**AuthSessionImpl** and **AuthServiceImpl** are the three users of a proxy, their
registration, their states and what their replies do. **ClientLibrary** composes
one of them with an application, a first-in first-out inbox and a daemon that
answers (`Served`), does not know the object (`ServeUnknown`) or refuses
(`ServeDenied`), stores for others, destroys its object (`Unregister`), and ends
(`Drop`). `ReadReply` is `PendingCall::onFinished()` with the slot of the object.

**BackupRestore** has the daemon's files by the version of their contents, under
their name, as ".bak" and in the backup directory. A step of `at` is one
operation on one file, for the daemon may be killed after each: `backupStarts()` is
`BackupStarts`, `CreateStorageFileTree`, `EraseBackupDir`, `BackupErased`,
`CopyToBackupDir`, `BackupMade`, `Reopen`; `restoreFinished()` is `RestoreFinished`,
`CopyFromBackupDir` for each file, then `Restored`, `RemoveBak`, `Cleaned`, or
`RemoveCopied`, `MoveBack`, `Recovered`, and `Reopen`. Each of the file system's
operations may fail: opening, unmounting, making a file ("tree"), copying, the two
renames, and `QDir::remove()`, whose result the code looks at nowhere: not when it
empties the backup, nor when it undoes a restoration, nor when it drops the ".bak"
files. `refused` has the files that a recovery could not remove or move back.

**RequestService** is the abstract specification: requests join a line, the
oldest is begun when none is in service, a service ends with an answer or after
a cancel has given one, a waiting request may be withdrawn with an answer.
`SessionRefinement` maps it: the head is in service while `requestIsActive`.

## Properties

| property | says |
| --- | --- |
| `QueuedUnanswered` | a request still queued, unless canceled while active, has had no answer |
| `AnsweredOnce` | one answer per request; two only for one canceled while active, one of them "canceled" |
| `ServedIsActive` | a request handed to the plugin is the active head until it leaves |
| `ActiveIsAwaited` | while a request is active, the proxy's flags let its end through |
| `NoLostStart` | a waiting request with none active before it has a start posted |
| `DestroyNeverRefuses` | the timer never meets an idle object whose `destroy()` refuses (it would be forgotten) |
| `OwnAnswer` | a caller gets the result or error of its own request |
| `OwnCredentials` | only credentials given for the current request are stored |
| `ImplementsService` | the core implements `RequestService` |
| `EveryRequestAnswered` | every request is answered in the end |
| `SecretsOnMounted` | the secrets database is open only in an open system, on its mounted file system |
| `SecretsAvailable` | where system and file system are open, so is the secrets database |
| `MountedReally` | what the daemon takes for mounted, the kernel has mounted |
| `KeychainHasSlots` | a key in the keychain file has a slot in the header |
| `AuthorizedHaveSlots` | an authorized key opens the storage |
| `AuthorizedKeepSlots` | no step takes the slot of an authorized key away, a format least of all |
| `SendersAnswered` | a sender of a storage event is answered |
| `NotRememberedNotStored` | a password is on the disk only if its identity was to remember it |
| `NoOldPassword` | a replaced password is neither found nor accepted again, wherever either was stored |
| `AcceptedDataStored` | data that was accepted is in the open secrets database, and found there |
| `ReadBack` | an identity is read as it was last stored, and only within old and new after an update whose failed statement nobody saw |
| `UpdateFailsWhole` | an update that is reported as failed changes nothing |
| `RemovalComplete` | a removal that succeeds leaves nothing in either database |
| `CacheCoherent` | the copy an object answers from is what is stored, its secret too if it has one, whoever stored it |
| `WaitingKept` | an object is not destroyed under a call that waits for signon-ui |
| `IdleDaemonEnds` | a daemon left alone by its clients ends |
| `MapSound` | the table of identities names the one object of each, and nothing deleted |
| `ObjectsListed` | the list of disposable objects holds those that live and no others |
| `EndsOnce` | a call of the client that ends has reported one result or error, for what it asked |
| `InfoCurrent` | what a client's identity answers from is what the daemon has stored |
| `CallsEnd` | a call of the client ends, unless it is left waiting with nothing under way |
| `BackupComplete` | a backup reported as made has every file, all of one time |
| `OldFilesKept` | wherever a restoration stops, each file it found is still there |
| `RestoreFailsWhole` | a restoration that fails leaves what was there before, file by file, or keeps it as ".bak" where the file itself was refused |

Each module with variables has a type invariant besides, `TypeOK` or
`StorageTypeOK`. Their mutants reach a value no state has: a key past a full
header, a retry below none, a watcher without its request, a cache entry in the
database, a state of the identity that is left at once, a set of the last loop.
`UpdateFailsWhole` and `RemovalComplete` ask of every state what every call, with
every fault, would do in it: they are about the operators, on all tables that can
come about.

## Runs

The session runs use `MCSessionCore`: two requests of two sessions of one identity,
`r2` with the validation policy and `r1` with the default one, unless the table
says otherwise. Two requests are enough
for every crossing of one request with its successor, which is as far as the
code's state reaches (one active request, one watcher, one set of flags). The
session may be destroyed or have nothing left to do, so deadlock is not checked.

| run | instance | shows |
| --- | --- | --- |
| `SessionCancel` | one cancel, plugins whose cancel() fails the work or does nothing, a credentials system that is ready from the start or later | `TypeOK`, `QueuedUnanswered`, `ImplementsService` |
| `SessionFaults` | both requests with the default policy, one cancel, one crash or one incomplete blob | `ServedIsActive`, `ActiveIsAwaited`, `AnsweredOnce`, `NoLostStart`, `DestroyNeverRefuses` |
| `SessionLive` | one crash, one refresh, identity changed and removed, fairness | `OwnAnswer`, `OwnCredentials`, `EveryRequestAnswered` |

The storage runs use `MCSecureStorage`: two keys, two key slots, one sender. Two
keys are the one at hand and any other, authorized or not; two slots are filled by
two keys or by one added twice, so that full headers and doubled keys both occur.

| run | instance | shows |
| --- | --- | --- |
| `StorageFaults` | default authorizer, two key managers, every fault but "mount", backups, kills | `StorageTypeOK`, `SecretsOnMounted`, `AuthorizedHaveSlots`, `AuthorizedKeepSlots` |
| `StorageEvents` | an authorizer that asks, keys removed, faults "slot" and "tree" (a key without a slot opens nothing anyway), backups, kills, fairness | `MountedReally`, `SecretsAvailable`, `KeychainHasSlots`, `SendersAnswered` |

Nothing is bounded in them: the state is finite by itself. The two keys are
symmetric in `StorageFaults`, which has no temporal property but a step's.

The databases are checked twice, for their secrets and for their tables, for the
two hardly meet: what is stored of a secret does not depend on the lists of its
identity, nor the lists on whether the secrets are open.

| run | instance | shows |
| --- | --- | --- |
| `CredentialsSecrets` | one identity with an owner and a reference, two passwords, user name secret or not, remembered or not; one method with data that fits and data that is too large; the secrets closed, failing, lost, the daemon stopped between two transactions | `TypeOK`, `NotRememberedNotStored`, `NoOldPassword`, `AcceptedDataStored`, `RemovalComplete` |
| `CredentialsTables` | two identities, with rows in every table that `updateIdentity()` writes, one method; tables new or of version 1; each statement of its transaction failing, the unchecked ones too | `ReadBack`, `UpdateFailsWhole` |
| `IdentityDialogs` | one object of one identity, stored with a secret that is kept and without, two calls of the four kinds waiting for signon-ui, one retry; failing statements, any id sent to `store()` | `TypeOK`, `CacheCoherent`, `WaitingKept` |
| `IdentityRegistry` | two objects, two identities, two applications with different rights, one removal and one request for access waiting; nothing fails, fairness | `MapSound`, `ObjectsListed`, `IdleDaemonEnds` |

`MaxId` and `MaxMethodId` bound the rows ever inserted, for SQLite gives no number
twice. One identity is enough where the question is which of several places an
identity's secret is read from; two are, where rows of one might be taken for those
of another. `MaxMixed` bounds the identities that read differently than they were
stored at one time, after an unchecked statement has failed with an effect: one, beside
another that must not be touched. In `IdentityRegistry` clients send the ids that the
library sends, to keep it small; the theorems are about any. Two waiting calls are the ones that end and that stay; they are symmetric
in `IdentityDialogs`, which has invariants only.

| run | instance | shows |
| --- | --- | --- |
| `ClientCalls` | a stored identity, a session or the service; two calls and two registrations at a time, two versions of the identity, one lost connection or destroyed object; calls refused, activations failed; fairness | `TypeOK`, `EndsOnce`, `InfoCurrent`, `CallsEnd` |
| `BackupFiles` | one file listed or two, three contents, every operation on files failing any number of times, kills at each of them | `TypeOK`, `BackupComplete`, `OldFilesKept`, `RestoreFailsWhole` |

Two calls of the client are the one that is under way and the one that waits
behind it; a call that follows from a signal or a retry needs room of its own, which
`Room` keeps free: a bound on the application, not on the library. `RoomToRetry` says
the same of the registration that a retry may need; it is never false in `ClientCalls`.
Calls are used again when they have ended, so a run makes any number of them. Three contents
are those of the backup, of what is stored now, and of a ".bak" that a killed
restoration has left.

A client whose calls are left waiting has nothing to do any more, so `ClientCalls`
does not check deadlock.

Bounds of the session runs: `MaxCancel` cancels, `MaxFault` faults, `MaxRefresh` refresh answers,
`MaxOut` unread responses above which the plugin makes no progress reports (it
still ends, asks and answers cancels). One of each is enough to place it at any
point of a request's life and of the next one's. Every bound is a guard on an
action of the environment, never on one of the daemon.

The conditions in some properties, and what the instances leave out, are there
because the code does not have the property without them:

  - `NoLostStart` and `DestroyNeverRefuses` are stated until the plugin has been left
    at work under no active request and asks for a dialog (`stray`): the dialog is
    opened for a request that has not been started. An incomplete blob brings that
    about, for its error is reported and the plugin goes on; so does a dialog that
    is answered after its request has ended, for the answer is sent to the plugin
    all the same, and starts its process again if it has ended.
  - `OwnAnswer` and `OwnCredentials` are stated up to a fault: the answer to a
    dialog of a process that has crashed is sent to the process restarted for
    the next request. They also fail with cancels (the reply to a CANCEL that came too
    late, after the plugin's result, fails the next request) and with a plugin that ends under its own dialog, whose watcher, finished,
    serves the next request; `SessionLive` has neither.
  - `EveryRequestAnswered` fails with a cancel: one that is read ahead, behind a
    request whose plugin then asks for a dialog, is executed too late to matter,
    and nothing answers the dialog.
  - `ImplementsService` fails with cancels and faults together: a canceled request's
    result and the end of its process may both be handled before the next start
    resets `m_canceled`; the second takes the next request off the queue,
    unanswered. With either alone it holds, and is proved.
  - `MountedReally`, `KeychainHasSlots` and `AuthorizedHaveSlots` exclude the
    fault "mount": nobody looks at the result of `mount()`.
  - `SecretsAvailable` excludes a database that does not open.
  - `AuthorizedHaveSlots` and `AuthorizedKeepSlots` are checked without removed
    keys: a key that the storage is mounted with may be removed, and when it is
    inserted again `encryptionKeyInUse()` has it authorized without a slot. The
    latter is checked with the default authorizer: one that asks may answer
    "Exclusive" and so has the storage formatted under its keys on purpose.
  - `NoOldPassword` leaves out identities whose storePassword has changed (the old
    password stays in the database when it turns FALSE, and is not looked at until
    it turns TRUE again), and secrets that were only in the cache of a daemon that
    stopped, or that `storeToDB()` failed to write: nobody looks at its results.
  - `ReadBack` is weaker for an identity whose last update met a failed statement that
    `updateIdentity()` does not look at. It is reported as stored, and reads as some
    of what was there and some of what was sent: a row or list that is missing, an
    old one that is still there. It names nothing else, its row of CREDENTIALS is the
    new one, and the others read as before; storing it again makes it whole.
  - `UpdateFailsWhole` is about updates of identities that are there. That of one that
    is not inserts its owners and reports a failure (`UpdateOfMissing`).
  - `RemovalComplete` is about a removal that is reported as done, when it is done. What
    the cache still has of the identity may be written back at the next opening, and a
    removal that fails after the secrets has removed those.
  - `CacheCoherent` leaves out copies that a failed `store()` or a `remove()` has
    left other than the row (`dirty`), and those with a secret that is not found any
    more, as nobody tells the objects that the secure storage is opened or closed: one
    that was only in the cache goes with it when the database opens, and one that
    waited there to be written is not looked for there when the database, with an
    older one, closes.
  - `WaitingKept` leaves out a call of whose object another call has ended since:
    that gives the object back to the timer while the first still waits.
  - `MapSound` leaves out the entry of an object stored as new twice, by a client
    that has not had the id of the first time yet: the destructor removes the last.
  - `IdleDaemonEnds` leaves out the end of an object that `getIdentity()` destroys:
    `destroyUnused()` alone starts the daemon's timer, and that object stays on the
    list until its deletion, after which nothing may be left to start it.
  - `EndsOnce` leaves out calls made, or waiting, when a proxy finds its connection
    lost before it is signalled: they fail, or are reported, in other ways. For a session
    it also leaves out the end of a request that the daemon refuses while the session
    is being registered again (`Mistaken`): `errorSlot()` takes the error for the
    registration's, fails what waits, and returns before it reports the request. That
    takes three calls and as many losses, more than `ClientCalls` has; the proof found
    it, and TLC has the trace.
  - `InfoCurrent` is about an identity that hears the daemon's signals: one that
    has lost its connection stays Ready, and so does one that a change has passed by
    (`unheard`) until it is registered again. It is about the moments when nothing of
    the daemon's is left to read.
  - `CallsEnd` admits a call left waiting in the queue with no registration, and no
    activation of the daemon, under way. There are two ways to that: an activation
    that fails leaves `m_serviceStatus` activating, and a connection that is lost
    during a registration leaves nobody to ask for the path.
  - `RestoreFailsWhole` is weaker for a file in `refused`. One that could not be
    renamed back is missing, and kept as ".bak". One whose copy could not be removed
    is the backup's: the rename back onto it fails too, and the old file is kept as
    ".bak"; if there was none, the backup's file is simply left. Nothing recovers
    such a file, nor that of a killed restoration.

`SessionUiAssert` is the run that shows a place where an assertion says more than
the code does: `UiAnswerHasRequest` is the `Q_ASSERT_X` of `queryUiSlot()`, "queue of
requests is empty". A dialog's answer has been posted, the plugin ends the only
request, and the slot runs; its watcher is kept when it is finished already.
"findings" in `PROJECT.json` quotes it. Other things that the code is known to do, found
while modelling, are in the notes of "hazards" there, each at its line.

## Fairness

`SessionLive` uses `FairSpec` of `SessionCore`:

  - weak fairness of `Event`, `Output`, `End`: Qt delivers posted events, reads
    what can be read and reports processes that have ended;
  - weak fairness of the plugin process's main thread, which is another Qt loop;
  - weak fairness of `UiAnswers`: the user answers a dialog, closes it, or the
    call to signon-ui times out (`callWithArgumentListAndBigTimeout`);
  - strong fairness of `PluginEndsWork`: a plugin that is given work again and
    again ends it at some time instead of asking for one more dialog for ever.
    Strong, because asking disables ending, and the code has no bound of its own
    on the dialogs of a request.

Nothing is assumed of clients, cancels, timers, crashes or the cancel thread.

`StorageEvents` uses `FairSpec` of `SecureStorage`: weak fairness of `CustomEvent`
(Qt delivers posted events), of the authorizer's answer to each key it has been
asked about, with whatever result, and of the daemon's start (D-Bus activation
starts it on the next call). Nothing is assumed of key managers, backups, kills or
faults.

`IdentityService` assumes weak fairness of signon-ui's answer to each call (its call
times out after `SIGNOND_MAX_TIMEOUT`), of the access control manager's to each
request, of the inactivity of each object, of deletions (posted by `deleteLater()`)
and of the timers. Clients need not call, which is what `IdleDaemonEnds` is about. There
are timers where the daemon's timeout is not 0 (`signondaemon.cpp:497`): it is 5
seconds in the `signond.conf` that is installed, and with 0 the daemon never ends of
itself. Session cores, which are disposable objects too, are not in this model: their
part of the list is in `SessionCore`.

`ClientLibrary` assumes weak fairness of reading the inbox (`Reads`: the messages are read
in order, so what leaves the inbox is what was read, whatever else happens), of the
signal that the connection is lost, of the answer to an activation, which the
session bus gives with success or failure, and of the end of every call: the daemon
answers it or its connection is lost. Nothing is assumed of the application, of
other clients, nor that the daemon is started again.

`CredentialsStore` and `BackupRestore` state no fairness: they promise nothing in the end.

## Proofs

Every theorem is about all values of the constants that the modules' named
assumptions allow, which TLC evaluates in the runs. Where a theorem assumes more, it
does so in its own ASSUME, and the reason is given below.

`SessionCoreProofs` proves, for every set of requests and sessions and every
value of the bounds, reactions and faults that the named assumptions allow,

    Spec => []TypeOK               (TypeCorrect)
    Spec => []ServedIsActive       (ServedIsActiveHolds)
    Spec => []ActiveIsAwaited      (ActiveIsAwaitedHolds)
    Spec => []QueuedUnanswered     (QueuedUnansweredHolds)
    Spec => []AnsweredOnce         (AnsweredOnceHolds)

The assumptions are those TLC evaluates in the runs: `NoReq` is no request, the
policies and sessions are functions on requests, reactions are of the two kinds,
bounds are naturals.

Type correctness is inductive by itself; its proof has a lemma per action, and
the one that needs care is `UiAnswers`-`QueryUiSlot`: a watcher has a request
whenever it is not `NoWatcher`.

The safety properties are not inductive. That an answer is the first one is a
fact about a request's whole way: it arrives with none, none is given while it
waits, and the one that ends it also takes it off the queue. The inductive
invariant `IInv` is `TypeOK`, `ActiveIsAwaited` and `QueueInv`, whose parts are

  - `OnlyArrived`: requests neither arrived nor queued have no answer, and a
    request is queued once,
  - `ActiveHead`: an active request is there and has been served,
  - `ServedIsActive`, `CutIsActive`: what has been served, or cut short, and is
    still queued is the active head,
  - `QueuedUnanswered`, and `QueuedOnlyCanceled`: what a queued request has been
    answered is at most "canceled" (once it is cut short),
  - `AnsweredOnce`.

`ActiveIsAwaited` is in it because a result that the proxy swallows
(`isResultObtained`) must not leave the active head behind, and an end of the
process that is not an error must find no active request. The proof takes the
actions one by one; those that only touch the plugin process or the flags of
disposal change nothing the invariant reads, and the ones that end a request
share the lemmas about `RequestDone`. `IInv` was checked with TLC on the
instances of `SessionCancel` and `SessionFaults` before it was proved.

The second part of `SessionCoreProofs` goes on from it to what becomes of an idle session:

    Spec => []NoLostStart              (NoLostStartHolds)
    Spec => []DestroyNeverRefuses      (DestroyNeverRefusesHolds)

A start is posted by the end of the request before, so none may end without it; and
what could end one besides the active request's own result is a leftover of an
earlier one. `StartInv` says where no leftover is: `QuietPart`, with no active request
and no swallowed result before it, the pipes are empty and the plugin idle;
`DialogPart`, an open dialog is the active request's, and an answered one has its
`queryUiSlot()` posted; `UnusedPart`, only a session without requests is to be
destroyed. All of it is up to `stray` (see Runs). Both properties were once stated
with narrower exceptions; three requests on one session refuted those.

`SessionServiceProofs` proves the refinement, and what each caller gets:

    no faults, or no cancels:
    Spec => ImplementsService          (ImplementsServiceHolds)
    no cancels, plugins leave their dialogs open:
    Spec => []OwnAnswer                (OwnAnswerHolds)
    Spec => OwnCredentials             (OwnCredentialsHolds)

Each step of `SessionCore` is matched with a step of `RequestService` or with none,
action by action. `RInv` adds to `IInv` what the matching needs of a cancel:
`CutAnswered`, who is cut short has its reply; `CanceledIsCut`, `m_canceled` is about
the active request, if there is one; and `CancelOver`, that after a canceled
request nothing comes through that would end another before `startProcess()` resets
the flag. `CancelOver` is what faults break, and the hypothesis is exactly that: with
both, TLC has a trace to two requests ended with one answer.

The words between daemon and plugin carry no request, so a result is given to
whoever is active. `OwnAnswer` holds because, as long as nothing fails, the work for the
active request is in one place: on its way to the plugin (`Sent`), with it
(`Working`), asked about (`Asked`), in a dialog (`InDialog`) or said (`Done`); `OnePlace`
says so, with everything at rest when none is active. A fault or a cancel leaves work
in two places, and `OwnAnswer` is stated for the time before the first fault. The
hypothesis `EndsDialogs = FALSE` is the same: a plugin that goes on without its dialog's
answer leaves the dialog behind. They are the constants of the run `SessionLive`.

`SecureStorageProofs` proves, for any keys, key slots, key managers, senders and
failing steps (`KeyAssumption`, `SlotAssumption`, `FaultAssumption`,
`StorageAssumption`),

    Spec => []StorageTypeOK            (StorageTypeCorrect)
    Spec => []SecretsOnMounted         (SecretsOnMountedHolds)
    Spec => []MountedReally            (MountedReallyHolds)
    Spec => []KeychainHasSlots         (KeychainHasSlotsHolds)
    ~Removes, "mount" not a fault:
    Spec => []AuthorizedHaveSlots      (AuthorizedHaveSlotsHolds)
    Spec => []SecretsAvailable         (SecretsAvailableHolds)
    default authorizer, ~Removes:
    Spec => AuthorizedKeepSlots        (AuthorizedKeepSlotsHolds)

The invariant `Good` is a predicate on the state record, and the proof goes along
the call graph: a lemma for each operator of `CryptoManager` and `KeyHandler`
says that it keeps `Good`, from `Umount` up to `DisableKey` and `OpenSystem`; an
action then only applies some of them to `Now`. `Good` is stronger than the
properties in two places. `DatabasePart` needs `opened => db`, for a closed system
has no database object to close. And `HeldPart`, authorized keys have slots, is
kept by `encryptionKeyInUse()` only together with "the key the storage has been
mounted with has a slot", which that call takes for granted, and with
`KeychainPart`; it is the second conjunct that the removal of a key breaks, which
is how a key inserted again comes to be authorized without a slot. So
`AuthorizedHaveSlots` and `AuthorizedKeepSlots` assume that no key is removed.

The last two theorems have an invariant of their own, `Fit`: where the system is open and
the storage mounted, so is the secrets database (`AvailablePart`), also in a daemon that
has ended; and only a volume that is there has authorized keys (`SetupPart`), so that
the default authorizer creates none over them. A lemma for each operator says again
what it keeps, and that the slots of the keys authorized before are as they were.

`CredentialsDBProofs` has no theorem of a specification: it states, for each operator
of `MetaDataDB` and `CredentialsDB`, what it returns and leaves alone, for all tables
and faults. Tables are `Coherent` when ids in use are below the next number,
references belong to identities that are there, and the rows of access lists and
owners name methods and tokens that have rows themselves. The lemmas on
`UpdateCredentials` and `RemoveCredentials` are made of those on their statements.

`CredentialsStoreProofs` proves, with them,

    Spec => []TypeOK                   (TypeOKHolds)
    Spec => []UpdateFailsWhole         (UpdateFailsWholeHolds)
    Spec => []RemovalComplete          (RemovalCompleteHolds)
    Spec => []NotRememberedNotStored   (NotRememberedNotStoredHolds)
    Spec => []AcceptedDataStored       (AcceptedDataStoredHolds)
    Spec => []ReadBack                 (ReadBackHolds)
    "version" not a fault:
    Spec => []NoOldPassword            (NoOldPasswordHolds)

`Typed` is the type and that the tables are `Coherent`, for which `OldTablesAssumption`
asks that the tables of version 1 found at the first start are. It suffices for
`UpdateFailsWhole` and `RemovalComplete`. Each of the other four adds where a secret may
be: `KeptGiven`, what the cache is to write back was to be remembered; `DataKept`,
plugins' data is in the open database, or in the cache over what the closed one
has; `PassesSafe`, a password that was replaced is in neither place, or in a closed
database under one that will be written over it. The last needs `NumberedFresh`, that
a number no identity has had yet has no secrets. It fails with the fault "version":
a daemon that is killed before it has written `user_version` makes its tables anew
at the next start, and gives their ids, and the secrets under them, to new
identities; TLC has the trace. `InfosAssumption` (an identity has a password if and
only if `hasPass` says so) is there because an entry with neither user nor password
is not written back. `ReadsLast`, for `ReadBack`, says that the rows, converted from
version 1 if they will be, are what was last stored, or within it for an identity in
whose update a statement failed unseen. It assumes nothing of the faults: for those
that are looked at `IdentityWritten` says that an update writes all of the info or
nothing, and for the others `IdentityWithin` that what is read of it then was there before,
or is in the info (`NamesAdded`, `AclInsertedWhole` and the lemmas after it).

`IdentityServiceProofs` proves, for any objects, calls, kinds of calls and faults,

    Spec => []TypeOK                   (IdentitiesTyped)
    Spec => []WaitingKept              (WaitingKeptHolds)
    Spec => []MapSound                 (MapSoundHolds)
    Spec => []ObjectsListed            (ObjectsListedHolds)
    Spec => []CacheCoherent            (CacheCoherentHolds)

the first four with one invariant of the databases, the objects and the waiting calls
together:

  - `Sound`: the tables are typed and coherent, and as many methods have a number as
    numbers were given, so that they do not run out,
  - `Lists`: what lives is in the list of disposable objects, and what is in it exists,
  - `Connected`: the daemon hears of the deletion of every object a client can reach,
  - `Table`: the map names objects by their ids and has each one it will hear of
    (`Named`, `Found`), but for those stored as new twice (`Twice`); and their ids are
    below the next number (`Before`), which is why the id of a row just inserted, under
    which an object is then registered, is nobody's,
  - `Keeps`: the object of a call that no other call of it has overtaken lives, and
    its `autoDestruct` is off.

`Table` is what joins the two halves: `storeCredentials()` emits the new id before the
object has it. The lemmas follow the operators: what an operator does to one object
(`OnlyOf`), to lives alone (`SameLives`), and to those that a sweep destroys (`Swept`).
All parts were checked with TLC on both instances of `IdentityService` first.

`CacheCoherent` is about all the writers of a row and all its copies, and its invariant
`CopiesInv` adds to that one and to the property itself (`Coherence`):

  - `NamesHidden`: a user name that is secret is not in the row, so that a row and
    the info that it was written from say the same,
  - `Quiet`: a daemon that has ended has no objects, and no calls wait for it.

There are two halves to the argument. One says of each operation on the databases for
which identity what is read stays what it was (`Stays`): all but the one it is about,
and a failed one leaves that too (`UpdateLeaves`, `RemovalLeaves`, `OpeningLeaves`,
`ClosingLeaves`; the lemmas on what an operation does not touch are in
`CredentialsDBProofs`). The other says of each operator on the objects which copies go:
`onCredentialsUpdated()` leaves no copy of an identity that has been written
(`NoCopyOf`), except in the object that has just failed to write it, which is then
dirty. `CopiesDropped` and `IdentityOnly` put the halves together for an action. The
row alone does not say what a copy should be: a secret user name is with the password,
and where that is found depends on whether it is to be kept and whether the database is
open (`SecretOf`). So the instance stores an identity in both ways.

`BackupRestoreProofs` proves, for any number of contents and any failing operations
(`BackupAssumption`),

    Spec => []TypeOK                   (BackupTypeCorrect)
    Spec => []BackupComplete           (BackupCompleteHolds)
    Spec => []OldFilesKept             (OldFilesKeptHolds)
    Spec => []RestoreFailsWhole        (RestoreFailsWholeHolds)

None is inductive. `BackupPart` says what the copying loop has done so far: the
listed files exist since they were made, and those it is past are in the backup.
`RestorePart` says of each file in which of five ways it is: as it was found; moved
away; moved away and copied; copied where nothing was; or, in the end, refused: it is
missing or the backup's, and its ".bak" is there if it had a content. `TodoPart` is why a file is not moved twice: the loop comes to each once.
`LoopPart` has the sets and the list empty outside their loops. `IInv` was checked
with TLC on the instance of `BackupFiles` first.

`ClientLibraryProofs` proves, for every kind of object, any numbers of calls and
registrations at one time, versions of the identity, losses and faults,

    Spec => []TypeOK                   (TypeOKHolds)
    Spec => EndsOnce                   (EndsOnceHolds)
    Spec => []InfoCurrent              (InfoCurrentHolds)

The operators of the client are long compositions (an enqueued call may have the daemon
activated, the connection set on every proxy, other calls sent and a registration begun),
so the lemmas say of each what it makes of calls and object as a relation of the client
before and after: `Carries` (a connection comes), `Loses` (it goes), `Makes` and
`Requeues` (a call is made, or tried again), `Asked` (a registration goes on or begins),
`MainSet` and `Settles` (the path comes or goes, and calls fail), `Finishes` (a call is
over). An action is a few of them one after the other. The invariant `Inv` has, besides
the types,

  - `Mid`, what holds also within a step: a free call is as new, one that fails
    has not been noticed, a registration has a proxy and its proxy is never found dead,
    and without a path every call that has been sent is cut,
  - `Calls`: between two steps none is left failed, and none that is under way has been told,
  - `Replies`, `Once`: a reply is to a call that waits for it, and there is one,
  - `RoomLeft`: there are free calls for what the signals that have been sent, and
    those of the stores that have not been served, will ask for. `infoUpdated()` makes a
    call with the least free number; this is why there is one, and so why the client
    keeps its type.

`EndsOnce` follows from the steps of `Inv` (`Reports`) for identities and sessions.
For the service it needs `ServiceInv`: the queue of methods holds exactly the calls that
ask for mechanisms, each once, and their replies come in its order (`InOrder`), since a
reply is reported for the method at the head of the queue. `Lives` and `Linked`
say why the order holds, though a lost connection breaks it: when the
service is cut off, nothing it still waits for is answered before it is told.

`InfoCurrent` needs `IdentityInv`, about the messages that are still to be read, by
their `Kind`. `Follows`: the last that tells of the identity, if it bears the information,
bears what is stored; and if none is left, the client has it. `Forgets`: what is not known
to be stored is not, neither by the client nor by the client that will have read a
removal. That joins what `registerReply()` takes for granted, that an identity without an
id has no information worth reading, with what the daemon does. Its parts and those of
the others were checked with TLC on the instance of `ClientCalls` first.

The proofs take half an hour or so, the most of it for `ClientLibraryProofs`. A leaf
that takes a prover some seconds names that prover and allows it more time
(`ZenonT(30)`, `SMTT(20)`).

Only model-checked is liveness under fairness, out of the prover's reach:
`EveryRequestAnswered`, `SendersAnswered`, `IdleDaemonEnds`, `CallsEnd`.

## Abstractions

  - Requests are model values; session data is only "whose it is". Passwords and
    user names of a request are one thing, as they are cached and stored together.
  - `m_queryCredsUiDisplayed`, which decides whether the credentials manager is
    told of a missing secure storage, `stateChanged` emissions, and the wording of
    errors are left out.
  - In the session modules the credentials row is absent, stored, or a "ghost" inserted by an update of
    the absent one. Only `remove` of the identity's calls is made.
  - `setId` goes between the stored identity and none; the maps of cores that
    `sessionCore()` keeps are not there, nor the collision it refuses.
  - The credentials system becomes ready once and stays so.
  - `queryUiSlot()` with an empty queue ends the daemon (`Q_ASSERT_X`); a release
    build would go on with undefined behaviour.
  - The branch of `onReadStandardOutput()` for no bytes is not modelled: it is
    only called when there are some.
  - A mount, format or unmount is one step: the daemon is not killed inside one,
    but any of its steps may fail and leave it halfway. Loop devices are not
    modelled; losing one is the fault "loop".
  - `umount2()` fails on an open secrets database, and `MountHandler::umount()`
    reports success whatever happened, as in the code.
  - The exit codes of `losetup` and `mkfs`, which the code does not look at, are
    taken to be zero.
  - A key manager does not insert a key that is inserted already, and the empty
    key is inserted only to say "none".
  - Only objects that find the system open and the secrets closed post a storage
    event; which results make a session core do so is not modelled.
  - Names, realms, mechanisms and tokens of the databases are model values; a
    token stands for its row of TOKENS. An unchecked statement that fails does so for
    all the rows of its kind in one update. A commit of the secrets that fails in
    `SecretsDB::updateCredentials()`, the one that is not rolled back
    (`default-secrets-storage.cpp:114`), is left out. Captions, the type of an identity, its
    reference count and the validation flag are not there. A query of the metadata
    fails only in the identity objects (fault "query").
  - Data that a plugin stores is a dictionary as a whole, which fits or does not.
  - A client that stores sends all of an identity but the password, which it may
    leave out: `SignonIdentityInfo::update()` keeps the old values of keys that are
    not sent. signon-ui sends the retries of `verifyUser()` back as it was given
    them: `verifyUiSlot()` counts down the number that it finds in the reply.
  - Times are orders: an object is idle or not, and the disposal timer runs out
    after the inactivity of all objects, as its interval is the longer one.
  - Whether a client of the daemon may call is decided when its call is read; its
    rights do not change.
  - The client's information is its version. The replies of a daemon that is lost
    are read before the errors of the others, as D-Bus delivers what it has read.
  - The client uses the daemon's own socket; the session bus that takes its place
    where there is none is not modelled.
  - Modes of files and the directories of a backup are not modelled; a copy that fails
    leaves nothing.

## Not modelled, and the plan

In this order, each with what it would take:

 1. `SessionRegistry`: `getAuthSession()`, the two maps of session cores,
    `setId()` between two stored identities with its collision and the key it leaves
    behind (a hazard no property covers), the checks of mechanisms and types, and who
    may start a session (the checks of `AccessControl`).
 2. An abstract store (identity to secret) that `CredentialsStore` implements but for
    the cases named above, and an abstract storage (closed, or open to a set of keys)
    for `SecureStorage`.
 3. `PluginChannel`: operations and data as byte counts, reads that return less
    than a message, the cancel thread's four bytes. The notifier with which
    `pluginproxy.cpp` reads the further pages of a response watches the daemon's
    own standard input, so that they are read when that is readable.
 4. Restoration seen from the live objects: `restoreFinished()` reopens the system
    under identities and sessions that hold copies of what was there before.
 5. Of the secure storage: `finalize()` and the destructors,
    `deleteCredentialsSystem()`, the dummy `DefaultCryptoManager`.
 6. Of the client: the session bus in place of the socket, sign-out with an
    identity's sessions, `methodsAvailable()` beside `info()`.

Not planned: the network proxy factory, loading of extensions and plugins, the
configuration, logging, the marshalling of the D-Bus adaptors, SQL text, the type and
mechanism filters of queries, the LUKS tools behind `crypto-handlers.cpp` (external
programs and libraries), what a plugin computes.
