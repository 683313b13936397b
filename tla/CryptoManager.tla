--------------------------- MODULE CryptoManager ---------------------------
(* The encrypted storage: CryptoManager of the cryptsetup extension, with    *)
(* the LUKS volume, the device mapper and the mounts it drives, and the two  *)
(* slots of the CredentialsAccessManager that its signals call at once.      *)
(*                                                                           *)
(* Everything here runs inside a handler of the daemon's event loop: an      *)
(* operator takes the state s before a call, with the step f of it that      *)
(* fails ("none", or a member of FaultKinds), and gives the state after it.  *)
(* A call that returns a bool gives a record [st, ok].                       *)
EXTENDS Integers

CONSTANTS Key,       \* encryption keys that the key managers provide
          NoKey,     \* the empty key
          FreeSlot,  \* in the place of a key: the slot is free
          Slot,      \* key slots of a LUKS header
          FaultKinds \* steps that may fail

ASSUME KeyAssumption == NoKey \notin Key /\ FreeSlot \notin Key \cup {NoKey}
ASSUME SlotAssumption == Slot # {}
ASSUME FaultAssumption ==
    FaultKinds \subseteq {"device", "loop", "format", "open", "mount", "umount",
                          "close", "slot", "database", "metadata", "tree"}

Faults == {"none"} \cup FaultKinds
AnyKey == Key \cup {NoKey}

\* The device mapper's mapping of the volume, and the mount over it.
Kernel == {"closed", "opened", "mounted"}

State == [setup : BOOLEAN,            \* m_fileSystemIsSetup: the volume's file exists
          slots : [Slot -> AnyKey \cup {FreeSlot}],  \* its LUKS header
          keychain : SUBSET AnyKey,   \* the keychain file on the volume
          plain : SUBSET AnyKey,      \* the one on the bare mount point
          kernel : Kernel,
          mounted : BOOLEAN,          \* m_mountState = Mounted
          encryptionKey : AnyKey,     \* m_encryptionKey
          inserted : SUBSET AnyKey,   \* m_insertedKeys
          authorized : SUBSET AnyKey, \* m_authorizedKeys
          alive : BOOLEAN,            \* the daemon runs
          opened : BOOLEAN,           \* m_systemOpened
          db : BOOLEAN,               \* m_pCredentialsDB # NULL
          secrets : BOOLEAN]          \* isSecretsDBOpen()

Opens(s, key) == \E i \in Slot : s.slots[i] = key
EmptyHeader == [i \in Slot |-> FreeSlot]

Done(s) == [st |-> s, ok |-> TRUE]
Failed(s) == [st |-> s, ok |-> FALSE]

-----------------------------------------------------------------------------
\* The slots of the CredentialsAccessManager.

\* openSecretsDB().
OpenSecretsDB(s, f) ==
    [s EXCEPT !.secrets = s.mounted /\ f # "database"]

\* onEncryptedFSMounted().
OnMounted(s, f) ==
    IF s.opened /\ ~s.secrets THEN OpenSecretsDB(s, f) ELSE s

\* onEncryptedFSUnmounting().
OnUnmounting(s) ==
    IF s.opened THEN [s EXCEPT !.secrets = FALSE] ELSE s

-----------------------------------------------------------------------------
\* umount2() of a file system in use fails, and its failure is not looked at;
\* the mapping of a mounted device cannot be removed.
Umount(s, f) ==
    IF s.kernel = "mounted" /\ ~s.secrets /\ f # "umount"
    THEN [s EXCEPT !.kernel = "opened"]
    ELSE s

LuksClose(s, f) ==
    IF s.kernel = "opened" /\ f # "close"
    THEN [s EXCEPT !.kernel = "closed"]
    ELSE s

\* setEncryptionKey() is refused while the file system is mounted.
SetEncryptionKey(s, key) ==
    IF s.mounted THEN s ELSE [s EXCEPT !.encryptionKey = key]

\* clearFileSystemResources(): what an earlier process has left mounted.
ClearResources(s, f) == LuksClose(Umount(s, f), f)

Keychain(s) == IF s.kernel = "mounted" THEN s.keychain ELSE s.plain

\* addKeyToKeychain(), in the directory where the volume should be mounted.
AddKeyToKeychain(s, key) ==
    IF s.kernel = "mounted"
    THEN [s EXCEPT !.keychain = @ \cup {key}]
    ELSE [s EXCEPT !.plain = @ \cup {key}]

RemoveKeyFromKeychain(s, key) ==
    IF s.kernel = "mounted"
    THEN [s EXCEPT !.keychain = @ \ {key}]
    ELSE [s EXCEPT !.plain = @ \ {key}]

\* What mountFileSystem() and setupFileSystem() do after the volume is opened:
\* the result of mount() is not looked at.
MountOpened(s, f) ==
    LET mapped == [s EXCEPT !.kernel = IF f = "mount" THEN "opened" ELSE "mounted"]
        noted == AddKeyToKeychain(mapped, s.encryptionKey)
    IN  OnMounted([noted EXCEPT !.mounted = TRUE], f)

\* mountFileSystem().  Every failure after the volume has been opened closes it.
MountFileSystem(s, f) ==
    LET cleared == ClearResources(s, f)
    IN  IF s.mounted \/ s.encryptionKey = NoKey
        THEN Failed(s)
        ELSE IF \/ f \in {"device", "loop", "open"}
                \/ cleared.kernel # "closed"
                \/ ~Opens(s, s.encryptionKey)
             THEN Failed(cleared)
             ELSE Done(MountOpened(cleared, f))

\* A LUKS header with one slot in use, for a volume with nothing on it.
LuksFormat(s, key) ==
    [s EXCEPT !.slots = [EmptyHeader EXCEPT ![CHOOSE i \in Slot : TRUE] = key],
              !.keychain = {}]

\* setupFileSystem().  The file is created or kept as it is, until luksFormat.
SetupFileSystem(s, f) ==
    LET cleared == ClearResources(s, f)
        created == [cleared EXCEPT !.setup = TRUE]
        wiped == [created EXCEPT !.slots = EmptyHeader, !.keychain = {}]
        formatted == LuksFormat(created, s.encryptionKey)
        opens == f # "open" /\ cleared.kernel = "closed"
    IN  IF s.mounted \/ s.encryptionKey = NoKey
        THEN Failed(s)
        ELSE CASE f = "device" -> Failed(cleared)
               [] f = "loop" -> Failed(created)
               [] f = "format" -> Failed(wiped)
               [] OTHER -> IF opens THEN Done(MountOpened(formatted, f))
                                    ELSE Failed(formatted)

\* Mutant: the mount state is not updated.
UnmountKeepingState(s, f) ==
    LET closed == LuksClose(Umount(OnUnmounting(s), f), f)
    IN  IF s.mounted THEN Done(closed) ELSE Done(s)

\* unmountFileSystem(): the state is "unmounted" whether or not the steps succeed.
UnmountFileSystem(s, f) ==
    LET flagged == [OnUnmounting(s) EXCEPT !.mounted = FALSE]
        closed == LuksClose(Umount(flagged, f), f)
    IN  IF s.mounted
        THEN [st |-> closed, ok |-> closed.kernel = "closed"]
        ELSE Done(s)

\* Mutant: a key is added past the last slot of a full header.
AddKeyUnlimited(s, key, existing, f) ==
    IF s.mounted /\ f # "slot" /\ Opens(s, existing)
    THEN Done([s EXCEPT !.slots = [i \in Slot \cup {0} |->
                                      IF i \in Slot THEN s.slots[i] ELSE key]])
    ELSE Failed(s)

\* addEncryptionKey(): a slot of its own for a key, even for one that has one.
AddEncryptionKey(s, key, existing, f) ==
    LET free == {i \in Slot : s.slots[i] = FreeSlot}
    IN  IF s.mounted /\ f # "slot" /\ Opens(s, existing) /\ free # {}
        THEN Done(AddKeyToKeychain(
                 [s EXCEPT !.slots[CHOOSE i \in free : TRUE] = key], key))
        ELSE Failed(s)

\* Mutant: the key stays in the keychain.
RemoveKeepingInKeychain(s, key, f) ==
    LET held == {i \in Slot : s.slots[i] = key}
    IN  IF s.mounted /\ f # "slot" /\ held # {}
        THEN Done([s EXCEPT !.slots[CHOOSE i \in held : TRUE] = FreeSlot])
        ELSE Done(s)

\* removeEncryptionKey(): one slot of the key, and no look at what remains; when
\* the slot cannot be removed the result is TRUE all the same.
RemoveEncryptionKey(s, key, f) ==
    LET held == {i \in Slot : s.slots[i] = key}
    IN  IF ~s.mounted
        THEN Failed(s)
        ELSE IF f # "slot" /\ held # {}
             THEN Done(RemoveKeyFromKeychain(
                      [s EXCEPT !.slots[CHOOSE i \in held : TRUE] = FreeSlot], key))
             ELSE Done(s)

\* encryptionKeyInUse(): mounts with the key when nothing is mounted.
EncryptionKeyInUse(s, key, f) ==
    IF s.mounted
    THEN [st |-> s, ok |-> key = s.encryptionKey \/ key \in Keychain(s)]
    ELSE MountFileSystem(SetEncryptionKey(s, key), f)
=============================================================================
