------------------------ MODULE SecureStorageProofs ------------------------
(* Proofs about SecureStorage: what holds of every set of keys, every number *)
(* of key slots, senders and key managers, and every choice of failing steps.*)
(* Each operator of CryptoManager and KeyHandler keeps the invariant of the  *)
(* state it is given; each action applies some of them to Now.               *)
EXTENDS SecureStorage, TLAPS

-----------------------------------------------------------------------------
(* The inductive invariant *)

\* The secrets database hangs on the mount and on the open system, which has its
\* database object.
DatabasePart(s) ==
    /\ s.secrets => s.mounted /\ s.opened
    /\ s.opened => s.db

\* With a mount() that does what it says, the mount state is the kernel's.
KernelPart(s) ==
    "mount" \notin FaultKinds => (s.mounted => s.kernel = "mounted")

\* The keychain file is the volume's own, and lists keys of its header.
KeychainPart(s) ==
    "mount" \notin FaultKinds => \A key \in s.keychain : Opens(s, key)

\* As long as no key is removed, an authorized key keeps its slot; and so does
\* the key the storage has been mounted with, which encryptionKeyInUse() takes
\* for one in use.
HeldPart(s) ==
    "mount" \notin FaultKinds /\ ~Removes =>
        /\ \A key \in s.authorized : Opens(s, key)
        /\ s.mounted => Opens(s, s.encryptionKey)

Good(s) ==
    /\ s \in State
    /\ DatabasePart(s)
    /\ KernelPart(s)
    /\ KeychainPart(s)
    /\ HeldPart(s)

-----------------------------------------------------------------------------
(* The operators of CryptoManager *)

\* Unmounting what the daemon takes for unmounted.
LEMMA GoodUmount ==
    ASSUME NEW s, Good(s), ~s.mounted, NEW f
    PROVE  /\ Good(Umount(s, f))
           /\ ~Umount(s, f).mounted
           /\ Umount(s, f).slots = s.slots
           /\ Umount(s, f).encryptionKey = s.encryptionKey
           /\ Umount(s, f).authorized = s.authorized
BY DEF Good, State, Umount, Kernel, DatabasePart, KernelPart, KeychainPart,
       HeldPart, Opens

\* Closing the mapping of such a volume.
LEMMA GoodLuksClose ==
    ASSUME NEW s, Good(s), ~s.mounted, NEW f
    PROVE  /\ Good(LuksClose(s, f))
           /\ ~LuksClose(s, f).mounted
           /\ LuksClose(s, f).slots = s.slots
           /\ LuksClose(s, f).encryptionKey = s.encryptionKey
           /\ LuksClose(s, f).authorized = s.authorized
BY DEF Good, State, LuksClose, Kernel, DatabasePart, KernelPart, KeychainPart,
       HeldPart, Opens

\* What mounts and formats do first.
LEMMA GoodClearResources ==
    ASSUME NEW s, Good(s), ~s.mounted, NEW f
    PROVE  /\ Good(ClearResources(s, f))
           /\ ~ClearResources(s, f).mounted
           /\ ClearResources(s, f).slots = s.slots
           /\ ClearResources(s, f).encryptionKey = s.encryptionKey
           /\ ClearResources(s, f).authorized = s.authorized
BY GoodUmount, GoodLuksClose DEF ClearResources

\* A key that is set opens nothing yet: nothing is mounted with it.
LEMMA GoodSetEncryptionKey ==
    ASSUME NEW s, Good(s), NEW key \in AnyKey
    PROVE  /\ Good(SetEncryptionKey(s, key))
           /\ SetEncryptionKey(s, key).mounted = s.mounted
           /\ SetEncryptionKey(s, key).slots = s.slots
           /\ SetEncryptionKey(s, key).authorized = s.authorized
BY DEF Good, State, SetEncryptionKey, DatabasePart, KernelPart, KeychainPart,
       HeldPart, Opens

\* The end of a mount, with the signal that opens the secrets database.
LEMMA GoodMountOpened ==
    ASSUME NEW s, Good(s), ~s.mounted, Opens(s, s.encryptionKey), NEW f \in Faults
    PROVE  /\ Good(MountOpened(s, f))
           /\ MountOpened(s, f).mounted
           /\ MountOpened(s, f).slots = s.slots
           /\ MountOpened(s, f).authorized = s.authorized
<1> DEFINE mapped == [s EXCEPT !.kernel = IF f = "mount" THEN "opened" ELSE "mounted"]
           noted == AddKeyToKeychain(mapped, s.encryptionKey)
           now == [noted EXCEPT !.mounted = TRUE]
<1>1. /\ mapped \in State
      /\ mapped.opened = s.opened /\ mapped.db = s.db
      /\ ~mapped.secrets
      /\ mapped.mounted = FALSE
      /\ mapped.slots = s.slots
      /\ mapped.keychain = s.keychain
      /\ mapped.encryptionKey = s.encryptionKey
      /\ mapped.authorized = s.authorized
      /\ mapped.kernel = IF f = "mount" THEN "opened" ELSE "mounted"
  BY DEF Good, State, Kernel, DatabasePart
<1>2. /\ noted \in State
      /\ noted.opened = s.opened /\ noted.db = s.db
      /\ ~noted.secrets
      /\ noted.mounted = FALSE
      /\ noted.slots = s.slots
      /\ noted.keychain \subseteq s.keychain \cup {s.encryptionKey}
      /\ noted.encryptionKey = s.encryptionKey
      /\ noted.authorized = s.authorized
      /\ noted.kernel = mapped.kernel
  <2> HIDE DEF mapped
  <2>1. s.encryptionKey \in AnyKey /\ s.keychain = mapped.keychain
    BY <1>1 DEF Good, State
  <2>2. QED BY <1>1, <2>1 DEF State, AddKeyToKeychain
<1> HIDE DEF noted
<1>3. /\ now \in State
      /\ now.opened = s.opened /\ now.db = s.db
      /\ ~now.secrets
      /\ now.mounted = TRUE
      /\ now.slots = s.slots
      /\ now.keychain = noted.keychain
      /\ now.encryptionKey = s.encryptionKey
      /\ now.authorized = s.authorized
      /\ now.kernel = mapped.kernel
  BY <1>2 DEF State
<1>4. "mount" \notin FaultKinds => mapped.kernel = "mounted"
  BY <1>1, FaultAssumption DEF Faults
<1> HIDE DEF mapped, now
<1>5. Good(now)
  BY <1>2, <1>3, <1>4
     DEF Good, DatabasePart, KernelPart, KeychainPart, HeldPart, Opens
<1>6. /\ Good(OnMounted(now, f))
      /\ OnMounted(now, f).mounted
      /\ OnMounted(now, f).slots = s.slots
      /\ OnMounted(now, f).authorized = s.authorized
  BY <1>3, <1>5 DEF Good, State, OnMounted, OpenSecretsDB, DatabasePart,
                    KernelPart, KeychainPart, HeldPart, Opens
<1>7. QED BY <1>6 DEF MountOpened, mapped, noted, now

\* A mount takes no slot away; one that succeeds had a key that opens.
LEMMA GoodMountFileSystem ==
    ASSUME NEW s, Good(s), NEW f \in Faults
    PROVE  LET m == MountFileSystem(s, f)
           IN  /\ Good(m.st)
               /\ m.st.slots = s.slots
               /\ m.st.authorized = s.authorized
               /\ m.ok => m.st.mounted /\ Opens(m.st, s.encryptionKey)
<1> DEFINE cleared == ClearResources(s, f)
<1>1. CASE s.mounted \/ s.encryptionKey = NoKey
  BY <1>1 DEF MountFileSystem, Failed
<1>2. CASE ~s.mounted /\ s.encryptionKey # NoKey
  <2>1. /\ Good(cleared) /\ ~cleared.mounted
        /\ cleared.slots = s.slots /\ cleared.encryptionKey = s.encryptionKey
        /\ cleared.authorized = s.authorized
    BY <1>2, GoodClearResources
  <2> HIDE DEF cleared
  <2>2. Opens(s, s.encryptionKey) =>
            /\ Good(MountOpened(cleared, f))
            /\ MountOpened(cleared, f).mounted
            /\ MountOpened(cleared, f).slots = s.slots
            /\ MountOpened(cleared, f).authorized = s.authorized
    BY <2>1, GoodMountOpened DEF Opens
  <2>3. QED BY <1>2, <2>1, <2>2 DEF MountFileSystem, Failed, Done, Opens, cleared
<1>3. QED BY <1>1, <1>2

\* A format may fail anywhere: no key may be authorized before it.
LEMMA GoodSetupFileSystem ==
    ASSUME NEW s, Good(s), s.authorized = {}, NEW f \in Faults
    PROVE  /\ Good(SetupFileSystem(s, f).st)
           /\ SetupFileSystem(s, f).ok =>
                  Opens(SetupFileSystem(s, f).st, s.encryptionKey)
<1> DEFINE cleared == ClearResources(s, f)
           created == [cleared EXCEPT !.setup = TRUE]
           wiped == [created EXCEPT !.slots = EmptyHeader, !.keychain = {}]
           formatted == LuksFormat(created, s.encryptionKey)
<1>1. CASE s.mounted \/ s.encryptionKey = NoKey
  BY <1>1 DEF SetupFileSystem, Failed
<1>2. CASE ~s.mounted /\ s.encryptionKey # NoKey
  <2>1. /\ Good(cleared) /\ ~cleared.mounted /\ cleared.authorized = {}
        /\ cleared.encryptionKey = s.encryptionKey
    BY <1>2, GoodClearResources
  <2> HIDE DEF cleared
  <2>2. /\ Good(created) /\ ~created.mounted /\ created.authorized = {}
        /\ created.encryptionKey = s.encryptionKey
    BY <2>1 DEF Good, State, DatabasePart, KernelPart, KeychainPart, HeldPart, Opens
  <2> HIDE DEF created
  <2>3. Good(wiped)
    BY <2>2 DEF Good, State, EmptyHeader, DatabasePart, KernelPart, KeychainPart,
                HeldPart, Opens
  <2>4. /\ Good(formatted) /\ ~formatted.mounted
        /\ formatted.encryptionKey = s.encryptionKey
        /\ Opens(formatted, s.encryptionKey)
    <3>1. s.encryptionKey \in AnyKey
      BY DEF Good, State
    <3>2. PICK i \in Slot : i = CHOOSE j \in Slot : TRUE
      BY SlotAssumption
    <3>3. formatted = [created EXCEPT !.slots = [EmptyHeader EXCEPT ![i] = s.encryptionKey],
                                      !.keychain = {}]
      BY <3>2 DEF LuksFormat
    <3> HIDE DEF formatted
    <3>4. QED
      BY <2>2, <3>1, <3>3 DEF Good, State, EmptyHeader, DatabasePart, KernelPart,
                               KeychainPart, HeldPart, Opens
  <2> HIDE DEF formatted
  <2>5. Good(MountOpened(formatted, f))
    BY <2>4, GoodMountOpened
  <2>6. MountOpened(formatted, f).slots = formatted.slots
    BY <2>4, GoodMountOpened
  <2> HIDE DEF wiped
  <2>7. QED
    BY <1>2, <2>1, <2>2, <2>3, <2>4, <2>5, <2>6
       DEF SetupFileSystem, Failed, Done, Opens, cleared, created, wiped, formatted
<1>3. QED BY <1>1, <1>2

\* An unmount closes the secrets database and takes no slot away.
LEMMA GoodUnmountFileSystem ==
    ASSUME NEW s, Good(s), NEW f
    PROVE  /\ Good(UnmountFileSystem(s, f).st)
           /\ ~UnmountFileSystem(s, f).st.mounted
           /\ UnmountFileSystem(s, f).st.authorized = s.authorized
           /\ UnmountFileSystem(s, f).st.alive = s.alive
<1> DEFINE flagged == [OnUnmounting(s) EXCEPT !.mounted = FALSE]
<1>1. /\ Good(flagged) /\ ~flagged.mounted
      /\ flagged.authorized = s.authorized /\ flagged.alive = s.alive
  BY DEF Good, State, OnUnmounting, DatabasePart, KernelPart, KeychainPart,
         HeldPart, Opens
<1> HIDE DEF flagged
<1>2. /\ Good(Umount(flagged, f)) /\ ~Umount(flagged, f).mounted
      /\ Umount(flagged, f).authorized = s.authorized
  BY <1>1, GoodUmount
<1>3. Umount(flagged, f).alive = s.alive
  BY <1>1 DEF Good, State, Umount
<1>4. LuksClose(Umount(flagged, f), f).alive = s.alive
  BY <1>2, <1>3 DEF Good, State, LuksClose
<1>5. QED
  BY <1>2, <1>4, GoodLuksClose DEF UnmountFileSystem, Done, flagged

\* A key is added to a free slot only, so that no other key loses its own.
LEMMA GoodAddEncryptionKey ==
    ASSUME NEW s, Good(s), NEW key \in AnyKey, NEW existing, NEW f
    PROVE  LET added == AddEncryptionKey(s, key, existing, f)
           IN  /\ Good(added.st)
               /\ added.st.authorized = s.authorized
               /\ added.ok => Opens(added.st, key)
<1> DEFINE free == {i \in Slot : s.slots[i] = FreeSlot}
           taken == [s EXCEPT !.slots[CHOOSE i \in free : TRUE] = key]
           added == AddEncryptionKey(s, key, existing, f)
<1>1. CASE added = Failed(s)
  BY <1>1 DEF Failed
<1>2. CASE added # Failed(s)
  <2>1. free # {} /\ s.mounted /\ added = Done(AddKeyToKeychain(taken, key))
    BY <1>2 DEF AddEncryptionKey
  <2>2. PICK i \in free : i = CHOOSE j \in free : TRUE
    BY <2>1
  <2> HIDE DEF added
  <2>3. taken = [s EXCEPT !.slots = [s.slots EXCEPT ![i] = key]]
    BY <2>2 DEF Good, State
  <2> HIDE DEF taken
  <2>4. /\ Good(taken) /\ Opens(taken, key) /\ taken.mounted
        /\ taken.authorized = s.authorized
    <3>1. i \in Slot /\ s.slots[i] = FreeSlot /\ FreeSlot \notin AnyKey
      BY KeyAssumption DEF AnyKey
    <3>2. taken \in State /\ taken.slots = [s.slots EXCEPT ![i] = key]
      BY <2>3 DEF Good, State
    <3>3. Opens(taken, key)
      BY <3>1, <3>2 DEF Good, State, Opens
    <3>4. \A k \in AnyKey : Opens(s, k) => Opens(taken, k)
      BY <3>1, <3>2 DEF Good, State, Opens
    <3>5. /\ taken.keychain = s.keychain /\ taken.authorized = s.authorized
          /\ taken.encryptionKey = s.encryptionKey /\ taken.kernel = s.kernel
          /\ taken.mounted = s.mounted /\ taken.secrets = s.secrets
          /\ taken.opened = s.opened /\ taken.db = s.db
      BY <2>3 DEF Good, State
    <3>6. s.keychain \subseteq AnyKey /\ s.authorized \subseteq AnyKey /\ s.encryptionKey \in AnyKey
      BY DEF Good, State
    <3>7. QED
      BY <2>1, <3>2, <3>3, <3>4, <3>5, <3>6
         DEF Good, DatabasePart, KernelPart, KeychainPart, HeldPart
  <2>5. /\ Good(AddKeyToKeychain(taken, key))
        /\ Opens(AddKeyToKeychain(taken, key), key)
        /\ AddKeyToKeychain(taken, key).authorized = s.authorized
    BY <2>4 DEF Good, State, AddKeyToKeychain, DatabasePart, KernelPart,
                KeychainPart, HeldPart, Opens
  <2>6. QED BY <2>1, <2>5 DEF Done, added
<1>3. QED BY <1>1, <1>2

\* Where keys may be removed, the keychain file follows the header.
LEMMA GoodRemoveEncryptionKey ==
    ASSUME Removes, NEW s, Good(s), NEW key \in AnyKey, NEW f
    PROVE  Good(RemoveEncryptionKey(s, key, f).st)
<1> DEFINE held == {i \in Slot : s.slots[i] = key}
           freed == [s EXCEPT !.slots[CHOOSE i \in held : TRUE] = FreeSlot]
           removed == RemoveEncryptionKey(s, key, f)
<1>1. CASE removed \in {Failed(s), Done(s)}
  BY <1>1 DEF Failed, Done
<1>2. CASE removed \notin {Failed(s), Done(s)}
  <2>1. held # {} /\ s.mounted /\ removed = Done(RemoveKeyFromKeychain(freed, key))
    BY <1>2 DEF RemoveEncryptionKey
  <2>2. PICK i \in held : i = CHOOSE j \in held : TRUE
    BY <2>1
  <2> HIDE DEF removed
  <2>3. freed = [s EXCEPT !.slots = [s.slots EXCEPT ![i] = FreeSlot]]
    BY <2>2 DEF Good, State
  <2> HIDE DEF freed
  <2>4. /\ freed \in State /\ freed.slots = [s.slots EXCEPT ![i] = FreeSlot]
        /\ freed.keychain = s.keychain /\ freed.kernel = s.kernel
        /\ freed.mounted = s.mounted /\ freed.secrets = s.secrets
        /\ freed.opened = s.opened /\ freed.db = s.db
    BY <2>3 DEF Good, State
  <2>5. i \in Slot /\ s.slots[i] = key
    OBVIOUS
  <2>6. \A k \in AnyKey \ {key} : Opens(s, k) => Opens(freed, k)
    BY <2>4, <2>5 DEF Good, State, Opens
  <2> DEFINE now == RemoveKeyFromKeychain(freed, key)
  <2>7. /\ now \in State /\ now.slots = freed.slots /\ now.kernel = s.kernel
        /\ now.mounted = s.mounted /\ now.secrets = s.secrets
        /\ now.opened = s.opened /\ now.db = s.db
        /\ now.keychain = IF s.kernel = "mounted" THEN s.keychain \ {key} ELSE s.keychain
    BY <2>4 DEF State, RemoveKeyFromKeychain
  <2> HIDE DEF now
  <2>8. s.keychain \subseteq AnyKey
    BY DEF Good, State
  <2>9. KeychainPart(now)
    <3>1. SUFFICES ASSUME "mount" \notin FaultKinds, NEW k \in now.keychain
                   PROVE  Opens(now, k)
      BY DEF KeychainPart
    <3>2. s.kernel = "mounted" /\ k \in s.keychain /\ k # key /\ Opens(s, k)
      BY <2>1, <2>7, <3>1 DEF Good, KernelPart, KeychainPart
    <3>3. Opens(freed, k)
      BY <2>6, <2>8, <3>2
    <3>4. QED BY <2>7, <3>3 DEF Opens
  <2>10. Good(now)
    BY <2>1, <2>7, <2>9 DEF Good, DatabasePart, KernelPart, HeldPart
  <2>11. QED BY <2>1, <2>10 DEF Done, now, removed
<1>3. QED BY <1>1, <1>2

\* A key that encryptionKeyInUse() finds in use has a slot.
LEMMA GoodEncryptionKeyInUse ==
    ASSUME NEW s, Good(s), NEW key \in Key, NEW f \in Faults
    PROVE  LET use == EncryptionKeyInUse(s, key, f)
           IN  /\ Good(use.st)
               /\ "mount" \notin FaultKinds /\ ~Removes /\ use.ok => Opens(use.st, key)
<1>1. CASE s.mounted
  BY <1>1 DEF EncryptionKeyInUse, Keychain, Good, KernelPart, KeychainPart, HeldPart
<1>2. CASE ~s.mounted
  <2> DEFINE set == SetEncryptionKey(s, key)
  <2>1. Good(set)
    BY GoodSetEncryptionKey DEF AnyKey
  <2>2. set.encryptionKey = key
    BY <1>2 DEF Good, State, SetEncryptionKey
  <2> HIDE DEF set
  <2>3. QED
    BY <1>2, <2>1, <2>2, GoodMountFileSystem DEF EncryptionKeyInUse, set
<1>3. QED BY <1>1, <1>2

-----------------------------------------------------------------------------
(* The operators of KeyHandler *)

\* A key with a slot may be put among the authorized ones.
LEMMA GoodAuthorized ==
    ASSUME NEW s, Good(s), NEW A \in SUBSET AnyKey,
           "mount" \notin FaultKinds /\ ~Removes => \A key \in A : Opens(s, key)
    PROVE  Good([s EXCEPT !.authorized = A])
BY DEF Good, State, DatabasePart, KernelPart, KeychainPart, HeldPart, Opens

\* Mounting with an authorized key, if need be.
LEMMA GoodMountedWith ==
    ASSUME NEW s, Good(s), NEW a \in AnyKey, NEW f \in Faults
    PROVE  LET m == MountedWith(s, a, f)
           IN  /\ Good(m.st)
               /\ m.st.authorized = s.authorized
BY GoodSetEncryptionKey, GoodMountFileSystem DEF MountedWith, Done

\* Authorizing one key by a format: the others are forgotten first.
LEMMA GoodAuthorizeFormatting ==
    ASSUME NEW s, Good(s), NEW key \in AnyKey, NEW f \in Faults
    PROVE  Good(AuthorizeFormatting(s, key, f))
<1> DEFINE none == [s EXCEPT !.authorized = {}]
           ready == SetEncryptionKey(none, key)
           set == SetupFileSystem(ready, f)
<1>1. Good(none) /\ none.authorized = {} /\ none.mounted = s.mounted
  <2>1. Good(none)
    BY GoodAuthorized
  <2>2. QED BY <2>1 DEF Good, State
<1> HIDE DEF none
<1>2. /\ Good(ready) /\ ready.authorized = {}
      /\ none.mounted => ready = none
      /\ ~none.mounted => ready.encryptionKey = key
  <2>1. Good(ready) /\ ready.authorized = {}
    BY <1>1, GoodSetEncryptionKey
  <2>2. QED BY <1>1, <2>1 DEF Good, State, SetEncryptionKey
<1>3. none.mounted => set = Failed(ready)
  BY <1>2 DEF SetupFileSystem
<1> HIDE DEF ready
<1>4. Good(set.st) /\ (set.ok => Opens(set.st, key))
  BY <1>2, <1>3, GoodSetupFileSystem DEF Failed
<1> HIDE DEF set
<1>5. set.ok => Good([set.st EXCEPT !.authorized = {key}])
  BY <1>4, GoodAuthorized
<1>6. QED BY <1>4, <1>5 DEF AuthorizeFormatting, set, ready, none

\* Authorizing one more key.
LEMMA GoodAuthorizeAdding ==
    ASSUME NEW s, Good(s), NEW key \in AnyKey, NEW a \in AnyKey, NEW f \in Faults
    PROVE  Good(AuthorizeAdding(s, key, a, f))
<1> DEFINE m == MountedWith(s, a, f)
           added == AddEncryptionKey(m.st, key, a, f)
<1>1. Good(m.st)
  BY GoodMountedWith
<1> HIDE DEF m
<1>2. Good(added.st) /\ (added.ok => Opens(added.st, key))
  BY <1>1, GoodAddEncryptionKey
<1> HIDE DEF added
<1>3. ASSUME added.ok
      PROVE  Good([added.st EXCEPT !.authorized = @ \cup {key}])
  <2>1. added.st.authorized \cup {key} \in SUBSET AnyKey
    BY <1>2 DEF Good, State
  <2>2. "mount" \notin FaultKinds /\ ~Removes =>
            \A k \in added.st.authorized \cup {key} : Opens(added.st, k)
    BY <1>2, <1>3 DEF Good, HeldPart
  <2>3. Good([added.st EXCEPT !.authorized = added.st.authorized \cup {key}])
    BY <1>2, <2>1, <2>2, GoodAuthorized
  <2>4. QED BY <2>3
<1>4. QED BY <1>1, <1>2, <1>3 DEF AuthorizeAdding, m, added

\* authorizeKey(), either way.
LEMMA GoodAuthorizeKey ==
    ASSUME NEW s, Good(s), NEW key \in AnyKey, NEW format \in BOOLEAN,
           NEW a \in AnyKey, NEW f \in Faults
    PROVE  Good(AuthorizeKey(s, key, format, a, f))
BY GoodAuthorizeFormatting, GoodAuthorizeAdding DEF AuthorizeKey

\* Revoking, where keys may be removed.
LEMMA GoodRevokeKeyAuthorization ==
    ASSUME Removes, NEW s, Good(s), NEW key \in AnyKey, NEW a \in AnyKey,
           NEW f \in Faults
    PROVE  Good(RevokeKeyAuthorization(s, key, a, f))
<1> DEFINE m == MountedWith(s, a, f)
           removed == RemoveEncryptionKey(m.st, key, f)
<1>1. Good(m.st)
  BY GoodMountedWith
<1> HIDE DEF m
<1>2. Good(removed.st)
  BY <1>1, GoodRemoveEncryptionKey
<1> HIDE DEF removed
<1>3. Good([removed.st EXCEPT !.authorized = removed.st.authorized \ {key}])
  <2>1. removed.st.authorized \ {key} \in SUBSET AnyKey
    BY <1>2 DEF Good, State
  <2>2. QED BY <1>2, <2>1, GoodAuthorized
<1>4. QED BY <1>1, <1>2, <1>3 DEF RevokeKeyAuthorization, m, removed

\* An inserted key is authorized only if it is in use, or opens the storage.
LEMMA GoodTakeInserted ==
    ASSUME NEW s, Good(s), NEW key \in Key, NEW f \in Faults
    PROVE  Good(TakeInserted(s, key, f))
<1> DEFINE noted == [s EXCEPT !.inserted = @ \cup {key}]
           use == EncryptionKeyInUse(noted, key, f)
<1>1. Good(noted)
  BY DEF Good, State, AnyKey, DatabasePart, KernelPart, KeychainPart, HeldPart, Opens
<1> HIDE DEF noted
<1>2. /\ Good(use.st)
      /\ "mount" \notin FaultKinds /\ ~Removes /\ use.ok => Opens(use.st, key)
  BY <1>1, GoodEncryptionKeyInUse
<1> HIDE DEF use
<1>3. use.ok => Good([use.st EXCEPT !.authorized = use.st.authorized \cup {key}])
  <2>1. use.st.authorized \cup {key} \in SUBSET AnyKey
    BY <1>2 DEF Good, State, AnyKey
  <2>2. "mount" \notin FaultKinds /\ ~Removes /\ use.ok =>
            \A k \in use.st.authorized \cup {key} : Opens(use.st, k)
    BY <1>2 DEF Good, HeldPart
  <2>3. QED BY <1>2, <2>1, <2>2, GoodAuthorized
<1>4. QED BY <1>1, <1>2, <1>3 DEF TakeInserted, noted, use

-----------------------------------------------------------------------------
(* The operators of the CredentialsAccessManager *)

\* The secrets database is closed before the file system.
LEMMA GoodCloseSecretsDB ==
    ASSUME NEW s, Good(s), NEW f
    PROVE  LET closed == CloseSecretsDB(s, f)
           IN  /\ Good(closed)
               /\ ~closed.mounted
               /\ closed.alive = s.alive
<1> DEFINE shut == [s EXCEPT !.secrets = FALSE]
<1>1. Good(shut) /\ shut.alive = s.alive
  BY DEF Good, State, DatabasePart, KernelPart, KeychainPart, HeldPart, Opens
<1> HIDE DEF shut
<1>2. QED BY <1>1, GoodUnmountFileSystem DEF CloseSecretsDB, shut

\* Disabling a key, the last one included.
LEMMA GoodDisableKey ==
    ASSUME NEW s, Good(s), NEW key \in Key, NEW f
    PROVE  Good(DisableKey(s, key, f))
<1> DEFINE out == [s EXCEPT !.inserted = @ \ {key}]
<1>1. Good(out)
  BY DEF Good, State, DatabasePart, KernelPart, KeychainPart, HeldPart, Opens
<1> HIDE DEF out
<1>2. Good([out EXCEPT !.alive = FALSE])
  BY <1>1 DEF Good, State, DatabasePart, KernelPart, KeychainPart, HeldPart, Opens
<1>3. Good(CloseSecretsDB(out, f))
  BY <1>1, GoodCloseSecretsDB
<1> DEFINE last == AuthorizedInserted(out) = {} /\ key \in s.authorized
<1> HIDE DEF last
<1>4. DisableKey(s, key, f) =
          CASE ~last -> out
            [] last /\ ~s.db -> [out EXCEPT !.alive = FALSE]
            [] OTHER -> IF s.secrets \/ s.mounted THEN CloseSecretsDB(out, f) ELSE out
  BY DEF DisableKey, out, last
<1>5. QED BY <1>1, <1>2, <1>3, <1>4

\* Opening the system, on a mounted storage or with a mount.
LEMMA GoodOpenSystem ==
    ASSUME NEW s, Good(s), NEW f \in Faults
    PROVE  Good(OpenSystem(s, f))
<1> DEFINE ready == [s EXCEPT !.db = TRUE, !.opened = TRUE]
<1>1. Good(ready) /\ ready.mounted = s.mounted /\ ready.opened /\ ready.db
  BY DEF Good, State, DatabasePart, KernelPart, KeychainPart, HeldPart, Opens
<1> HIDE DEF ready
<1>2. Good([s EXCEPT !.db = TRUE])
  BY DEF Good, State, DatabasePart, KernelPart, KeychainPart, HeldPart, Opens
<1>3. s.mounted => Good(OpenSecretsDB(ready, f))
  BY <1>1 DEF Good, State, OpenSecretsDB, DatabasePart, KernelPart, KeychainPart,
              HeldPart, Opens
<1>4. Good(MountFileSystem(ready, f).st)
  BY <1>1, GoodMountFileSystem
<1>5. QED BY <1>2, <1>3, <1>4 DEF OpenSystem, ready

\* Closing the system.
LEMMA GoodCloseSystem ==
    ASSUME NEW s, Good(s), NEW f
    PROVE  Good(CloseSystem(s, f))
<1> DEFINE shut == IF s.secrets THEN CloseSecretsDB(s, f) ELSE s
<1>1. Good(shut) /\ ~shut.secrets
  BY GoodCloseSecretsDB DEF Good, DatabasePart
<1> HIDE DEF shut
<1>2. Good([shut EXCEPT !.db = FALSE, !.opened = FALSE])
  BY <1>1 DEF Good, State, DatabasePart, KernelPart, KeychainPart, HeldPart, Opens
<1>3. QED BY <1>2 DEF CloseSystem, shut

-----------------------------------------------------------------------------
(* The specification *)

\* What a handler makes of the state is the state after its step.
LEMMA NowBecomes ==
    ASSUME NEW t \in State, Become(t)
    PROVE  Now' = t
BY DEF State, Become, Now

\* Steps that leave the state alone keep its invariant.
LEMMA NowUnchanged ==
    ASSUME UNCHANGED stateVars
    PROVE  Now' = Now
BY DEF stateVars, diskVars, keyVars, camVars, Now

\* onKeyAuthorizationQueried() may choose any authorized key.
LEMMA GoodAuthorize ==
    ASSUME NEW s, Good(s), NEW key \in AnyKey, NEW result, NEW f \in Faults,
           NEW t \in Authorize(s, key, result, f)
    PROVE  Good(t)
<1>1. CASE result = "Denied"
  BY <1>1 DEF Authorize
<1>2. CASE result # "Denied"
  <2>1. PICK a \in AnyAuthorized(s) :
            t = AuthorizeKey(s, key, result = "Exclusive", a, f)
    BY <1>2 DEF Authorize
  <2>2. a \in AnyKey
    BY DEF AnyAuthorized, AnyKey, Good, State
  <2>3. (result = "Exclusive") \in BOOLEAN
    OBVIOUS
  <2>4. QED BY <2>1, <2>2, <2>3, GoodAuthorizeKey
<1>3. QED BY <1>1, <1>2

\* Either authorizer, the one that asks or the default one.
LEMMA GoodQueryAuthorization ==
    ASSUME NEW s, Good(s), NEW key \in AnyKey, NEW f \in Faults,
           QueryAuthorization(s, key, f)
    PROVE  Good(Now')
<1>1. CASE Asks
  BY <1>1, NowBecomes DEF QueryAuthorization, Good
<1>2. CASE ~Asks
  <2>1. PICK t \in Authorize(s, key, DefaultResult(s), f) : Become(t)
    BY <1>2 DEF QueryAuthorization
  <2>2. Good(t)
    BY GoodAuthorize
  <2>3. QED BY <2>1, <2>2, NowBecomes DEF Good
<1>3. QED BY <1>1, <1>2

\* A fresh daemon on a fresh disk.
LEMMA GoodInit == Init => Good(Now)
BY KeyAssumption
   DEF Init, Good, Now, State, EmptyHeader, AnyKey, Kernel, DatabasePart, KernelPart,
       KeychainPart, HeldPart

\* The invariant of the state is inductive: each handler applies operators that
\* keep it.
LEMMA GoodNext == Good(Now) /\ [Next]_vars => Good(Now')
<1> SUFFICES ASSUME Good(Now), [Next]_vars
             PROVE  Good(Now')
  OBVIOUS
<1>1. ASSUME NEW m \in KeyManager, NEW key \in AnyKey, KeyInserted(m, key)
      PROVE  Good(Now')
  <2>1. CASE key = NoKey
    BY <1>1, <2>1, NowUnchanged DEF KeyInserted
  <2>2. CASE key # NoKey
    <3>1. key \in Key
      BY <2>2 DEF AnyKey
    <3>2. PICK f \in Faults, g \in Faults :
              \/ Become(TakeInserted(Now, key, f))
              \/ QueryAuthorization(TakeInserted(Now, key, f), key, g)
      BY <1>1, <2>2 DEF KeyInserted
    <3>3. Good(TakeInserted(Now, key, f))
      BY <3>1, GoodTakeInserted
    <3>4. CASE Become(TakeInserted(Now, key, f))
      BY <3>3, <3>4, NowBecomes DEF Good
    <3>5. CASE QueryAuthorization(TakeInserted(Now, key, f), key, g)
      BY <3>3, <3>5, GoodQueryAuthorization
    <3>6. QED BY <3>2, <3>4, <3>5
  <2>3. QED BY <2>1, <2>2
<1>2. ASSUME NEW key \in Key, KeyDisabled(key)
      PROVE  Good(Now')
  <2>1. PICK f \in Faults : Become(DisableKey(Now, key, f))
    BY <1>2 DEF KeyDisabled
  <2>2. Good(DisableKey(Now, key, f))
    BY GoodDisableKey
  <2>3. QED BY <2>1, <2>2, NowBecomes DEF Good
<1>3. ASSUME NEW key \in Key, KeyRemoved(key)
      PROVE  Good(Now')
  <2>1. Removes
    BY <1>3 DEF KeyRemoved
  <2>2. PICK f \in Faults, g \in Faults :
            LET disabled == DisableKey(Now, key, f)
            IN  \/ Become(disabled)
                \/ \E a \in AnyAuthorized(disabled) :
                      Become(RevokeKeyAuthorization(disabled, key, a, g))
    BY <1>3 DEF KeyRemoved
  <2> DEFINE disabled == DisableKey(Now, key, f)
  <2>3. Good(disabled)
    BY GoodDisableKey
  <2> HIDE DEF disabled
  <2>4. CASE Become(disabled)
    BY <2>3, <2>4, NowBecomes DEF Good
  <2>5. ASSUME NEW a \in AnyAuthorized(disabled),
               Become(RevokeKeyAuthorization(disabled, key, a, g))
        PROVE  Good(Now')
    <3>1. a \in AnyKey
      BY <2>3 DEF AnyAuthorized, AnyKey, Good, State
    <3>2. Good(RevokeKeyAuthorization(disabled, key, a, g))
      BY <2>1, <2>3, <3>1, GoodRevokeKeyAuthorization DEF AnyKey
    <3>3. QED BY <2>5, <3>2, NowBecomes DEF Good
  <2>6. QED BY <2>2, <2>4, <2>5 DEF disabled
<1>4. ASSUME NEW key \in AnyKey, NEW result, KeyAuthorizationQueried(key, result)
      PROVE  Good(Now')
  <2>1. PICK f \in Faults : \E t \in Authorize(Now, key, result, f) : Become(t)
    BY <1>4 DEF KeyAuthorizationQueried
  <2>2. PICK t \in Authorize(Now, key, result, f) : Become(t)
    BY <2>1
  <2>3. Good(t)
    BY GoodAuthorize
  <2>4. QED BY <2>2, <2>3, NowBecomes DEF Good
<1>5. CASE OpenCredentialsSystem
  <2>1. PICK f \in Faults : Become(OpenSystem(Now, f))
    BY <1>5 DEF OpenCredentialsSystem
  <2>2. Good(OpenSystem(Now, f))
    BY GoodOpenSystem
  <2>3. QED BY <2>1, <2>2, NowBecomes DEF Good
<1>6. CASE BackupStarts
  <2>1. PICK f \in Faults, g \in Faults :
            \/ Become(CloseSystem(Now, f))
            \/ Become(OpenSystem(CloseSystem(Now, f), g))
    BY <1>6 DEF BackupStarts
  <2>2. Good(CloseSystem(Now, f))
    BY GoodCloseSystem
  <2>3. Good(OpenSystem(CloseSystem(Now, f), g))
    BY <2>2, GoodOpenSystem
  <2>4. QED BY <2>1, <2>2, <2>3, NowBecomes DEF Good
<1>7. ASSUME NEW x \in Sender, CustomEvent(x)
      PROVE  Good(Now')
  <2>1. CASE UNCHANGED stateVars
    BY <2>1, NowUnchanged
  <2>2. CASE \E f \in Faults :
                \E t \in Authorize(Now, NoKey, DefaultResult(Now), f) : Become(t)
    <3>1. PICK f \in Faults :
              \E t \in Authorize(Now, NoKey, DefaultResult(Now), f) : Become(t)
      BY <2>2
    <3>2. PICK t \in Authorize(Now, NoKey, DefaultResult(Now), f) : Become(t)
      BY <3>1
    <3>3. NoKey \in AnyKey
      BY DEF AnyKey
    <3>4. Good(t)
      BY <3>3, GoodAuthorize
    <3>5. QED BY <3>2, <3>4, NowBecomes DEF Good
  <2>3. QED BY <1>7, <2>1, <2>2 DEF CustomEvent, AnswerEvent, QueryForEvent
<1>8. CASE Crash
  <2> DEFINE killed == [Now EXCEPT !.alive = FALSE]
  <2>1. Good(killed)
    BY DEF Good, State, DatabasePart, KernelPart, KeychainPart, HeldPart, Opens
  <2>2. Become(killed)
    BY <1>8 DEF Crash
  <2> HIDE DEF killed
  <2>3. QED BY <2>1, <2>2, NowBecomes DEF Good
<1>9. CASE Restart
  <2> DEFINE fresh == [Now EXCEPT !.mounted = FALSE, !.encryptionKey = NoKey,
                          !.inserted = {}, !.authorized = {}, !.alive = TRUE,
                          !.opened = FALSE, !.db = FALSE, !.secrets = FALSE]
  <2>1. Good(fresh)
    BY DEF Good, State, AnyKey, DatabasePart, KernelPart, KeychainPart, HeldPart, Opens
  <2>2. Become(fresh)
    BY <1>9 DEF Restart
  <2> HIDE DEF fresh
  <2>3. QED BY <2>1, <2>2, NowBecomes DEF Good
<1>10. CASE \E x \in Sender : PostStorageEvent(x) \/ SenderDone(x)
  BY <1>10, NowUnchanged DEF PostStorageEvent, SenderDone
<1>11. CASE UNCHANGED vars
  BY <1>11, NowUnchanged DEF vars
<1>12. QED
  BY <1>1, <1>2, <1>3, <1>4, <1>5, <1>6, <1>7, <1>8, <1>9, <1>10, <1>11 DEF Next

\* The variables that Now leaves out have their types too.
OthersTyped ==
    /\ started \in BOOLEAN
    /\ readyKeyManagers \in SUBSET KeyManager
    /\ queries \in SUBSET AnyKey
    /\ sender \in [Sender -> SenderStates]

IInv == Good(Now) /\ OthersTyped

\* Every action keeps the types of the variables that Now leaves out.
LEMMA OthersTypedNext == OthersTyped /\ [Next]_vars => OthersTyped'
<1> SUFFICES ASSUME OthersTyped, [Next]_vars
             PROVE  OthersTyped'
  OBVIOUS
<1> USE DEF OthersTyped
<1>0. NoKey \in AnyKey
  BY DEF AnyKey
<1>1. ReplyToNotifiers => sender' \in [Sender -> SenderStates]
  BY DEF ReplyToNotifiers, SenderStates
<1>2. ASSUME NEW s, NEW key \in AnyKey, NEW f, QueryAuthorization(s, key, f)
      PROVE  queries' \in SUBSET AnyKey /\ sender' \in [Sender -> SenderStates]
  BY <1>1, <1>2 DEF QueryAuthorization
<1>3. ASSUME NEW m \in KeyManager, NEW key \in AnyKey, KeyInserted(m, key)
      PROVE  OthersTyped'
  <2>1. started' = started /\ readyKeyManagers' \in SUBSET KeyManager
    BY <1>3 DEF KeyInserted
  <2>2. \/ UNCHANGED <<queries, sender>>
        \/ \E f, g \in Faults : QueryAuthorization(TakeInserted(Now, key, f), key, g)
    BY <1>3 DEF KeyInserted
  <2>3. QED BY <1>2, <2>1, <2>2
<1>4. ASSUME NEW key \in Key, KeyDisabled(key) \/ KeyRemoved(key)
      PROVE  OthersTyped'
  BY <1>4 DEF KeyDisabled, KeyRemoved, otherVars
<1>5. ASSUME NEW key \in AnyKey, NEW result, KeyAuthorizationQueried(key, result)
      PROVE  OthersTyped'
  BY <1>1, <1>5 DEF KeyAuthorizationQueried
<1>6. CASE OpenCredentialsSystem
  BY <1>6 DEF OpenCredentialsSystem
<1>7. CASE BackupStarts \/ Crash
  BY <1>7 DEF BackupStarts, Crash, otherVars
<1>8. ASSUME NEW x \in Sender, PostStorageEvent(x) \/ SenderDone(x)
      PROVE  OthersTyped'
  BY <1>8 DEF PostStorageEvent, SenderDone, SenderStates
<1>9. ASSUME NEW x \in Sender, CustomEvent(x)
      PROVE  OthersTyped'
  <2>1. started' = started /\ readyKeyManagers' = readyKeyManagers
    BY <1>9 DEF CustomEvent
  <2>2. CASE AnswerEvent(x)
    BY <2>1, <2>2 DEF AnswerEvent, SenderStates
  <2>3. CASE QueryForEvent(x)
    <3>1. queries' \in SUBSET AnyKey
      BY <1>0, <2>3 DEF QueryForEvent
    <3>2. sender' \in [Sender -> SenderStates]
      BY <2>3 DEF QueryForEvent, SenderStates
    <3>3. QED BY <2>1, <3>1, <3>2
  <2>4. QED BY <1>9, <2>2, <2>3 DEF CustomEvent
<1>10. CASE Restart
  BY <1>10 DEF Restart, SenderStates
<1>11. CASE UNCHANGED vars
  BY <1>11 DEF vars, otherVars
<1>12. QED
  BY <1>3, <1>4, <1>5, <1>6, <1>7, <1>8, <1>9, <1>10, <1>11 DEF Next

\* The invariant is inductive, and so holds of every reachable state.
LEMMA AlwaysGood == Spec => []IInv
<1>1. Init => IInv
  <2>1. Init => OthersTyped
    BY DEF Init, OthersTyped, SenderStates
  <2>2. QED BY <2>1, GoodInit DEF IInv
<1>2. Good(Now') <=> Good(Now)'
  BY DEF Good, State, DatabasePart, KernelPart, KeychainPart, HeldPart, Opens
<1>3. IInv /\ [Next]_vars => IInv'
  BY <1>2, GoodNext, OthersTypedNext DEF IInv
<1>4. QED BY <1>1, <1>3, PTL DEF Spec

-----------------------------------------------------------------------------
(* The secrets database is there where it can be, and the authorized keys    *)
(* keep their slots                                                          *)

\* Where the system is open and the storage mounted, so is the database: also
\* in a daemon that has ended.
AvailablePart(s) ==
    "database" \notin FaultKinds => (s.opened /\ s.mounted => s.secrets)

\* Only a volume that is there has authorized keys: none is created over them.
SetupPart(s) == s.authorized # {} => s.setup

Fit(s) == s \in State /\ AvailablePart(s) /\ SetupPart(s)

\* t differs from s in neither of them.
Alike(s, t) ==
    /\ t \in State
    /\ t.opened = s.opened /\ t.mounted = s.mounted /\ t.secrets = s.secrets
    /\ t.authorized = s.authorized /\ t.setup = s.setup

\* From s to t no authorized key loses its slot.
SlotsKept(s, t) == \A i \in Slot : s.slots[i] \in s.authorized => t.slots[i] = s.slots[i]

\* Clearing the resources only concerns the kernel.
LEMMA FitClearResources ==
    ASSUME NEW s \in State, NEW f
    PROVE  LET cleared == ClearResources(s, f)
           IN  /\ Alike(s, cleared) /\ cleared.slots = s.slots
               /\ cleared.encryptionKey = s.encryptionKey
<1> DEFINE t == Umount(s, f)
<1>1. Alike(s, t) /\ t.slots = s.slots /\ t.encryptionKey = s.encryptionKey
  BY DEF State, Kernel, Umount, Alike
<1> HIDE DEF t
<1>2. LET u == LuksClose(t, f)
      IN  Alike(t, u) /\ u.slots = t.slots /\ u.encryptionKey = t.encryptionKey
  BY <1>1 DEF State, Kernel, LuksClose, Alike
<1>3. QED BY <1>1, <1>2 DEF ClearResources, Alike, t

LEMMA FitSetEncryptionKey ==
    ASSUME NEW s \in State, NEW key \in AnyKey
    PROVE  /\ Alike(s, SetEncryptionKey(s, key))
           /\ SetEncryptionKey(s, key).slots = s.slots
BY DEF State, SetEncryptionKey, Alike

\* A mount opens the secrets database of an open system.
LEMMA FitMountOpened ==
    ASSUME NEW s \in State, SetupPart(s), NEW f \in Faults
    PROVE  LET t == MountOpened(s, f)
           IN  /\ Fit(t) /\ t.slots = s.slots
               /\ t.authorized = s.authorized /\ t.setup = s.setup
<1> DEFINE mapped == [s EXCEPT !.kernel = IF f = "mount" THEN "opened" ELSE "mounted"]
           noted == AddKeyToKeychain(mapped, s.encryptionKey)
           now == [noted EXCEPT !.mounted = TRUE]
<1>1. /\ mapped \in State /\ mapped.slots = s.slots
      /\ mapped.authorized = s.authorized /\ mapped.setup = s.setup
  BY DEF State, Kernel
<1>2. s.encryptionKey \in AnyKey
  BY DEF State
<1> HIDE DEF mapped
<1>3. /\ noted \in State /\ noted.slots = s.slots
      /\ noted.authorized = s.authorized /\ noted.setup = s.setup
  BY <1>1, <1>2 DEF State, AddKeyToKeychain
<1> HIDE DEF noted
<1>4. /\ now \in State /\ now.slots = s.slots /\ now.mounted = TRUE
      /\ now.authorized = s.authorized /\ now.setup = s.setup
  BY <1>3 DEF State
<1> HIDE DEF now
<1>5. "database" \notin FaultKinds => f # "database"
  BY DEF Faults
<1>6. LET t == OnMounted(now, f)
      IN  /\ t \in State /\ t.slots = s.slots
          /\ t.authorized = s.authorized /\ t.setup = s.setup
          /\ "database" \notin FaultKinds => (t.opened /\ t.mounted => t.secrets)
  BY <1>4, <1>5 DEF State, OnMounted, OpenSecretsDB
<1>7. QED BY <1>6 DEF MountOpened, Fit, AvailablePart, SetupPart, mapped, noted, now

LEMMA FitMountFileSystem ==
    ASSUME NEW s, Fit(s), NEW f \in Faults
    PROVE  LET m == MountFileSystem(s, f)
           IN  /\ Fit(m.st) /\ m.st.slots = s.slots
               /\ m.st.authorized = s.authorized /\ m.st.setup = s.setup
<1> DEFINE cleared == ClearResources(s, f)
<1>1. /\ Alike(s, cleared) /\ cleared.slots = s.slots
      /\ cleared.encryptionKey = s.encryptionKey
  BY FitClearResources DEF Fit
<1> HIDE DEF cleared
<1>2. Fit(cleared) /\ cleared.authorized = s.authorized /\ cleared.setup = s.setup
  BY <1>1 DEF Fit, Alike, AvailablePart, SetupPart
<1>3. LET t == MountOpened(cleared, f)
      IN  /\ Fit(t) /\ t.slots = s.slots
          /\ t.authorized = s.authorized /\ t.setup = s.setup
  BY <1>1, <1>2, FitMountOpened DEF Fit
<1>4. QED BY <1>1, <1>2, <1>3 DEF MountFileSystem, Failed, Done, cleared

\* A format, before which the authorized keys are forgotten.
LEMMA FitSetupFileSystem ==
    ASSUME NEW s, Fit(s), s.authorized = {}, NEW f \in Faults
    PROVE  LET m == SetupFileSystem(s, f)
           IN  Fit(m.st) /\ (m.ok => m.st.setup)
<1> DEFINE cleared == ClearResources(s, f)
           created == [cleared EXCEPT !.setup = TRUE]
           wiped == [created EXCEPT !.slots = EmptyHeader, !.keychain = {}]
           formatted == LuksFormat(created, s.encryptionKey)
<1>1. Alike(s, cleared) /\ s.encryptionKey \in AnyKey
  BY FitClearResources DEF Fit, State
<1> HIDE DEF cleared
<1>2. Fit(cleared)
  BY <1>1 DEF Fit, Alike, AvailablePart, SetupPart
<1>3. Fit(created) /\ created.setup
  BY <1>2 DEF Fit, State, AvailablePart, SetupPart
<1> HIDE DEF created
<1>4. Fit(wiped)
  BY <1>3 DEF Fit, State, EmptyHeader, AvailablePart, SetupPart
<1>5. Fit(formatted) /\ formatted.setup
  <2> DEFINE header == [EmptyHeader EXCEPT ![CHOOSE i \in Slot : TRUE] = s.encryptionKey]
  <2>1. header \in [Slot -> AnyKey \cup {FreeSlot}]
    BY <1>1 DEF EmptyHeader
  <2> HIDE DEF header
  <2>2. formatted = [created EXCEPT !.slots = header, !.keychain = {}]
    BY DEF LuksFormat, header
  <2> HIDE DEF formatted
  <2>3. QED BY <1>3, <2>1, <2>2 DEF Fit, State, AvailablePart, SetupPart
<1> HIDE DEF wiped, formatted
<1>6. Fit(MountOpened(formatted, f)) /\ MountOpened(formatted, f).setup
  BY <1>5, FitMountOpened DEF Fit
<1>7. QED
  BY <1>2, <1>3, <1>4, <1>5, <1>6
     DEF SetupFileSystem, Failed, Done, cleared, created, wiped, formatted

\* An unmounted storage needs no database, whatever became of that before.
LEMMA FitUnmountFileSystem ==
    ASSUME NEW s \in State, SetupPart(s), NEW f
    PROVE  LET t == UnmountFileSystem(s, f).st
           IN  /\ Fit(t) /\ t.slots = s.slots
               /\ t.authorized = s.authorized /\ t.setup = s.setup
<1> DEFINE flagged == [OnUnmounting(s) EXCEPT !.mounted = FALSE]
           closed == ClearResources(flagged, f)
<1>1. /\ flagged \in State /\ flagged.mounted = FALSE /\ flagged.slots = s.slots
      /\ flagged.authorized = s.authorized /\ flagged.setup = s.setup
  BY DEF State, OnUnmounting
<1> HIDE DEF flagged
<1>2. Alike(flagged, closed) /\ closed.slots = flagged.slots
  BY <1>1, FitClearResources
<1>3. closed = LuksClose(Umount(flagged, f), f)
  BY DEF ClearResources
<1> HIDE DEF closed
<1>4. /\ Fit(closed) /\ closed.slots = s.slots
      /\ closed.authorized = s.authorized /\ closed.setup = s.setup
  BY <1>1, <1>2 DEF Fit, Alike, AvailablePart, SetupPart
<1>5. UnmountFileSystem(s, f).st = IF s.mounted THEN closed ELSE s
  BY <1>3 DEF UnmountFileSystem, Done, flagged
<1>6. CASE s.mounted
  BY <1>4, <1>5, <1>6
<1>7. CASE ~s.mounted
  BY <1>5, <1>7 DEF Fit, AvailablePart
<1>8. QED BY <1>6, <1>7

\* A key is added to a free slot, which is no authorized key's.
LEMMA FitAddEncryptionKey ==
    ASSUME NEW s, Fit(s), NEW key \in AnyKey, NEW existing, NEW f
    PROVE  LET t == AddEncryptionKey(s, key, existing, f).st
           IN  /\ Fit(t) /\ SlotsKept(s, t)
               /\ t.authorized = s.authorized /\ t.setup = s.setup
<1> DEFINE free == {i \in Slot : s.slots[i] = FreeSlot}
           header == [s.slots EXCEPT ![CHOOSE i \in free : TRUE] = key]
           taken == [s EXCEPT !.slots = header]
           t == AddEncryptionKey(s, key, existing, f).st
<1>1. t = s \/ (free # {} /\ t = AddKeyToKeychain(taken, key))
  BY DEF AddEncryptionKey, Done, Failed, Fit, State
<1>2. CASE t = s
  BY <1>2 DEF SlotsKept
<1>3. CASE free # {} /\ t = AddKeyToKeychain(taken, key)
  <2>1. PICK i \in free : i = CHOOSE j \in free : TRUE
    BY <1>3
  <2>2. i \in Slot /\ s.slots[i] \notin s.authorized
    BY KeyAssumption DEF Fit, State, AnyKey
  <2>3. header = [s.slots EXCEPT ![i] = key] /\ s.slots \in [Slot -> AnyKey \cup {FreeSlot}]
    BY <2>1 DEF Fit, State
  <2> HIDE DEF header
  <2>4. /\ header \in [Slot -> AnyKey \cup {FreeSlot}]
        /\ \A j \in Slot : s.slots[j] \in s.authorized => header[j] = s.slots[j]
    BY <2>2, <2>3
  <2>5. Alike(s, taken) /\ taken.slots = header
    BY <2>4 DEF Fit, State, Alike
  <2> HIDE DEF taken, t
  <2>6. Alike(taken, t) /\ t.slots = header
    BY <1>3, <2>5 DEF State, AddKeyToKeychain, Alike
  <2>7. QED BY <2>4, <2>5, <2>6 DEF Fit, Alike, AvailablePart, SetupPart, SlotsKept, t
<1> HIDE DEF t
<1>4. QED BY <1>1, <1>2, <1>3 DEF t

LEMMA FitRemoveEncryptionKey ==
    ASSUME NEW s, Fit(s), NEW key \in AnyKey, NEW f
    PROVE  LET t == RemoveEncryptionKey(s, key, f).st
           IN  Fit(t) /\ t.authorized = s.authorized /\ t.setup = s.setup
<1> DEFINE held == {i \in Slot : s.slots[i] = key}
           header == [s.slots EXCEPT ![CHOOSE i \in held : TRUE] = FreeSlot]
           freed == [s EXCEPT !.slots = header]
           t == RemoveEncryptionKey(s, key, f).st
<1>1. t = s \/ t = RemoveKeyFromKeychain(freed, key)
  BY DEF RemoveEncryptionKey, Done, Failed, Fit, State
<1>2. header \in [Slot -> AnyKey \cup {FreeSlot}]
  BY DEF Fit, State
<1> HIDE DEF header
<1>3. Alike(s, freed)
  BY <1>2 DEF Fit, State, Alike
<1> HIDE DEF freed
<1>4. Alike(freed, RemoveKeyFromKeychain(freed, key))
  BY <1>3 DEF State, RemoveKeyFromKeychain, Alike
<1> HIDE DEF t
<1>5. QED BY <1>1, <1>3, <1>4 DEF Fit, Alike, AvailablePart, SetupPart, t

\* Alike states are fit together.
LEMMA FitAlike ==
    ASSUME NEW s, Fit(s), NEW t, Alike(s, t)
    PROVE  Fit(t)
BY DEF Fit, Alike, AvailablePart, SetupPart

LEMMA FitMountedWith ==
    ASSUME NEW s, Fit(s), NEW a \in AnyKey, NEW f \in Faults
    PROVE  LET m == MountedWith(s, a, f)
           IN  /\ Fit(m.st) /\ m.st.slots = s.slots
               /\ m.st.authorized = s.authorized /\ m.st.setup = s.setup
<1> DEFINE set == SetEncryptionKey(s, a)
<1>1. Alike(s, set) /\ set.slots = s.slots
  BY FitSetEncryptionKey DEF Fit
<1> HIDE DEF set
<1>2. LET m == MountFileSystem(set, f)
      IN  /\ Fit(m.st) /\ m.st.slots = s.slots
          /\ m.st.authorized = s.authorized /\ m.st.setup = s.setup
  <2>1. Fit(set) /\ set.authorized = s.authorized /\ set.setup = s.setup
    BY <1>1, FitAlike DEF Alike
  <2>2. QED BY <1>1, <2>1, FitMountFileSystem
<1>3. QED BY <1>2 DEF MountedWith, Done, set

\* A format forgets all keys but one; the volume is there after it.
LEMMA FitAuthorizeFormatting ==
    ASSUME NEW s, Fit(s), NEW key \in AnyKey, NEW f \in Faults
    PROVE  Fit(AuthorizeFormatting(s, key, f))
<1> DEFINE none == [s EXCEPT !.authorized = {}]
           ready == SetEncryptionKey(none, key)
           set == SetupFileSystem(ready, f)
<1>1. Fit(none) /\ none.authorized = {}
  BY DEF Fit, State, AvailablePart, SetupPart
<1> HIDE DEF none
<1>2. Fit(ready) /\ ready.authorized = {}
  <2>1. Alike(none, ready)
    BY <1>1, FitSetEncryptionKey DEF Fit
  <2>2. QED BY <1>1, <2>1, FitAlike DEF Alike
<1> HIDE DEF ready
<1>3. Fit(set.st) /\ (set.ok => set.st.setup)
  BY <1>2, FitSetupFileSystem
<1> HIDE DEF set
<1>4. set.ok => Fit([set.st EXCEPT !.authorized = {key}])
  BY <1>3 DEF Fit, State, AvailablePart, SetupPart
<1>5. QED BY <1>3, <1>4 DEF AuthorizeFormatting, set, ready, none

LEMMA FitAuthorizeAdding ==
    ASSUME NEW s, Fit(s), s.setup, NEW key \in AnyKey, NEW a \in AnyKey, NEW f \in Faults
    PROVE  LET t == AuthorizeAdding(s, key, a, f)
           IN  Fit(t) /\ SlotsKept(s, t)
<1> DEFINE m == MountedWith(s, a, f)
           added == AddEncryptionKey(m.st, key, a, f)
           t == [added.st EXCEPT !.authorized = @ \cup {key}]
<1>1. /\ Fit(m.st) /\ m.st.slots = s.slots
      /\ m.st.authorized = s.authorized /\ m.st.setup = s.setup
  BY FitMountedWith
<1> HIDE DEF m
<1>2. /\ Fit(added.st) /\ SlotsKept(m.st, added.st) /\ added.st.setup
  BY <1>1, FitAddEncryptionKey
<1> HIDE DEF added
<1>3. Fit(t) /\ t.slots = added.st.slots
  BY <1>2 DEF Fit, State, AvailablePart, SetupPart
<1> HIDE DEF t
<1>4. SlotsKept(s, m.st) /\ SlotsKept(s, added.st) /\ SlotsKept(s, t)
  BY <1>1, <1>2, <1>3 DEF SlotsKept
<1>5. QED BY <1>1, <1>2, <1>3, <1>4 DEF AuthorizeAdding, m, added, t

\* Only a format takes an authorized key's slot away.
LEMMA FitAuthorizeKey ==
    ASSUME NEW s, Fit(s), NEW key \in AnyKey, NEW format \in BOOLEAN,
           NEW a \in AnyKey, NEW f \in Faults
    PROVE  LET t == AuthorizeKey(s, key, format, a, f)
           IN  /\ Fit(t)
               /\ (format => s.authorized = {}) => SlotsKept(s, t)
<1> DEFINE t == AuthorizeKey(s, key, format, a, f)
<1>1. CASE key \in s.authorized
  BY <1>1 DEF AuthorizeKey, SlotsKept
<1>2. CASE key \notin s.authorized /\ (~s.setup \/ format)
  <2>1. t = AuthorizeFormatting(s, key, f)
    BY <1>2 DEF AuthorizeKey
  <2>2. Fit(t)
    BY <2>1, FitAuthorizeFormatting
  <2>3. (format => s.authorized = {}) => s.authorized = {}
    BY <1>2 DEF Fit, SetupPart
  <2>4. QED BY <2>2, <2>3 DEF SlotsKept
<1>3. CASE key \notin s.authorized /\ s.setup /\ ~format
  <2>1. t = IF s.authorized = {} THEN s ELSE AuthorizeAdding(s, key, a, f)
    BY <1>3 DEF AuthorizeKey
  <2>2. Fit(AuthorizeAdding(s, key, a, f)) /\ SlotsKept(s, AuthorizeAdding(s, key, a, f))
    BY <1>3, FitAuthorizeAdding
  <2>3. QED BY <2>1, <2>2 DEF SlotsKept
<1>4. QED BY <1>1, <1>2, <1>3

LEMMA FitRevokeKeyAuthorization ==
    ASSUME NEW s, Fit(s), NEW key \in AnyKey, NEW a \in AnyKey, NEW f \in Faults
    PROVE  Fit(RevokeKeyAuthorization(s, key, a, f))
<1> DEFINE m == MountedWith(s, a, f)
           removed == RemoveEncryptionKey(m.st, key, f)
           t == [removed.st EXCEPT !.authorized = @ \ {key}]
<1>1. Fit(m.st)
  BY FitMountedWith
<1> HIDE DEF m
<1>2. Fit(removed.st)
  BY <1>1, FitRemoveEncryptionKey
<1> HIDE DEF removed
<1>3. Fit(t)
  BY <1>2 DEF Fit, State, AvailablePart, SetupPart
<1> HIDE DEF t
<1>4. QED BY <1>1, <1>2, <1>3 DEF RevokeKeyAuthorization, m, removed, t

\* A key that is inserted may become an authorized one, of a volume that is there.
LEMMA FitTakeInserted ==
    ASSUME NEW s, Fit(s), NEW key \in AnyKey, NEW f \in Faults
    PROVE  LET t == TakeInserted(s, key, f)
           IN  Fit(t) /\ t.slots = s.slots /\ s.authorized \subseteq t.authorized
<1> DEFINE noted == [s EXCEPT !.inserted = @ \cup {key}]
           use == EncryptionKeyInUse(noted, key, f)
           t == [use.st EXCEPT !.authorized = @ \cup {key}]
<1>1. /\ Fit(noted) /\ noted.slots = s.slots
      /\ noted.authorized = s.authorized /\ noted.setup = s.setup
  BY DEF Fit, State, AvailablePart, SetupPart
<1> HIDE DEF noted
<1>2. /\ Fit(use.st) /\ use.st.slots = s.slots
      /\ use.st.authorized = s.authorized /\ use.st.setup = s.setup
  <2> DEFINE set == SetEncryptionKey(noted, key)
  <2>1. Alike(noted, set) /\ set.slots = noted.slots
    BY <1>1, FitSetEncryptionKey DEF Fit
  <2> HIDE DEF set
  <2>2. Fit(set) /\ set.authorized = s.authorized /\ set.setup = s.setup
    BY <1>1, <2>1, FitAlike DEF Alike
  <2>3. LET m == MountFileSystem(set, f)
        IN  /\ Fit(m.st) /\ m.st.slots = s.slots
            /\ m.st.authorized = s.authorized /\ m.st.setup = s.setup
    BY <1>1, <2>1, <2>2, FitMountFileSystem
  <2>4. QED BY <1>1, <2>3 DEF EncryptionKeyInUse, set
<1> HIDE DEF use
<1>3. s.setup => /\ Fit(t) /\ t.slots = s.slots
                 /\ t.authorized = s.authorized \cup {key}
  BY <1>2 DEF Fit, State, AvailablePart, SetupPart
<1> HIDE DEF t
<1>4. QED BY <1>1, <1>2, <1>3 DEF TakeInserted, noted, use, t

LEMMA FitCloseSecretsDB ==
    ASSUME NEW s, Fit(s), NEW f
    PROVE  LET t == CloseSecretsDB(s, f)
           IN  /\ Fit(t) /\ t.slots = s.slots /\ t.authorized = s.authorized
<1> DEFINE shut == [s EXCEPT !.secrets = FALSE]
<1>1. /\ shut \in State /\ shut.slots = s.slots /\ shut.authorized = s.authorized
      /\ SetupPart(shut)
  BY DEF Fit, State, SetupPart
<1> HIDE DEF shut
<1>2. QED BY <1>1, FitUnmountFileSystem DEF CloseSecretsDB, shut

LEMMA FitDisableKey ==
    ASSUME NEW s, Fit(s), NEW key \in Key, NEW f
    PROVE  LET t == DisableKey(s, key, f)
           IN  Fit(t) /\ t.slots = s.slots
<1> DEFINE out == [s EXCEPT !.inserted = @ \ {key}]
<1>1. Fit(out) /\ out.slots = s.slots
  BY DEF Fit, State, AvailablePart, SetupPart
<1> HIDE DEF out
<1> DEFINE dead == [out EXCEPT !.alive = FALSE]
<1>2. Fit(dead) /\ dead.slots = s.slots
  BY <1>1 DEF Fit, State, AvailablePart, SetupPart
<1> HIDE DEF dead
<1>3. Fit(CloseSecretsDB(out, f)) /\ CloseSecretsDB(out, f).slots = s.slots
  BY <1>1, FitCloseSecretsDB
<1>4. DisableKey(s, key, f) \in {out, dead, CloseSecretsDB(out, f)}
  BY DEF DisableKey, out, dead
<1>5. QED BY <1>1, <1>2, <1>3, <1>4

\* The system opens the database of a storage that is mounted, or mounts it.
LEMMA FitOpenSystem ==
    ASSUME NEW s, Fit(s), NEW f \in Faults
    PROVE  LET t == OpenSystem(s, f)
           IN  Fit(t) /\ t.slots = s.slots
<1> DEFINE ready == [s EXCEPT !.db = TRUE, !.opened = TRUE]
           metadata == [s EXCEPT !.db = TRUE]
<1>1. /\ ready \in State /\ ready.slots = s.slots /\ SetupPart(ready)
      /\ ready.mounted = s.mounted
  BY DEF Fit, State, SetupPart
<1>2. Fit(metadata) /\ metadata.slots = s.slots
  BY DEF Fit, State, AvailablePart, SetupPart
<1> HIDE DEF ready, metadata
<1>3. ASSUME s.mounted
      PROVE  LET t == OpenSecretsDB(ready, f)
             IN  Fit(t) /\ t.slots = s.slots
  <2>1. "database" \notin FaultKinds => f # "database"
    BY DEF Faults
  <2>2. QED
    BY <1>1, <1>3, <2>1 DEF State, OpenSecretsDB, Fit, AvailablePart, SetupPart
<1>4. ASSUME ~s.mounted
      PROVE  LET t == MountFileSystem(ready, f).st
             IN  Fit(t) /\ t.slots = s.slots
  BY <1>1, <1>4, FitMountFileSystem DEF Fit, AvailablePart
<1>5. QED BY <1>2, <1>3, <1>4 DEF OpenSystem, ready, metadata

LEMMA FitCloseSystem ==
    ASSUME NEW s, Fit(s), NEW f
    PROVE  LET t == CloseSystem(s, f)
           IN  Fit(t) /\ t.slots = s.slots /\ t.authorized = s.authorized
<1> DEFINE shut == IF s.secrets THEN CloseSecretsDB(s, f) ELSE s
           t == [shut EXCEPT !.db = FALSE, !.opened = FALSE]
<1>1. Fit(shut) /\ shut.slots = s.slots /\ shut.authorized = s.authorized
  BY FitCloseSecretsDB
<1> HIDE DEF shut
<1>2. Fit(t) /\ t.slots = s.slots /\ t.authorized = s.authorized
  BY <1>1 DEF Fit, State, AvailablePart, SetupPart
<1> HIDE DEF t
<1>3. QED BY <1>2 DEF CloseSystem, shut, t

\* onKeyAuthorizationQueried() formats for an authorizer that is sure of it.
LEMMA FitAuthorize ==
    ASSUME NEW s, Fit(s), NEW key \in AnyKey, NEW result, NEW f \in Faults,
           NEW t \in Authorize(s, key, result, f)
    PROVE  /\ Fit(t)
           /\ (result = "Exclusive" => s.authorized = {}) => SlotsKept(s, t)
<1>1. CASE result = "Denied"
  BY <1>1 DEF Authorize, SlotsKept
<1>2. CASE result # "Denied"
  <2>1. PICK a \in AnyAuthorized(s) :
            t = AuthorizeKey(s, key, result = "Exclusive", a, f)
    BY <1>2 DEF Authorize
  <2>2. a \in AnyKey
    BY DEF AnyAuthorized, AnyKey, Fit, State
  <2>3. (result = "Exclusive") \in BOOLEAN
    OBVIOUS
  <2>4. QED BY <2>1, <2>2, <2>3, FitAuthorizeKey
<1>3. QED BY <1>1, <1>2

\* The default authorizer formats only where there is no authorized key.
LEMMA FitDefaultAuthorize ==
    ASSUME NEW s, Fit(s), NEW key \in AnyKey, NEW f \in Faults,
           NEW t \in Authorize(s, key, DefaultResult(s), f)
    PROVE  Fit(t) /\ SlotsKept(s, t)
<1>1. DefaultResult(s) = "Exclusive" => s.authorized = {}
  BY DEF DefaultResult
<1>2. QED BY <1>1, FitAuthorize

\* What a step makes of a fit state, where nothing but the default authorizer
\* may format and nothing removes keys.
FitStep(t) == Fit(t) /\ (~Asks /\ ~Removes => SlotsKept(Now, t))

LEMMA FitQueryAuthorization ==
    ASSUME NEW s, Fit(s), NEW key \in AnyKey, NEW f \in Faults,
           QueryAuthorization(s, key, f)
    PROVE  Fit(Now') /\ (~Asks => SlotsKept(s, Now'))
<1>1. CASE Asks
  BY <1>1, NowBecomes DEF QueryAuthorization, Fit
<1>2. CASE ~Asks
  <2>1. PICK t \in Authorize(s, key, DefaultResult(s), f) : Become(t)
    BY <1>2 DEF QueryAuthorization
  <2>2. Fit(t) /\ SlotsKept(s, t)
    BY FitDefaultAuthorize
  <2>3. Now' = t
    BY <2>1, <2>2, NowBecomes DEF Fit
  <2>4. QED BY <2>2, <2>3
<1>3. QED BY <1>1, <1>2

\* Only an authorizer that asks has keys to answer for.
QueriesPart == ~Asks => queries = {}

LEMMA QueriesOnlyAsked == Spec => []QueriesPart
<1>1. Init => QueriesPart
  BY DEF Init, QueriesPart
<1>2. QueriesPart /\ [Next]_vars => QueriesPart'
  <2> SUFFICES ASSUME QueriesPart, [Next]_vars, ~Asks
               PROVE  queries' = {}
    BY DEF QueriesPart
  <2>1. queries = {}
    BY DEF QueriesPart
  <2>2. ASSUME NEW m \in KeyManager, NEW key \in AnyKey, KeyInserted(m, key)
        PROVE  queries' = {}
    BY <2>1, <2>2 DEF KeyInserted, QueryAuthorization
  <2>3. ASSUME NEW x \in Sender, CustomEvent(x)
        PROVE  queries' = {}
    BY <2>1, <2>3 DEF CustomEvent, AnswerEvent, QueryForEvent
  <2>4. ASSUME NEW key \in AnyKey, NEW result, KeyAuthorizationQueried(key, result)
        PROVE  queries' = {}
    BY <2>1, <2>4 DEF KeyAuthorizationQueried
  <2>5. CASE \E key \in Key : KeyDisabled(key) \/ KeyRemoved(key)
    BY <2>1, <2>5 DEF KeyDisabled, KeyRemoved, otherVars
  <2>6. CASE OpenCredentialsSystem \/ BackupStarts \/ Crash \/ Restart
    BY <2>1, <2>6 DEF OpenCredentialsSystem, BackupStarts, Crash, Restart, otherVars
  <2>7. CASE (\E x \in Sender : PostStorageEvent(x) \/ SenderDone(x)) \/ UNCHANGED vars
    BY <2>1, <2>7 DEF PostStorageEvent, SenderDone, vars, otherVars
  <2>8. QED
    BY <2>2, <2>3, <2>4, <2>5, <2>6, <2>7 DEF Next
<1>3. QED BY <1>1, <1>2, PTL DEF Spec

LEMMA FitNext ==
    ASSUME Fit(Now), QueriesPart, [Next]_vars
    PROVE  FitStep(Now')
<1>1. ASSUME NEW t, Fit(t), t.slots = Now.slots, Become(t)
      PROVE  FitStep(Now')
  <2>1. Now' = t
    BY <1>1, NowBecomes DEF Fit
  <2>2. QED BY <1>1, <2>1 DEF FitStep, SlotsKept
<1>2. CASE UNCHANGED stateVars
  BY <1>2, NowUnchanged DEF FitStep, SlotsKept
<1>3. ASSUME NEW m \in KeyManager, NEW key \in AnyKey, KeyInserted(m, key)
      PROVE  FitStep(Now')
  <2>1. CASE key = NoKey
    BY <1>2, <1>3, <2>1 DEF KeyInserted
  <2>2. CASE key # NoKey
    <3>1. PICK f \in Faults, g \in Faults :
              \/ Become(TakeInserted(Now, key, f))
              \/ QueryAuthorization(TakeInserted(Now, key, f), key, g)
      BY <1>3, <2>2 DEF KeyInserted
    <3> DEFINE taken == TakeInserted(Now, key, f)
    <3>2. Fit(taken) /\ taken.slots = Now.slots /\ Now.authorized \subseteq taken.authorized
      BY FitTakeInserted
    <3> HIDE DEF taken
    <3>3. CASE Become(taken)
      BY <1>1, <3>2, <3>3
    <3>4. CASE QueryAuthorization(taken, key, g)
      <4>1. Fit(Now') /\ (~Asks => SlotsKept(taken, Now'))
        BY <3>2, <3>4, FitQueryAuthorization
      <4>2. QED BY <3>2, <4>1 DEF FitStep, SlotsKept
    <3>5. QED BY <3>1, <3>3, <3>4 DEF taken
  <2>3. QED BY <2>1, <2>2
<1>4. ASSUME NEW key \in Key, KeyDisabled(key)
      PROVE  FitStep(Now')
  <2>1. PICK f \in Faults : Become(DisableKey(Now, key, f))
    BY <1>4 DEF KeyDisabled
  <2>2. QED BY <1>1, <2>1, FitDisableKey
<1>5. ASSUME NEW key \in Key, KeyRemoved(key)
      PROVE  FitStep(Now')
  <2>1. PICK f \in Faults, g \in Faults :
            LET disabled == DisableKey(Now, key, f)
            IN  \/ Become(disabled)
                \/ \E a \in AnyAuthorized(disabled) :
                      Become(RevokeKeyAuthorization(disabled, key, a, g))
    BY <1>5 DEF KeyRemoved
  <2> DEFINE disabled == DisableKey(Now, key, f)
  <2>2. Fit(disabled) /\ disabled.slots = Now.slots
    BY FitDisableKey
  <2> HIDE DEF disabled
  <2>3. CASE Become(disabled)
    BY <1>1, <2>2, <2>3
  <2>4. ASSUME NEW a \in AnyAuthorized(disabled),
               Become(RevokeKeyAuthorization(disabled, key, a, g))
        PROVE  FitStep(Now')
    <3>1. a \in AnyKey /\ key \in AnyKey
      BY <2>2 DEF AnyAuthorized, AnyKey, Fit, State
    <3>2. Fit(RevokeKeyAuthorization(disabled, key, a, g))
      BY <2>2, <3>1, FitRevokeKeyAuthorization
    <3>3. Removes
      BY <1>5 DEF KeyRemoved
    <3>4. QED BY <2>4, <3>2, <3>3, NowBecomes DEF Fit, FitStep
  <2>5. QED BY <2>1, <2>3, <2>4 DEF disabled
<1>6. ASSUME NEW key \in AnyKey, NEW result, KeyAuthorizationQueried(key, result)
      PROVE  FitStep(Now')
  <2>1. PICK f \in Faults : \E t \in Authorize(Now, key, result, f) : Become(t)
    BY <1>6 DEF KeyAuthorizationQueried
  <2>2. PICK t \in Authorize(Now, key, result, f) : Become(t)
    BY <2>1
  <2>3. Fit(t)
    BY FitAuthorize
  <2>4. Asks
    BY <1>6 DEF KeyAuthorizationQueried, QueriesPart
  <2>5. QED BY <2>2, <2>3, <2>4, NowBecomes DEF Fit, FitStep
<1>7. CASE OpenCredentialsSystem
  <2>1. PICK f \in Faults : Become(OpenSystem(Now, f))
    BY <1>7 DEF OpenCredentialsSystem
  <2>2. QED BY <1>1, <2>1, FitOpenSystem
<1>8. CASE BackupStarts
  <2>1. PICK f \in Faults, g \in Faults :
            \/ Become(CloseSystem(Now, f))
            \/ Become(OpenSystem(CloseSystem(Now, f), g))
    BY <1>8 DEF BackupStarts
  <2> DEFINE closed == CloseSystem(Now, f)
  <2>2. Fit(closed) /\ closed.slots = Now.slots
    BY FitCloseSystem
  <2> HIDE DEF closed
  <2>3. Fit(OpenSystem(closed, g)) /\ OpenSystem(closed, g).slots = Now.slots
    BY <2>2, FitOpenSystem
  <2>4. QED BY <1>1, <2>1, <2>2, <2>3 DEF closed
<1>9. ASSUME NEW x \in Sender, CustomEvent(x)
      PROVE  FitStep(Now')
  <2>1. CASE \E f \in Faults :
                \E t \in Authorize(Now, NoKey, DefaultResult(Now), f) : Become(t)
    <3>1. PICK f \in Faults :
              \E t \in Authorize(Now, NoKey, DefaultResult(Now), f) : Become(t)
      BY <2>1
    <3>2. PICK t \in Authorize(Now, NoKey, DefaultResult(Now), f) : Become(t)
      BY <3>1
    <3>3. Fit(t) /\ SlotsKept(Now, t)
      BY FitDefaultAuthorize DEF AnyKey
    <3>4. Now' = t
      BY <3>2, <3>3, NowBecomes DEF Fit
    <3>5. QED BY <3>3, <3>4 DEF FitStep
  <2>2. QED BY <1>2, <1>9, <2>1 DEF CustomEvent, AnswerEvent, QueryForEvent
<1>10. CASE Crash
  <2> DEFINE killed == [Now EXCEPT !.alive = FALSE]
  <2>1. Fit(killed) /\ killed.slots = Now.slots
    BY DEF Fit, State, AvailablePart, SetupPart
  <2>2. Become(killed)
    BY <1>10 DEF Crash
  <2> HIDE DEF killed
  <2>3. QED BY <1>1, <2>1, <2>2
<1>11. CASE Restart
  <2> DEFINE fresh == [Now EXCEPT !.mounted = FALSE, !.encryptionKey = NoKey,
                          !.inserted = {}, !.authorized = {}, !.alive = TRUE,
                          !.opened = FALSE, !.db = FALSE, !.secrets = FALSE]
  <2>1. Fit(fresh) /\ fresh.slots = Now.slots
    BY DEF Fit, State, AnyKey, AvailablePart, SetupPart
  <2>2. Become(fresh)
    BY <1>11 DEF Restart
  <2> HIDE DEF fresh
  <2>3. QED BY <1>1, <2>1, <2>2
<1>12. CASE (\E x \in Sender : PostStorageEvent(x) \/ SenderDone(x)) \/ UNCHANGED vars
  BY <1>2, <1>12 DEF PostStorageEvent, SenderDone, vars
<1>13. QED
  BY <1>3, <1>4, <1>5, <1>6, <1>7, <1>8, <1>9, <1>10, <1>11, <1>12 DEF Next

\* The state is fit throughout.
LEMMA AlwaysFit == Spec => []Fit(Now)
<1>1. Init => Fit(Now)
  BY DEF Init, Fit, Now, State, EmptyHeader, AnyKey, Kernel, AvailablePart, SetupPart
<1>2. Fit(Now) /\ QueriesPart /\ [Next]_vars => Fit(Now)'
  <2> SUFFICES ASSUME Fit(Now), QueriesPart, [Next]_vars
               PROVE  Fit(Now')
    BY DEF Fit, AvailablePart, SetupPart
  <2>1. QED BY FitNext DEF FitStep
<1>3. QED BY <1>1, <1>2, QueriesOnlyAsked, PTL DEF Spec

-----------------------------------------------------------------------------
(* The theorems *)

\* The state of the volume, the keys, the manager and the senders has its type
\* throughout: a header holds no key past its last slot, whatever fails.
THEOREM StorageTypeCorrect == Spec => []StorageTypeOK
<1>1. IInv => StorageTypeOK
  BY DEF IInv, Good, OthersTyped, StorageTypeOK
<1>2. QED BY <1>1, AlwaysGood, PTL

\* closeSecretsDB(), the signals of the mount and the opening of the system
\* never leave the secrets database open without its file system.
THEOREM SecretsOnMountedHolds == Spec => []SecretsOnMounted
<1>1. IInv => SecretsOnMounted
  BY DEF IInv, Good, DatabasePart, SecretsOnMounted, Now
<1>2. QED BY <1>1, AlwaysGood, PTL

\* If mount() does what it says, m_mountState is the kernel's.
THEOREM MountedReallyHolds == Spec => []MountedReally
<1>1. IInv => MountedReally
  BY DEF IInv, Good, KernelPart, MountedReally, Now
<1>2. QED BY <1>1, AlwaysGood, PTL

\* A key that encryptionKeyInUse() finds in the keychain file opens the volume,
\* whatever steps fail, mount() excepted.
THEOREM KeychainHasSlotsHolds == Spec => []KeychainHasSlots
<1>1. IInv => KeychainHasSlots
  BY DEF IInv, Good, KeychainPart, KeychainHasSlots, Opens, Now
<1>2. QED BY <1>1, AlwaysGood, PTL

\* Where no key manager removes a key, each authorized key opens the volume:
\* authorizing, formatting, restarting and failing steps never break that.
THEOREM AuthorizedHaveSlotsHolds ==
    ASSUME ~Removes, "mount" \notin FaultKinds
    PROVE  Spec => []AuthorizedHaveSlots
<1>1. IInv => AuthorizedHaveSlots
  BY DEF IInv, Good, HeldPart, AuthorizedHaveSlots, Opens, Now
<1>2. QED BY <1>1, AlwaysGood, PTL

\* The two roads to openSecretsDB(), the signal of a mount and the opening of
\* the system, leave no mounted storage with its database closed.
THEOREM SecretsAvailableHolds == Spec => []SecretsAvailable
<1>1. Fit(Now) => SecretsAvailable
  BY DEF Fit, AvailablePart, SecretsAvailable, Now
<1>2. QED BY <1>1, AlwaysFit, PTL

\* With the default authorizer, and where no key manager removes a key, no step,
\* whatever in it fails, takes the slot of an authorized key.
THEOREM AuthorizedKeepSlotsHolds ==
    ASSUME ~Asks, ~Removes
    PROVE  Spec => AuthorizedKeepSlots
<1>1. ASSUME Fit(Now), QueriesPart, [Next]_vars
      PROVE  [\A i \in Slot : slots[i] \in authorized => slots'[i] = slots[i]]_vars
  <2>1. SlotsKept(Now, Now')
    BY <1>1, FitNext DEF FitStep
  <2>2. QED BY <2>1 DEF SlotsKept, Now
<1>2. QED
  BY <1>1, AlwaysFit, QueriesOnlyAsked, PTL DEF Spec, AuthorizedKeepSlots
=============================================================================
