----------------------------- MODULE KeyHandler -----------------------------
(* The keys to the secure storage: KeyHandler, as operators on the state of  *)
(* CryptoManager.  A key of the authorized ones, a, is given to the calls    *)
(* that take any of them: the first of a hash set.                           *)
EXTENDS CryptoManager

AuthorizedInserted(s) == s.authorized \cap s.inserted

\* authorizeKey(), when the storage is to be formatted: the authorized keys are
\* forgotten, then setupFileSystem() is called, which may refuse.
AuthorizeFormatting(s, key, f) ==
    LET set == SetupFileSystem(
                   SetEncryptionKey([s EXCEPT !.authorized = {}], key), f)
    IN  IF set.ok
        THEN [set.st EXCEPT !.authorized = {key}]
        ELSE set.st

\* The storage, mounted with the authorized key a when it is not mounted.
MountedWith(s, a, f) ==
    IF s.mounted THEN Done(s) ELSE MountFileSystem(SetEncryptionKey(s, a), f)

\* Mutant: the result of addEncryptionKey() is not looked at.
AuthorizeUnadded(s, key, a, f) ==
    LET mounted == MountedWith(s, a, f)
        added == AddEncryptionKey(mounted.st, key, a, f)
    IN  IF mounted.ok THEN [added.st EXCEPT !.authorized = @ \cup {key}] ELSE mounted.st

\* authorizeKey(), when the key is to be added to those of the storage.
AuthorizeAdding(s, key, a, f) ==
    LET mounted == MountedWith(s, a, f)
        added == AddEncryptionKey(mounted.st, key, a, f)
    IN  CASE ~mounted.ok -> mounted.st
          [] mounted.ok /\ ~added.ok -> added.st
          [] OTHER -> [added.st EXCEPT !.authorized = @ \cup {key}]

\* authorizeKey().
AuthorizeKey(s, key, format, a, f) ==
    CASE key \in s.authorized -> s
      [] key \notin s.authorized /\ (~s.setup \/ format) ->
             AuthorizeFormatting(s, key, f)
      [] OTHER ->
             IF s.authorized = {} THEN s ELSE AuthorizeAdding(s, key, a, f)

\* revokeKeyAuthorization(): mounts the storage, if need be, to remove the key,
\* and leaves it mounted.
RevokeKeyAuthorization(s, key, a, f) ==
    LET mounted == MountedWith(s, a, f)
        removed == RemoveEncryptionKey(mounted.st, key, f)
    IN  CASE ~s.setup \/ s.authorized = {} -> s
          [] s.setup /\ s.authorized # {} /\ ~mounted.ok -> mounted.st
          [] OTHER -> IF removed.ok
                      THEN [removed.st EXCEPT !.authorized = @ \ {key}]
                      ELSE removed.st

\* The part of onKeyInserted() that precedes its signal.
TakeInserted(s, key, f) ==
    LET noted == [s EXCEPT !.inserted = @ \cup {key}]
        use == EncryptionKeyInUse(noted, key, f)
    IN  CASE ~s.setup -> noted
          [] s.setup /\ use.ok -> [use.st EXCEPT !.authorized = @ \cup {key}]
          [] OTHER -> use.st
=============================================================================
