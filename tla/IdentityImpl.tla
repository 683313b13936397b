----------------------------- MODULE IdentityImpl -----------------------------
(* The client's side of an identity, on its AsyncDBusProxy: it registers a   *)
(* remote object, keeps the information it has read from it, and moves one   *)
(* state variable with the replies and signals of all its calls.             *)
(*                                                                           *)
(* The information is its version in the daemon's database.  Not modelled:   *)
(* which of info() and methodsAvailable() answers a getInfo, and the list of *)
(* the identity's own sessions.                                              *)
EXTENDS AsyncDBusProxy

CONSTANT MaxVersion \* bound: changes of the stored identity
ASSUME MaxVersionAssumption == MaxVersion \in Nat \ {0}

NoVersion == 0 \* nothing is known, or nothing is stored
Version == 0..MaxVersion

IdentityStates == {"PendingRegistration", "NeedsRegistration", "PendingUpdate", "Removed", "Ready"}

-----------------------------------------------------------------------------
\* sendRegisterRequest(), also the receiver of objectPathNeeded().
RegisterIdentity(k, daemon) ==
    IF k.state = "PendingRegistration" THEN k
    ELSE [CallRegister(k, daemon) EXCEPT !.state = "PendingRegistration"]

RegisterIfNeeded(k, c, daemon) == IF PathNeeded(k, c) THEN RegisterIdentity(k, daemon) ELSE k

CallIdentity(k, c, op, daemon) == RegisterIfNeeded(QueueCall(k, c, op, daemon), c, daemon)
RequeueIdentityCall(k, c, daemon) == RegisterIfNeeded(Enqueue(k, c, daemon), c, daemon)

\* updateContents().  It is Ready that is left, or a registration that fails or
\* succeeds in between.
UpdateContents(k, daemon) ==
    LET c == Min(FreeCalls(k, Operation))
    IN  [CallIdentity(k, c, "getInfo", daemon) EXCEPT !.state = "PendingUpdate"]

\* errorReply(), of several calls: the errors of the daemon's own leave the state
\* alone.
ErrorReply(k, cs, result) ==
    LET told == Tell(k, cs)
    IN  IF cs # {} /\ result # "denied" /\ k.state = "PendingRegistration"
        THEN [told EXCEPT !.state = "NeedsRegistration"] ELSE told

IdentityCallsFailed(k) == EndCalls(ErrorReply(k, Failed(k), "disconnected"), Failed(k))

-----------------------------------------------------------------------------
\* A defect: the information that is there is kept.
RegisterReplyKeeping(k, info) ==
    [IdentityCallsFailed(SetObjectPath(k, Main, TRUE)) EXCEPT !.state = "Ready"]

\* registerReply(): getIdentity() returns the information, registerNewIdentity()
\* has none.
RegisterReply(k, info) ==
    LET cached == [k EXCEPT !.info = IF k.known THEN info ELSE k.info]
    IN  [IdentityCallsFailed(SetObjectPath(cached, Main, TRUE)) EXCEPT !.state = "Ready"]

\* getInfoReply().
GetInfoReply(k, info) == [k EXCEPT !.info = info, !.state = "Ready"]

\* storeCredentialsReply().
StoreCredentialsReply(k) == [k EXCEPT !.known = TRUE]

\* removeReply().
RemoveReply(k) == [k EXCEPT !.info = NoVersion, !.known = FALSE, !.state = "Removed"]

IdentityReply(k, c, info) ==
    LET told == Tell(k, {c})
    IN  CASE k.call[c].op = "register" -> RegisterReply(told, info)
          [] k.call[c].op = "getInfo" -> GetInfoReply(told, info)
          [] k.call[c].op = "store" -> StoreCredentialsReply(told)
          [] k.call[c].op = "remove" -> RemoveReply(told)
          [] OTHER -> told

\* A defect: what has changed is not asked for.
InfoUpdatedWaiting(k, daemon) == [k EXCEPT !.state = "NeedsUpdate"]

\* infoUpdated().  NeedsUpdate is left at once.
InfoUpdated(k, daemon) == UpdateContents(k, daemon)
InfoRemoved(k) == [k EXCEPT !.state = "Removed"]

\* remoteObjectDestroyed().
IdentityObjectDestroyed(k) ==
    [SetObjectPath(k, Main, FALSE) EXCEPT !.state = "NeedsRegistration"]

-----------------------------------------------------------------------------
\* What the application calls.

\* queryInfo(), queryAvailableMethods(): answered from here in Ready.
QueryInfo(k, daemon) == IF k.state = "Ready" THEN k ELSE UpdateContents(k, daemon)

\* storeCredentials(): to store is to register again after a removal.
StoreCredentials(k, daemon) ==
    LET c == Min(FreeCalls(k, Operation))
        stored == IF k.state = "Removed" THEN [k EXCEPT !.state = "NeedsRegistration"] ELSE k
    IN  CallIdentity(stored, c, "store", daemon)
=============================================================================
