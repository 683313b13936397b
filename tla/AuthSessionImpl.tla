---------------------------- MODULE AuthSessionImpl ----------------------------
(* The client's side of an authentication session, on its AsyncDBusProxy: it *)
(* asks the daemon for the path of its session, processes one request at a   *)
(* time, m_processCall, and cancels it.                                      *)
EXTENDS AsyncDBusProxy

NoProcess == 0 \* m_processCall is NULL
ASSUME NoProcessAssumption == NoProcess \notin Operation

\* initInterface(), also the receiver of objectPathNeeded().
InitInterface(k, daemon) ==
    IF k.registering THEN k ELSE CallRegister([k EXCEPT !.registering = TRUE], daemon)

InitIfNeeded(k, c, daemon) == IF PathNeeded(k, c) THEN InitInterface(k, daemon) ELSE k

\* send2interface().
Send2Interface(k, c, op, daemon) == InitIfNeeded(QueueCall(k, c, op, daemon), c, daemon)
RequeueSessionCall(k, c, daemon) == InitIfNeeded(Enqueue(k, c, daemon), c, daemon)

-----------------------------------------------------------------------------
\* errorSlot() for calls that the proxy fails when nothing is being registered.
SessionCallsFailed(k) ==
    LET failed == Failed(k)
    IN  [EndCalls(Tell(k, failed), failed) EXCEPT
            !.process = IF failed = {} THEN @ ELSE NoProcess]

\* errorSlot() while something is being registered: whatever has failed, all that
\* waits fails, and the object is to be registered anew.
RegistrationFailed(k) ==
    LET over == [k EXCEPT !.registering = FALSE, !.process = NoProcess]
    IN  SetObjectPath(SessionCallsFailed(SetError(over, Main)), Main, FALSE)

\* A defect: only the error of a request is reported.
ErrorSlotQuiet(k, c) ==
    IF k.registering THEN RegistrationFailed(k)
    ELSE IF k.process = NoProcess THEN k
    ELSE Tell([k EXCEPT !.process = NoProcess], {c})

ErrorSlot(k, c) ==
    IF k.registering THEN RegistrationFailed(k)
    ELSE Tell([k EXCEPT !.process = NoProcess], {c})

-----------------------------------------------------------------------------
\* authenticationSlot().  When the connection is lost meanwhile the proxy fails
\* what waits before the registration is over: errorSlot() takes the first of
\* them for the registration, and has all of them fail again.
AuthenticationSlot(k) ==
    LET set == SetObjectPath(k, Main, TRUE)
        waiting == Failed(set)
    IN  IF waiting = {} THEN [set EXCEPT !.registering = FALSE]
        ELSE RegistrationFailed(SessionCallsFailed(Tell(set, waiting \ {Min(waiting)})))

\* responseSlot(), and the other replies.
SessionReply(k, c) ==
    CASE k.call[c].op = "register" -> AuthenticationSlot(k)
      [] k.call[c].op = "process" -> Tell([k EXCEPT !.process = NoProcess], {c})
      [] OTHER -> Tell(k, {c})

\* unregisteredSlot().
SessionObjectDestroyed(k) == SetObjectPath(k, Main, FALSE)

-----------------------------------------------------------------------------
\* What the application calls.

\* process(), when no other is.
Process(k, daemon) ==
    LET c == Min(FreeCalls(k, Operation))
    IN  [Send2Interface(k, c, "process", daemon) EXCEPT !.process = c]

\* cancel(): a call that has never been sent ends here (PendingCall::cancel()),
\* but for a failure that is on its way; the daemon cancels any other.
Cancel(k, daemon) ==
    LET c == k.process
        over == [k EXCEPT !.process = NoProcess]
    IN  IF c # NoProcess /\ ~k.call[c].watched
        THEN IF k.call[c].st = "failing" THEN Tell(over, {c}) ELSE EndCalls(Tell(over, {c}), {c})
        ELSE Send2Interface(over, Min(FreeCalls(k, Operation)), "cancel", daemon)

\* setId(), queryAvailableMechanisms().
SetId(k, daemon) == Send2Interface(k, Min(FreeCalls(k, Operation)), "setId", daemon)
=============================================================================
