---------------------------- MODULE AuthServiceImpl ----------------------------
(* The client's side of the daemon itself, on its AsyncDBusProxy: queries    *)
(* of methods, mechanisms and identities, and clear().  The daemon's path is *)
(* known from the start.  A reply about mechanisms does not name its method: *)
(* the methods that were asked about are kept in a queue, here as the calls  *)
(* that asked.                                                               *)
EXTENDS AsyncDBusProxy

\* The constructor.
ServiceObject(k) == SetObjectPath(k, Main, TRUE)

\* sendRequest().  Nobody hears this proxy when it needs a path.
SendRequest(k, c, op, daemon) == QueueCall(k, c, op, daemon)
RequeueServiceCall(k, c, daemon) == Enqueue(k, c, daemon)

\* queryMechanisms().
QueryMechanisms(k, daemon) ==
    LET c == Min(FreeCalls(k, Operation))
    IN  [SendRequest(k, c, "mechanisms", daemon) EXCEPT !.methods = Append(@, c)]

\* queryMethods(), queryIdentities(), clear().
QueryService(k, daemon) == SendRequest(k, Min(FreeCalls(k, Operation)), "query", daemon)

Dequeued(k) == [k EXCEPT !.methods = IF @ = << >> THEN @ ELSE Tail(@)]

\* queryMechanismsReply(), and the other replies.  What is reported for another
\* method is not this call's result.
ServiceReply(k, c) ==
    IF k.call[c].op # "mechanisms" THEN Tell(k, {c})
    ELSE Tell(Dequeued(k), IF k.methods # << >> /\ Head(k.methods) = c THEN {c} ELSE {})

\* queryMechanismsError(), errorReply().
ServiceErrorReply(k, c) ==
    Tell(IF k.call[c].op = "mechanisms" THEN Dequeued(k) ELSE k, {c})
=============================================================================
