---------------------------- MODULE AsyncDBusProxy ----------------------------
(* How the client library calls the daemon: ConnectionManager, which keeps   *)
(* the connection to the daemon's socket and has the daemon started when     *)
(* there is none; AsyncDBusProxy, which queues the calls of a client object  *)
(* until it has a connection and the path of the remote object; PendingCall, *)
(* one such call.                                                            *)
(*                                                                           *)
(* The operations are operators on the client's state k.  The client object  *)
(* has its own proxy, Main; to register its remote object it makes a service *)
(* proxy with one call, and deletes both when the call has ended.  What a    *)
(* proxy tells its client object by a signal (objectPathNeeded, error) is    *)
(* left to the module of that object: the calls that a proxy fails are       *)
(* "failed" until the object has been told.                                  *)
EXTENDS Naturals, FiniteSets, Sequences, FiniteSetsExt

CONSTANTS Operation, \* bound: calls of the client object at one time
          Service    \* bound: registrations at one time; each with its call

Main == 0
ASSUME CallsAssumption == /\ Operation \subseteq Nat /\ Service \subseteq Nat
                          /\ Main \notin Service /\ Operation \cap Service = {}
                          /\ IsFiniteSet(Operation) /\ IsFiniteSet(Service) /\ Service # {}

Call == Operation \cup Service
Proxy == {Main} \cup Service
ProxyOf(c) == IF c \in Service THEN c ELSE Main

Ops == {"register", "getInfo", "store", "remove", "verify", "process", "cancel", "setId",
        "mechanisms", "query"}

\* A call that has been sent waits for its reply.
PendingCall == [st : {"free", "queued", "sent", "failing", "failed"}, op : Ops,
                watched : BOOLEAN,       \* m_watcher: it has been sent before
                cut : BOOLEAN,           \* m_interfaceWasDestroyed
                lost : BOOLEAN,          \* its connection has been lost
                old : BOOLEAN,           \* its remote object is gone
                told : 0..2,             \* results and errors it has reported
                unnoticed : BOOLEAN]     \* it was made, or has failed, in Invalid

FreeCall == [st |-> "free", op |-> "register", watched |-> FALSE, cut |-> FALSE, lost |-> FALSE,
             old |-> FALSE, told |-> 0, unnoticed |-> FALSE]

\* conn: a connection is copied from the manager's, and dies with it.
ProxyState == [used : BOOLEAN, conn : {"none", "live", "dead"}, path : BOOLEAN,
               status : {"Incomplete", "Ready", "Invalid"}]
NoProxy == [used |-> FALSE, conn |-> "none", path |-> FALSE, status |-> "Incomplete"]

FreeCalls(k, slots) == {c \in slots : k.call[c].st = "free"}
Failed(k) == {c \in Call : k.call[c].st = "failed"}
UsedProxies(k) == {p \in Proxy : k.proxy[p].used}

-----------------------------------------------------------------------------
\* PendingCall.

\* doCall().
Sent(call, dead) ==
    [call EXCEPT !.st = "sent", !.watched = TRUE, !.cut = FALSE, !.lost = dead, !.old = FALSE]

DoCall(k, c) == [k EXCEPT !.call[c] = Sent(@, k.proxy[ProxyOf(c)].conn = "dead")]

\* success() or error() is emitted.
Tell(k, cs) ==
    LET Told(call) == [call EXCEPT !.told = @ + 1]
    IN  [k EXCEPT !.call = [c \in Call |-> IF c \in cs THEN Told(@[c]) ELSE @[c]]]

\* finished(): the call is removed from the queue, and deleted; deleteServiceProxy()
\* deletes the proxy of a registration.
EndCalls(k, cs) ==
    [k EXCEPT !.call = [c \in Call |-> IF c \in cs THEN FreeCall ELSE @[c]],
              !.proxy = [p \in Proxy |-> IF p \in cs THEN NoProxy ELSE @[p]],
              !.ended = @ \cup {[told |-> k.call[c].told, unnoticed |-> k.call[c].unnoticed]
                                : c \in cs \cap Operation}]

\* onFinished(): what is to be tried again.
ToRequeue(call, result) == call.cut /\ result \in {"unknown", "disconnected"}

-----------------------------------------------------------------------------
\* AsyncDBusProxy.

\* A defect: calls that wait are not sent.
AtStatusUnsent(call, status) ==
    IF call.st = "queued" /\ status = "Invalid" THEN [call EXCEPT !.st = "failed"] ELSE call

\* setStatus(): what becomes of a call in the queue.
AtStatus(call, status) ==
    CASE call.st = "queued" /\ status = "Ready" -> Sent(call, FALSE)
      [] call.st = "queued" /\ status = "Invalid" -> [call EXCEPT !.st = "failed"]
      [] OTHER -> call

SetError(k, p) ==
    [k EXCEPT !.proxy[p].status = "Invalid",
              !.call = [c \in Call |-> IF ProxyOf(c) = p THEN AtStatus(@[c], "Invalid") ELSE @[c]]]

\* A proxy that finds its connection lost, before it is told, is Invalid.
StatusOf(proxy) ==
    CASE proxy.conn = "none" \/ ~proxy.path -> "Incomplete"
      [] proxy.conn = "dead" /\ proxy.path -> "Invalid"
      [] proxy.conn = "live" /\ proxy.path -> "Ready"

\* update(), of several proxies.  The interface is deleted first: what has been
\* sent through it is cut (onInterfaceDestroyed()).
Update(k, ps) ==
    LET Updated(call, status) ==
            [AtStatus(call, status) EXCEPT
                !.cut = @ \/ call.st = "sent",
                !.unnoticed = @ \/ (call.st = "queued" /\ status = "Invalid")]
    IN  [k EXCEPT
            !.proxy = [p \in Proxy |-> IF p \in ps THEN [@[p] EXCEPT !.status = StatusOf(k.proxy[p])]
                                       ELSE @[p]],
            !.call = [c \in Call |-> IF ProxyOf(c) \in ps
                                     THEN Updated(@[c], StatusOf(k.proxy[ProxyOf(c)]))
                                     ELSE @[c]]]

SetObjectPath(k, p, path) == Update([k EXCEPT !.proxy[p].path = path], {p})

\* setConnection(), of every proxy.
SetConnection(k) ==
    Update([k EXCEPT !.proxy = [p \in Proxy |-> IF @[p].used THEN [@[p] EXCEPT !.conn = "live"]
                                                ELSE @[p]]], UsedProxies(k))

\* setDisconnected(), of every proxy: the daemon is dead, so the paths are invalid.
SetDisconnected(k) ==
    Update([k EXCEPT !.proxy = [p \in Proxy |-> [@[p] EXCEPT !.conn = "none", !.path = FALSE]]],
           UsedProxies(k))

-----------------------------------------------------------------------------
\* ConnectionManager.  The daemon listens, or does not.

\* init(): the daemon is activated when its socket is not there.
InitConnection(k, daemon) ==
    IF k.service = "activating" THEN k
    ELSE IF daemon THEN SetConnection([k EXCEPT !.link = "up"])
    ELSE [k EXCEPT !.service = "activating", !.starting = TRUE]

\* connect(), when a proxy needs a connection.
Connect(k, daemon) == IF k.link = "up" THEN SetConnection(k) ELSE InitConnection(k, daemon)

\* onActivationDone().  A failure leaves m_serviceStatus as it is.
OnActivationDone(k, ok) ==
    LET done == [k EXCEPT !.starting = FALSE]
    IN  IF ok THEN InitConnection([done EXCEPT !.service = "activated"], TRUE) ELSE done

OnDisconnected(k) == SetDisconnected([k EXCEPT !.service = "unknown"])

-----------------------------------------------------------------------------
\* enqueue(), without what follows from objectPathNeeded().
Enqueue(k, c, daemon) ==
    LET q == [k EXCEPT !.call[c].st = "queued"]
    IN  IF q.proxy[ProxyOf(c)].conn = "none" THEN Connect(q, daemon) ELSE q

\* A call that is made in Invalid fails at the next turn of the event loop.
NewCall(k, c, op) ==
    [k EXCEPT !.call[c] = [FreeCall EXCEPT !.op = op,
                                           !.unnoticed = k.proxy[ProxyOf(c)].status = "Invalid"]]

\* queueCall(), without it too.
QueueCall(k, c, op, daemon) ==
    LET new == NewCall(k, c, op)
    IN  CASE k.proxy[ProxyOf(c)].status = "Ready" -> DoCall(new, c)
          [] k.proxy[ProxyOf(c)].status = "Incomplete" -> Enqueue(new, c, daemon)
          [] k.proxy[ProxyOf(c)].status = "Invalid" -> [new EXCEPT !.call[c].st = "failing"]

\* Whether objectPathNeeded() has been emitted for a call that has been queued;
\* nobody hears a service proxy.
PathNeeded(k, c) == c \in Operation /\ k.call[c].st = "queued" /\ ~k.proxy[Main].path

\* SignondAsyncDBusProxy::setupConnection(), and the daemon's own path.
NewService(k, s) ==
    LET new == [NoProxy EXCEPT !.used = TRUE, !.path = TRUE,
                               !.conn = IF k.link = "up" THEN "live" ELSE "none"]
    IN  Update([k EXCEPT !.proxy[s] = new], {s})

\* The registration that the client objects ask for.
CallRegister(k, daemon) ==
    LET s == Min({t \in Service : ~k.proxy[t].used})
    IN  QueueCall(NewService(k, s), s, "register", daemon)
=============================================================================
