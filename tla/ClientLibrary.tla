----------------------------- MODULE ClientLibrary -----------------------------
(* An application with one object of the client library, an Identity, an     *)
(* AuthSession or the AuthService, and the daemon at the other end of the    *)
(* connection.  Each call of the application, each message read, and each    *)
(* posted event of the client is one turn of its event loop.                 *)
(*                                                                           *)
(* The messages of the daemon are read in their order; the daemon answers    *)
(* calls in any order, as those that wait for signon-ui do, but queries of   *)
(* mechanisms at once and so in theirs.  The connection is lost with the     *)
(* daemon: what it had sent is still read, then come the errors of the calls *)
(* without a reply and the signal Disconnected, in any order, and what comes *)
(* of a later connection after that.  The peer connection is modelled, not   *)
(* the session bus that takes its place where there is no socket.            *)
EXTENDS IdentityImpl, AuthSessionImpl, AuthServiceImpl, SequencesExt

CONSTANTS Objects, \* the kinds of object, one of which the application has
          MaxLost, \* bound: connections lost and remote objects destroyed, together
          Faults   \* what else goes wrong

ASSUME ObjectsAssumption == Objects \subseteq {"new", "stored", "session", "service"} /\ Objects # {}
ASSUME FaultsAssumption == Faults \subseteq {"denied", "activation"} /\ MaxLost \in Nat

VARIABLES object,  \* the object
          k,       \* the client's state
          inbox,   \* the messages that have come from the daemon
          daemon,  \* it runs
          remote,  \* it has the remote object
          version, \* what it has stored of the identity
          lost     \* what has been lost

vars == <<object, k, inbox, daemon, remote, version, lost>>

Message == [type : {"reply"}, call : Call, result : {"ok", "denied", "unknown"}, info : Version]
               \cup [type : {"updated", "removed", "unregistered"}]
Signal(type) == [type |-> type]

Client == [proxy : [Proxy -> ProxyState], call : [Call -> PendingCall],
           ended : SUBSET [told : 0..2, unnoticed : BOOLEAN], \* what this step has ended
           link : {"none", "up", "dropped"},        \* m_connection
           service : {"unknown", "activating", "activated"}, \* m_serviceStatus
           starting : BOOLEAN,                      \* an activation has not been answered
           state : IdentityStates, info : Version, known : BOOLEAN,
           registering : BOOLEAN, process : Operation \cup {NoProcess},
           methods : Seq(Operation)] \* m_methodsForWhichMechsWereQueried

TypeOK ==
    /\ object \in Objects
    /\ k \in Client
    /\ inbox \in Seq(Message)
    /\ daemon \in BOOLEAN /\ remote \in BOOLEAN
    /\ version \in Version
    /\ lost \in [links : 0..MaxLost,       \* connections
                unsignalled : 0..MaxLost, \* those whose end is not signalled yet
                objects : 0..MaxLost,     \* remote objects
                unheard : BOOLEAN]        \* a change, since the object was registered

IsSession == object = "session"
IsService == object = "service"
IsIdentity == ~IsSession /\ ~IsService

NoCalls == [proxy |-> [p \in Proxy |-> [NoProxy EXCEPT !.used = (p = Main)]],
            call |-> [c \in Call |-> FreeCall], ended |-> {}, link |-> "none",
            service |-> "unknown", starting |-> FALSE, state |-> "NeedsRegistration",
            info |-> NoVersion, known |-> FALSE, registering |-> FALSE, process |-> NoProcess,
            methods |-> << >>]

\* The constructors set up the connection, and register.
Init ==
    /\ object \in Objects
    /\ daemon \in BOOLEAN
    /\ k = LET new == InitConnection([NoCalls EXCEPT !.known = (object # "new")], daemon)
           IN  CASE IsSession -> InitInterface(new, daemon)
                 [] IsService -> ServiceObject(new)
                 [] IsIdentity -> RegisterIdentity(new, daemon)
    /\ version = IF object = "new" THEN NoVersion ELSE 1
    /\ inbox = << >> /\ remote = FALSE
    /\ lost = [links |-> 0, unsignalled |-> 0, objects |-> 0, unheard |-> FALSE]

Now == [k EXCEPT !.ended = {}]

-----------------------------------------------------------------------------
\* The application.  The bounds leave room for the calls that follow from
\* signals and from other calls.
Signals == {i \in DOMAIN inbox : inbox[i].type = "updated"}
Storing == {c \in Operation : k.call[c].st # "free" /\ k.call[c].op = "store"}
Following == Cardinality(Signals) + Cardinality(Storing)
Retried == {c \in Operation : k.call[c].st = "sent"}
Room == /\ Cardinality({s \in Service : ~k.proxy[s].used}) > Cardinality(Retried)
        /\ Cardinality(FreeCalls(k, Operation)) > Following

ClientOnly == UNCHANGED <<object, inbox, daemon, remote, version, lost>>

Query == /\ IsIdentity /\ Room /\ k.state # "Removed"
         /\ k' = QueryInfo(Now, daemon)
         /\ ClientOnly

\* requestCredentialsUpdate(), verifyUser(), addReference() and their like.
Verify == /\ IsIdentity /\ Room /\ k.state # "Removed"
          /\ k' = CallIdentity(Now, Min(FreeCalls(k, Operation)), "verify", daemon)
          /\ ClientOnly

StoreIdentity == /\ IsIdentity /\ Room
                 /\ Cardinality(FreeCalls(k, Operation)) > Following + 1
                 /\ k' = StoreCredentials(Now, daemon)
                 /\ ClientOnly

RemoveIdentity == /\ IsIdentity /\ Room /\ k.known
                  /\ k' = CallIdentity(Now, Min(FreeCalls(k, Operation)), "remove", daemon)
                  /\ ClientOnly

ProcessRequest == /\ IsSession /\ Room /\ k.process = NoProcess
                  /\ k' = Process(Now, daemon)
                  /\ ClientOnly

CancelRequest == /\ IsSession /\ Room
                 /\ k' = Cancel(Now, daemon)
                 /\ ClientOnly

ChangeId == /\ IsSession /\ Room
            /\ k' = SetId(Now, daemon)
            /\ ClientOnly

AskMechanisms == /\ IsService /\ Room
                 /\ k' = QueryMechanisms(Now, daemon)
                 /\ ClientOnly

AskService == /\ IsService /\ Room
              /\ k' = QueryService(Now, daemon)
              /\ ClientOnly

-----------------------------------------------------------------------------
\* The client's event loop.

\* PendingCall::onFinished().
OnFinished(r, c, result, info) ==
    IF ToRequeue(r.call[c], result)
    THEN CASE IsSession -> RequeueSessionCall(r, c, daemon)
           [] IsService -> RequeueServiceCall(r, c, daemon)
           [] IsIdentity -> RequeueIdentityCall(r, c, daemon)
    ELSE EndCalls(CASE result = "ok" /\ IsSession -> SessionReply(r, c)
                   [] result = "ok" /\ IsService -> ServiceReply(r, c)
                   [] result = "ok" /\ IsIdentity -> IdentityReply(r, c, info)
                   [] result # "ok" /\ IsSession -> ErrorSlot(r, c)
                   [] result # "ok" /\ IsService -> ServiceErrorReply(r, c)
                   [] result # "ok" /\ IsIdentity -> ErrorReply(r, {c}, result), {c})

\* The bound on registrations: a call that is tried again may ask for one.
RoomToRetry(c, result) ==
    c \in Operation /\ ToRequeue(k.call[c], result) =>
        \/ k.proxy[Main].path
        \/ IF IsSession THEN k.registering ELSE k.state = "PendingRegistration"
        \/ \E s \in Service : ~k.proxy[s].used

ReadReply ==
    /\ inbox # << >> /\ Head(inbox).type = "reply"
    /\ RoomToRetry(Head(inbox).call, Head(inbox).result)
    /\ k' = OnFinished(Now, Head(inbox).call, Head(inbox).result, Head(inbox).info)
    /\ inbox' = Tail(inbox)
    /\ lost' = [lost EXCEPT !.unheard = @ /\ ~(Head(inbox).call \in Service /\ Head(inbox).result = "ok")]
    /\ UNCHANGED <<object, daemon, remote, version>>

\* The remote object of the calls that have been sent is gone.
CallsOld(r) ==
    [r EXCEPT !.call = [c \in Call |-> IF @[c].st = "sent" /\ c \in Operation
                                       THEN [@[c] EXCEPT !.old = TRUE] ELSE @[c]]]

\* The signals reach whoever has an interface to the remote object.
Hears == k.proxy[Main].status = "Ready"

ReadSignal ==
    /\ inbox # << >> /\ Head(inbox).type # "reply"
    /\ k' = LET type == Head(inbox).type
            IN  CASE ~Hears -> Now
                  [] Hears /\ type = "updated" -> InfoUpdated(Now, daemon)
                  [] Hears /\ type = "removed" -> InfoRemoved(Now)
                  [] Hears /\ type = "unregistered" ->
                        IF IsSession THEN SessionObjectDestroyed(CallsOld(Now))
                        ELSE IdentityObjectDestroyed(CallsOld(Now))
    /\ inbox' = Tail(inbox)
    /\ lost' = [lost EXCEPT !.unheard = @ \/ ~Hears]
    /\ UNCHANGED <<object, daemon, remote, version>>

\* PendingCall::fail(), when it was posted.
PostedFail(c) ==
    /\ k.call[c].st = "failing"
    /\ k' = EndCalls(CASE IsSession -> ErrorSlot(Now, c)
                       [] IsService -> ServiceErrorReply(Now, c)
                       [] IsIdentity -> ErrorReply(Now, {c}, "disconnected"), {c})
    /\ ClientOnly

\* A call's connection is lost before its reply has come.
CallDisconnected(c) ==
    /\ k.call[c].st = "sent" /\ k.call[c].lost
    /\ inbox = << >>
    /\ RoomToRetry(c, "disconnected")
    /\ k' = OnFinished(Now, c, "disconnected", NoVersion)
    /\ ClientOnly

Disconnected ==
    /\ inbox = << >>
    /\ lost.unsignalled > 0
    /\ lost' = [lost EXCEPT !.unsignalled = @ - 1]
    /\ k' = OnDisconnected(Now)
    /\ UNCHANGED <<object, inbox, daemon, remote, version>>

\* The activation started the daemon, or failed.
Activated ==
    /\ k.starting
    /\ lost.unsignalled = 0
    /\ daemon' = TRUE
    /\ k' = OnActivationDone(Now, TRUE)
    /\ UNCHANGED <<object, inbox, remote, version, lost>>

ActivationFailed ==
    /\ "activation" \in Faults
    /\ k.starting
    /\ lost.unsignalled = 0
    /\ k' = OnActivationDone(Now, FALSE)
    /\ ClientOnly

-----------------------------------------------------------------------------
\* The daemon, as SignonDaemon, SignonIdentity and SignonSessionCore are seen
\* from here.

Answered(c) == \E i \in DOMAIN inbox : inbox[i].type = "reply" /\ inbox[i].call = c

HasObject == remote \/ IsService

Gone(c) == c \in Operation /\ (k.call[c].old \/ ~HasObject)

Waiting(c) ==
    /\ daemon
    /\ lost.unsignalled = 0
    /\ k.call[c].st = "sent" /\ ~k.call[c].lost /\ ~Answered(c)
    \* What the former connection or object has left comes first.
    /\ \A b \in Call : k.call[b].st = "sent" => ~k.call[b].lost
    /\ \A i, j \in DOMAIN k.methods : i < j /\ k.methods[j] = c => Answered(k.methods[i])
    /\ \/ Gone(c)
       \/ \A b \in Call : k.call[b].st = "sent" /\ Gone(b) => Answered(b)

Reply(c, result) == [type |-> "reply", call |-> c, result |-> result, info |-> version']

ServeUnknown(c) ==
    /\ Waiting(c) /\ Gone(c)
    /\ UNCHANGED version
    /\ inbox' = Append(inbox, Reply(c, "unknown"))
    /\ k' = Now
    /\ UNCHANGED <<object, daemon, remote, lost>>

ServeDenied(c) ==
    /\ Waiting(c) /\ ~Gone(c)
    /\ "denied" \in Faults \/ (IsIdentity /\ k.known /\ version = NoVersion)
    /\ UNCHANGED version
    /\ inbox' = Append(inbox, Reply(c, "denied"))
    /\ k' = Now
    /\ UNCHANGED <<object, daemon, remote, lost>>

\* SignonIdentity sends infoUpdated() before its reply to store() or remove().
Served(c) ==
    /\ Waiting(c) /\ ~Gone(c)
    /\ IsIdentity /\ k.known /\ version = NoVersion => k.call[c].op = "store"
    /\ remote' = ~IsService
    /\ CASE k.call[c].op = "store" ->
              /\ version' = IF version < MaxVersion THEN version + 1 ELSE version
              /\ inbox' = inbox \o <<Signal("updated"), Reply(c, "ok")>>
         [] k.call[c].op = "remove" ->
              /\ version' = NoVersion
              /\ inbox' = inbox \o <<Signal("removed"), Reply(c, "ok")>>
         [] OTHER ->
              /\ UNCHANGED version
              /\ inbox' = Append(inbox, Reply(c, "ok"))
    /\ k' = Now
    /\ UNCHANGED <<object, daemon, lost>>

Serve(c) == Served(c) \/ ServeUnknown(c) \/ ServeDenied(c)

\* Another application stores the identity.
StoredByOther ==
    /\ IsIdentity /\ daemon /\ remote
    /\ version # NoVersion /\ version < MaxVersion
    /\ Cardinality(FreeCalls(k, Operation)) > Following
    /\ version' = version + 1
    /\ inbox' = Append(inbox, Signal("updated"))
    /\ k' = Now
    /\ UNCHANGED <<object, daemon, remote, lost>>

\* The daemon destroys its object (SignonDisposable), and says so.
Unregister ==
    /\ lost.links + lost.objects < MaxLost
    /\ daemon /\ remote
    /\ lost' = [lost EXCEPT !.objects = @ + 1]
    /\ remote' = FALSE
    /\ inbox' = Append(inbox, Signal("unregistered"))
    /\ k' = CallsOld(Now)
    /\ UNCHANGED <<object, daemon, version>>

\* The daemon ends, and the connection with it.
Drop ==
    /\ daemon /\ k.link = "up"
    /\ lost.links + lost.objects < MaxLost
    /\ daemon' = FALSE /\ remote' = FALSE
    /\ lost' = [lost EXCEPT !.links = @ + 1, !.unsignalled = @ + 1]
    /\ k' = [Now EXCEPT
                !.link = "dropped",
                !.proxy = [p \in Proxy |-> IF @[p].conn = "live" THEN [@[p] EXCEPT !.conn = "dead"]
                                           ELSE @[p]],
                !.call = [c \in Call |-> IF @[c].st = "sent" /\ ~Answered(c)
                                         THEN [@[c] EXCEPT !.lost = TRUE] ELSE @[c]]]
    /\ UNCHANGED <<object, inbox, version>>

\* Somebody else has it started again.
Restart ==
    /\ ~daemon
    /\ daemon' = TRUE
    /\ k' = Now
    /\ UNCHANGED <<object, inbox, remote, version, lost>>

-----------------------------------------------------------------------------
Application == Query \/ Verify \/ StoreIdentity \/ RemoveIdentity
                 \/ ProcessRequest \/ CancelRequest \/ ChangeId
                 \/ AskMechanisms \/ AskService

EventLoop == ReadReply \/ ReadSignal \/ Disconnected \/ Activated \/ ActivationFailed

Ends(c) == PostedFail(c) \/ CallDisconnected(c) \/ Serve(c)

Next == \/ Application
        \/ EventLoop
        \/ \E c \in Call : Ends(c)
        \/ StoredByOther \/ Unregister \/ Drop \/ Restart

\* The client's event loop runs, the session bus answers, and the daemon answers
\* every call in the end.  What is read is what leaves the inbox.
Reads == inbox # << >> /\ inbox' = Tail(inbox)
Fairness == /\ WF_inbox(Reads)
            /\ WF_vars(Disconnected)
            /\ WF_vars(Activated \/ ActivationFailed)
            /\ \A c \in Call : WF_vars(Ends(c))

Spec == Init /\ [][Next]_vars /\ Fairness

-----------------------------------------------------------------------------
\* A reply that refuses a request of a session that is being registered again:
\* errorSlot() takes it for the registration's error, and does not report it.
Mistaken ==
    /\ IsSession /\ k.registering
    /\ inbox # << >> /\ inbox' = Tail(inbox)
    /\ Head(inbox).type = "reply" /\ Head(inbox).call \in Operation /\ Head(inbox).result = "denied"

\* A call of the application that ends has reported one result or one error,
\* whatever happened to its connection, its remote object and the registration
\* (onFinished(), setStatus(), errorSlot()); mechanisms are reported for the
\* method they were asked for (queryMechanismsReply()).  But for calls that were
\* made, or were waiting, when the proxy found its connection lost and had not
\* been told, and for the end that is mistaken for a registration's.
EndsOnce == [][~Mistaken => \A call \in k'.ended : ~call.unnoticed => call.told = 1]_vars

\* What an identity answers from in Ready is what the daemon has stored, once the
\* messages that say otherwise are read: its state is moved by the replies of all
\* its calls and by the signals.  Not while the remote object is gone, or when it
\* has changed and nobody heard of it since the last registration.
InfoCurrent ==
    IsIdentity /\ k.state = "Ready" /\ ~lost.unheard /\ remote /\ inbox = << >> => k.info = version

\* A call is sent, and ends, unless it is left waiting with no registration or
\* connection under way that could end; and a call that has been sent before, for
\* that of another (enqueue(), setStatus(), onFinished()).
Registering == \E s \in Service : /\ k.call[s].st \in {"sent", "queued"}
                                  /\ k.proxy[s].path
                                  /\ k.service = "activating" => k.starting \/ k.link = "up"
Connecting == k.proxy[Main].path /\ k.starting
LeftWaiting(c) == /\ k.call[c].st = "queued" /\ ~Registering
                  /\ IF Hears THEN k.call[c].watched ELSE ~Connecting
CallsEnd ==
    \A c \in Operation : (k.call[c].st # "free") ~> (k.call[c].st = "free" \/ LeftWaiting(c))
=============================================================================
