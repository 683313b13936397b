---------------------------- MODULE SessionCore ----------------------------
(* One SignonSessionCore (src/signond/signonsessioncore.cpp): the queue of   *)
(* the authentication requests of one identity and method, served one at a   *)
(* time by one plugin process, with the dialogs the plugin asks for.         *)
(*                                                                           *)
(* A step is one turn of the daemon's event loop (a D-Bus call, a posted     *)
(* event, the plugin's output, its end, a timer) or a step of the plugin     *)
(* process, the signon-ui service or the environment.                        *)
EXTENDS PluginProxy, Integers, SequencesExt

CONSTANTS Session,    \* AuthSession objects
          SessionOf,  \* the one each request is sent through (m_cancelKey)
          MaxCancel,  \* bound on the cancel() calls
          MaxRefresh, \* bound on the "refresh" answers of signon-ui
          StoredId,   \* whether the session starts with the stored identity
          IdCalls,    \* calls made on the identity: "setId", "remove"
          FirstReady  \* may the credentials system be ready at the start, or not

ASSUME SessionAssumption == SessionOf \in [Req -> Session]
ASSUME CoreBoundAssumption ==
    /\ MaxCancel \in Nat
    /\ MaxRefresh \in Nat
    /\ StoredId \in BOOLEAN
    /\ FirstReady \subseteq BOOLEAN

VARIABLES listOfRequests,  \* m_listOfRequests
          requestIsActive, \* m_requestIsActive
          canceled,        \* m_canceled
          watcher,         \* m_watcher, and the request its dialog is for
          tmp,             \* whose credentials m_tmpUsername/m_tmpPassword are
          events,          \* posted: startNewRequest() and queryUiSlot() calls
          batch,           \* what poll() reported before these were posted
          ready,           \* isCredentialsSystemReady()
          stray,           \* the plugin has been left at work for a request that is over
          autoDestruct,    \* SignonDisposable::autoDestruct
          unused,          \* lastActivity is longer ago than maxInactivity
          life,            \* the object: "live", "destroyed", "aborted"
          hasId,           \* m_id # SIGNOND_NEW_IDENTITY
          row,             \* the identity's credentials row in the database
          blob,            \* whose data the plugin stored last
          cancels,         \* cancel() calls so far
          refreshes,       \* "refresh" answers so far
          arrived,         \* requests that have been sent
          served,          \* requests handed to the plugin
          cutShort,        \* requests canceled while active
          answers          \* what each client has been sent

queueVars == <<listOfRequests, requestIsActive, canceled, answers>>
idVars == <<hasId, row, blob>>
dispVars == <<autoDestruct, unused, life>>
countVars == <<cancels, refreshes, arrived, served, cutShort>>
coreVars == <<queueVars, watcher, tmp, events, ready, stray, dispVars, idVars, countVars>>
vars == <<proxyVars, coreVars, batch>>

\* A row is absent, or holds the secrets last written; "ghost" is a row that an
\* update of the absent one has inserted.
Row == [state : {"absent", "stored", "ghost"}, secret : MaybeReq]
Answer == [kind : {"result", "error", "canceled"}, of : MaybeReq]
NoWatcher == [state |-> "none", req |-> NoReq]
Posted == {"start", "ui"}
NoBatch == [out |-> 0, ended |-> FALSE]

CoreTypeOK ==
    /\ listOfRequests \in Seq(Req)
    /\ requestIsActive \in BOOLEAN
    /\ canceled \in BOOLEAN
    /\ watcher \in {NoWatcher} \cup [state : {"pending", "finished"}, req : Req]
    /\ tmp \in MaybeReq
    /\ events \in Seq(Posted)
    /\ ready \in BOOLEAN
    /\ stray \in BOOLEAN
    /\ autoDestruct \in BOOLEAN
    /\ unused \in BOOLEAN
    /\ life \in {"live", "destroyed", "aborted"}
    /\ hasId \in BOOLEAN
    /\ row \in Row
    /\ blob \in MaybeReq
    /\ cancels \in 0..MaxCancel
    /\ refreshes \in 0..MaxRefresh
    /\ arrived \in SUBSET Req
    /\ served \in SUBSET Req
    /\ cutShort \in SUBSET Req
    /\ answers \in [Req -> Seq(Answer)]

BatchTypeOK == batch \in [out : Nat, ended : BOOLEAN]

TypeOK == ProxyTypeOK /\ CoreTypeOK /\ BatchTypeOK

CoreInit ==
    /\ listOfRequests = << >>
    /\ requestIsActive = FALSE
    /\ canceled = FALSE
    /\ watcher = NoWatcher
    /\ tmp = NoReq
    /\ events = << >>
    /\ ready \in FirstReady
    /\ stray = FALSE
    /\ autoDestruct = TRUE
    /\ unused = FALSE
    /\ life = "live"
    /\ hasId = StoredId
    /\ row = [state |-> "stored", secret |-> NoReq]
    /\ blob = NoReq
    /\ cancels = 0
    /\ refreshes = 0
    /\ arrived = {}
    /\ served = {}
    /\ cutShort = {}
    /\ answers = [r \in Req |-> << >>]

Init == ProxyInit /\ CoreInit /\ batch = NoBatch

-----------------------------------------------------------------------------
KeepInUse == unused' = FALSE

Reply(r, kind, of) ==
    answers' = [answers EXCEPT ![r] = Append(@, [kind |-> kind, of |-> of])]

\* Requests reply to each other's callers through the head of the queue.
Current == Head(listOfRequests)
NoRequests == listOfRequests = << >>

\* Mutant: the dialog is not closed.
KeepsPendingUi == watcher' = watcher

\* m_watcher, still waiting for signon-ui, is deleted and the dialog closed; one
\* that has finished stays until queryUiSlot() runs.
DropPendingUi ==
    watcher' = IF watcher.state = "pending" THEN NoWatcher ELSE watcher

\* Deleting a finished watcher takes its posted call with it.
WithoutUi(es) ==
    IF \E i \in DOMAIN es : es[i] = "ui"
    THEN RemoveAt(es, CHOOSE i \in DOMAIN es : es[i] = "ui")
    ELSE es

\* Mutant: the request is not removed.
DoneKeepingRequest(es) ==
    /\ UNCHANGED listOfRequests
    /\ requestIsActive' = FALSE
    /\ events' = Append(es, "start")

\* Mutant: the next request is not started.
DoneWithoutStart(es) ==
    /\ listOfRequests' = Tail(listOfRequests)
    /\ requestIsActive' = FALSE
    /\ events' = es

\* requestDone(), with the events that are posted before it posts its own.
RequestDone(es) ==
    /\ listOfRequests' = Tail(listOfRequests)
    /\ requestIsActive' = FALSE
    /\ events' = Append(es, "start")

-----------------------------------------------------------------------------
\* Calls of the clients and of the rest of the daemon.

\* process(): a client sends a request.
Process(r) ==
    /\ r \notin arrived
    /\ arrived' = arrived \cup {r}
    /\ listOfRequests' = Append(listOfRequests, r)
    /\ events' = IF ready THEN Append(events, "start") ELSE events
    /\ KeepInUse
    /\ UNCHANGED <<requestIsActive, canceled, answers, watcher, tmp, ready, stray>>
    /\ UNCHANGED <<autoDestruct, life, idVars, cancels, refreshes, served, cutShort>>
    /\ UNCHANGED proxyVars

\* Mutant: the active request is taken off the queue.
CancelQueuedActiveToo(i) ==
    /\ listOfRequests' = RemoveAt(listOfRequests, i)
    /\ UNCHANGED <<canceled, watcher, cutShort, proxyVars>>

\* Mutant: the first request is removed, not the one found.
CancelQueuedTakesFirst(i) ==
    /\ ~(i = 1 /\ requestIsActive)
    /\ listOfRequests' = Tail(listOfRequests)
    /\ UNCHANGED <<canceled, watcher, cutShort, proxyVars>>

\* cancel(), when the request it finds is not active: it leaves the queue.
CancelQueued(i) ==
    /\ ~(i = 1 /\ requestIsActive)
    /\ listOfRequests' = RemoveAt(listOfRequests, i)
    /\ UNCHANGED <<canceled, watcher, cutShort, proxyVars>>

\* cancel(), when it finds the active request: the plugin is told, the dialog is
\* closed, and the request stays at the head until the plugin has replied.
CancelActive(i) ==
    /\ i = 1 /\ requestIsActive
    /\ canceled' = TRUE
    /\ cutShort' = cutShort \cup {Current}
    /\ SendCancel(Current)
    /\ DropPendingUi
    /\ UNCHANGED listOfRequests

\* cancel() through AuthSession k: the first request of k is the one.
Cancel(k) ==
    /\ cancels < MaxCancel
    /\ cancels' = cancels + 1
    /\ \E i \in DOMAIN listOfRequests :
          /\ SessionOf[listOfRequests[i]] = k
          /\ \A j \in 1..(i - 1) : SessionOf[listOfRequests[j]] # k
          /\ CancelQueued(i) \/ CancelActive(i)
          /\ Reply(listOfRequests[i], "canceled", listOfRequests[i])
    /\ UNCHANGED <<requestIsActive, tmp, events, ready, stray, dispVars, idVars>>
    /\ UNCHANGED <<refreshes, arrived, served>>

\* setId(): the client has stored the identity, or goes on without it.
SetId ==
    /\ "setId" \in IdCalls
    /\ hasId' = ~hasId
    /\ hasId' => row.state = "stored"
    /\ KeepInUse
    /\ UNCHANGED <<queueVars, watcher, tmp, events, ready, stray, autoDestruct, life>>
    /\ UNCHANGED <<row, blob, countVars, proxyVars>>

\* The identity is removed: SignonIdentity deletes the row, and tells no session.
RemoveIdentity ==
    /\ "remove" \in IdCalls
    /\ row.state = "stored"
    /\ row' = [state |-> "absent", secret |-> NoReq]
    /\ UNCHANGED <<queueVars, watcher, tmp, events, ready, stray, dispVars>>
    /\ UNCHANGED <<hasId, blob, countVars, proxyVars>>

\* credentialsSystemReady()
CredentialsSystemReady ==
    /\ ~ready
    /\ ready' = TRUE
    /\ events' = Append(events, "start")
    /\ UNCHANGED <<queueVars, watcher, tmp, stray, dispVars, idVars, countVars, proxyVars>>

-----------------------------------------------------------------------------
\* Posted events.

NextEvent(e) == events # << >> /\ Head(events) = e

\* Mutant: m_canceled is not reset.
ForgetNoCancel == canceled' = canceled

\* startNewRequest() begins by forgetting the last cancel().
ForgetCancel == canceled' = FALSE

\* Mutant: only a dialog keeps the next request waiting.
BusyInDialogs == watcher.state = "pending"

\* One request at a time, and none under the dialog of another one.
Busy == requestIsActive \/ watcher.state = "pending"

\* startNewRequest(), nothing left to do.
StartNothing ==
    /\ NextEvent("start")
    /\ NoRequests
    /\ ForgetCancel
    /\ autoDestruct' = TRUE
    /\ events' = Tail(events)
    /\ KeepInUse
    /\ UNCHANGED <<listOfRequests, requestIsActive, answers, watcher, tmp, ready, stray>>
    /\ UNCHANGED <<life, idVars, countVars, proxyVars>>

\* startNewRequest(), while a request is active or a dialog is open.
StartLater ==
    /\ NextEvent("start")
    /\ ~NoRequests
    /\ Busy
    /\ ForgetCancel
    /\ events' = Tail(events)
    /\ KeepInUse
    /\ UNCHANGED <<listOfRequests, requestIsActive, answers, watcher, tmp, ready, stray>>
    /\ UNCHANGED <<autoDestruct, life, idVars, countVars, proxyVars>>

\* startNewRequest() and startProcess(): the head of the queue goes to the
\* plugin, or fails at once when the plugin process does not come up.
StartProcess ==
    /\ NextEvent("start")
    /\ ~NoRequests
    /\ ~Busy
    /\ ForgetCancel
    /\ autoDestruct' = FALSE
    /\ tmp' = Current
    /\ KeepInUse
    /\ \/ /\ SendProcess(Current, TRUE)
          /\ requestIsActive' = TRUE
          /\ served' = served \cup {Current}
          /\ events' = Tail(events)
          /\ UNCHANGED <<listOfRequests, answers>>
       \/ /\ SendProcess(Current, FALSE)
          /\ Reply(Current, "error", NoReq)
          /\ RequestDone(Tail(events))
          /\ UNCHANGED served
    /\ UNCHANGED <<watcher, ready, stray, life, idVars, cancels, refreshes, arrived, cutShort>>

\* queryUiSlot(): signon-ui's answer goes to the head of the queue, and to the
\* plugin unless the head has been canceled.  The return value of processUi()
\* and processRefresh() is not looked at.
QueryUiSlot ==
    /\ NextEvent("ui")
    /\ ~NoRequests
    /\ events' = Tail(events)
    /\ watcher' = NoWatcher
    /\ KeepInUse
    /\ \/ /\ canceled
          /\ UNCHANGED <<tmp, refreshes, stray, proxyVars>>
       \/ /\ ~canceled
          /\ tmp' = watcher.req
          /\ stray' = (stray \/ ~requestIsActive)
          /\ \/ /\ \E ok \in BOOLEAN : SendUi("processUi", watcher.req, ok)
                /\ UNCHANGED refreshes
             \/ /\ refreshes < MaxRefresh
                /\ refreshes' = refreshes + 1
                /\ \E ok \in BOOLEAN : SendUi("refresh", watcher.req, ok)
    /\ UNCHANGED <<queueVars, ready, autoDestruct, life, idVars>>
    /\ UNCHANGED <<cancels, arrived, served, cutShort>>

\* queryUiSlot() with no request: Q_ASSERT_X stops the daemon (a release build
\* goes on with a reference to no element).
QueryUiSlotAsserts ==
    /\ NextEvent("ui")
    /\ NoRequests
    /\ life' = "aborted"
    /\ UNCHANGED <<queueVars, watcher, tmp, events, ready, stray, autoDestruct, unused>>
    /\ UNCHANGED <<idVars, countVars, proxyVars>>

\* Mutant: the answer for a deleted watcher is delivered.
UiAnswersLate ==
    /\ watcher.state # "finished"
    /\ watcher' = [watcher EXCEPT !.state = "finished"]
    /\ events' = Append(events, "ui")
    /\ UNCHANGED <<queueVars, tmp, ready, stray, dispVars, idVars, countVars, proxyVars>>

\* signon-ui answers, or the call to it fails: isFinished() is true from here
\* on, queryUiSlot() runs later.
UiAnswers ==
    /\ watcher.state = "pending"
    /\ watcher' = [watcher EXCEPT !.state = "finished"]
    /\ events' = Append(events, "ui")
    /\ UNCHANGED <<queueVars, tmp, ready, stray, dispVars, idVars, countVars, proxyVars>>

-----------------------------------------------------------------------------
\* The plugin's output, and its end.

\* The database update of processResultReply(): the row gets the credentials of
\* m_tmpUsername and m_tmpPassword; of a removed identity nothing is found, and
\* the update inserts a new row.
UpdateRow ==
    row' = IF ~hasId THEN row
           ELSE [state  |-> IF row.state = "stored" THEN "stored" ELSE "ghost",
                 secret |-> IF tmp = NoReq THEN row.secret ELSE tmp]

\* processResultReply()
ProcessResultReply(of) ==
    /\ KeepInUse
    /\ \/ /\ NoRequests
          /\ UNCHANGED <<queueVars, watcher, tmp, events, row>>
       \/ /\ ~NoRequests /\ canceled
          /\ RequestDone(events)
          /\ UNCHANGED <<canceled, answers, watcher, tmp, row>>
       \/ /\ ~NoRequests /\ ~canceled
          /\ UpdateRow
          /\ tmp' = NoReq
          /\ Reply(Current, "result", of)
          /\ DropPendingUi
          /\ RequestDone(events)
          /\ UNCHANGED canceled

\* processError()
ProcessError(of) ==
    /\ KeepInUse
    /\ tmp' = NoReq
    /\ \/ /\ NoRequests
          /\ UNCHANGED <<queueVars, watcher, events>>
       \/ /\ ~NoRequests /\ canceled
          /\ RequestDone(events)
          /\ UNCHANGED <<canceled, answers, watcher>>
       \/ /\ ~NoRequests /\ ~canceled
          /\ Reply(Current, "error", of)
          /\ DropPendingUi
          /\ RequestDone(events)
          /\ UNCHANGED canceled

\* Mutant: the dialog is for the last request.
UiRequestForLast ==
    /\ KeepInUse
    /\ \/ /\ canceled \/ NoRequests
          /\ UNCHANGED <<watcher, events>>
       \/ /\ ~canceled /\ ~NoRequests
          /\ watcher' = [state |-> "pending", req |-> Last(listOfRequests)]
          /\ events' = WithoutUi(events)

\* processUiRequest() and processRefreshRequest(): a dialog for the head of the
\* queue, in the place of the one before it.
ProcessUiRequest ==
    /\ KeepInUse
    /\ \/ /\ canceled \/ NoRequests
          /\ UNCHANGED <<watcher, events>>
       \/ /\ ~canceled /\ ~NoRequests
          /\ watcher' = [state |-> "pending", req |-> Current]
          /\ events' = WithoutUi(events)

FixedOnOutput == <<ready, autoDestruct, life, hasId, countVars>>

ResultArrives ==
    /\ ReadFinal("result")
    /\ \/ /\ isResultObtained
          /\ UNCHANGED <<queueVars, watcher, tmp, events, unused, row>>
       \/ /\ ~isResultObtained
          /\ ProcessResultReply(Head(outFile).of)
    /\ UNCHANGED <<blob, stray, FixedOnOutput>>

ErrorArrives ==
    /\ ReadFinal("error")
    /\ \/ /\ isResultObtained
          /\ UNCHANGED <<queueVars, watcher, tmp, events, unused>>
       \/ /\ ~isResultObtained
          /\ ProcessError(Head(outFile).of)
    /\ UNCHANGED <<row, blob, stray, FixedOnOutput>>

\* processStore(), stateChangedSlot()
ReportArrives ==
    /\ ReadOther({"store", "signal"})
    /\ \/ /\ isResultObtained
          /\ UNCHANGED <<unused, blob>>
       \/ /\ ~isResultObtained
          /\ KeepInUse
          /\ blob' = IF Head(outFile).op = "store" /\ hasId
                     THEN Head(outFile).of ELSE blob
    /\ UNCHANGED <<queueVars, watcher, tmp, events, row, stray, FixedOnOutput>>

\* A dialog is wanted, and allowed or not by the ui policy; a refreshed one is
\* not subject to it.
UiArrives ==
    /\ \/ /\ ReadOther({"ui", "refreshed"})
          /\ isResultObtained
          /\ UNCHANGED <<watcher, events, unused>>
       \/ /\ ReadOther({"ui", "refreshed"})
          /\ ~isResultObtained
          /\ Head(outFile).op = "ui" =>
                 \E credentialsOnly \in BOOLEAN : UiAllowed(credentialsOnly)
          /\ ProcessUiRequest
       \/ /\ ReadForbiddenUi
          /\ UNCHANGED <<watcher, events, unused>>
    /\ UNCHANGED <<queueVars, tmp, row, blob, stray, FixedOnOutput>>

BrokenBlobArrives ==
    /\ ReadBrokenBlob
    /\ ProcessError(NoReq)
    /\ stray' = TRUE
    /\ UNCHANGED <<row, blob, FixedOnOutput>>

PluginFinishes ==
    /\ ProcessFinished
    /\ \/ /\ FinishIsError
          /\ ProcessError(NoReq)
       \/ /\ ~FinishIsError
          /\ UNCHANGED <<queueVars, watcher, tmp, events, unused>>
    /\ UNCHANGED <<row, blob, stray, FixedOnOutput>>

-----------------------------------------------------------------------------
\* SignonDisposable's timer.

\* Time passes while nothing happens: the event loop and the pipe are empty.
\* How long ago the last activity was is of interest only under autoDestruct.
BecomeUnused ==
    /\ ~unused /\ autoDestruct
    /\ events = << >> /\ outFile = << >>
    /\ procState \in {"running", "notRunning"}
    /\ unused' = TRUE
    /\ UNCHANGED <<queueVars, watcher, tmp, events, ready, stray, autoDestruct, life>>
    /\ UNCHANGED <<idVars, countVars, proxyVars>>

\* destroyUnused() and destroy(), which refuses while a request is active or a
\* dialog is open.
Destroy ==
    /\ unused /\ autoDestruct
    /\ ~requestIsActive /\ watcher = NoWatcher
    /\ life' = "destroyed"
    /\ UNCHANGED <<queueVars, watcher, tmp, events, ready, stray, autoDestruct, unused>>
    /\ UNCHANGED <<idVars, countVars, proxyVars>>

-----------------------------------------------------------------------------
\* Qt's event loop delivers every posted event before it polls again: while
\* some are pending it only handles the output and the end of the process that
\* poll() had reported when the first of them was posted, and nothing of that
\* once it has begun to deliver them.  (D-Bus calls and signon-ui's answer are
\* posted by another thread, and may come at any time.)
Ended == procState \in {"exited", "crashed"}

OutputPolled == events = << >> \/ batch.out > 0 \/ (batch.ended /\ Ended)
EndPolled == events = << >> \/ batch.ended

BatchOver == batch' = NoBatch

\* What is left of the batch after a step that delivers no event.
KeepBatch ==
    LET read == Len(outFile) - Len(outFile') IN
    batch' =
      IF events' = << >> THEN NoBatch
      ELSE IF events = << >> THEN [out |-> Len(outFile'), ended |-> Ended']
      ELSE [out   |-> IF read <= 0 THEN batch.out
                      ELSE IF read < batch.out THEN batch.out - read ELSE 0,
            ended |-> batch.ended /\ Ended']

Call ==
    \/ \E r \in Req : Process(r)
    \/ \E k \in Session : Cancel(k)
    \/ SetId
    \/ RemoveIdentity
    \/ CredentialsSystemReady

Event ==
    /\ \/ StartNothing
       \/ StartLater
       \/ StartProcess
       \/ QueryUiSlot
       \/ QueryUiSlotAsserts
    /\ BatchOver

Output ==
    /\ OutputPolled
    /\ \/ ResultArrives
       \/ ErrorArrives
       \/ ReportArrives
       \/ UiArrives
       \/ BrokenBlobArrives

End == EndPolled /\ PluginFinishes

Timer == BecomeUnused \/ Destroy

Plugin == ProcNext /\ UNCHANGED <<flags, coreVars>>

Next ==
    /\ life = "live"
    /\ \/ Event
       \/ /\ \/ Call
             \/ UiAnswers
             \/ Output
             \/ End
             \/ Timer
             \/ Plugin
          /\ KeepBatch

Spec == Init /\ [][Next]_vars

\* What the scheduling of the code guarantees: Qt's event loops deliver posted
\* events, read what can be read and notice a process that has ended; the user,
\* or a time-out of signon-ui, ends every dialog; and a plugin that is given
\* work again and again does not ask for one more dialog for ever.
Live(A) == life = "live" /\ A

MainThread == (StartTask \/ StartTaskGarbled) /\ UNCHANGED <<flags, coreVars>>
PluginEndsWork ==
    CancelThreadRunning /\ PluginCompletes /\ UNCHANGED <<flags, coreVars>>

Fairness ==
    /\ WF_vars(Live(Event))
    /\ WF_vars(Live(Output /\ KeepBatch))
    /\ WF_vars(Live(End /\ KeepBatch))
    /\ WF_vars(Live(UiAnswers /\ KeepBatch))
    /\ WF_vars(Live(MainThread /\ KeepBatch))
    /\ SF_vars(Live(PluginEndsWork /\ KeepBatch))

FairSpec == Spec /\ Fairness

-----------------------------------------------------------------------------
(* Properties *)

Queued == ToSet(listOfRequests)

\* A request handed to the plugin stays the active head until it leaves: none is
\* handed over twice by startNewRequest(), and cancel() takes none away under
\* the plugin's work.
ServedIsActive ==
    \A r \in Queued \cap served : requestIsActive /\ r = Current

\* While m_requestIsActive the proxy still lets a result or error through and
\* will report the end of the process as an error: no interleaving of plugin
\* restarts, late replies and cancel() leaves an active request that nothing
\* can finish.
ActiveIsAwaited ==
    requestIsActive => ~NoRequests /\ isProcessing /\ ~isResultObtained

\* cancel() answers and unqueues, or leaves the active request to requestDone():
\* no other request in the queue has been answered.
QueuedUnanswered ==
    \A r \in Queued \ cutShort : answers[r] = << >>

\* Of the reply slots, the plugin's end, failed starts and cancel(), only one
\* answers a request; of two answers, to a request canceled while active, one is
\* the reply to a cancel().
AnsweredOnce ==
    \A r \in Req : \A i, j \in DOMAIN answers[r] :
        i # j => /\ r \in cutShort
                 /\ "canceled" \in {answers[r][i].kind, answers[r][j].kind}

\* A request that waits, with no active one before it, has a startNewRequest()
\* posted: the early returns of startNewRequest() lose no wake-up.  Unless the
\* plugin has been left at work under no active request, when a response was
\* incomplete or when the answer to a dialog went to it after its request had
\* ended (an ended process is started again for that): the dialog it opens then
\* makes startNewRequest() return.
NoLostStart ==
    ~stray /\ ready /\ life = "live" /\ ~NoRequests /\ ~requestIsActive
        => "start" \in ToSet(events)

\* destroyUnused() drops an object from its list even when destroy() refuses: it
\* would never be destroyed.  Its timer finds no session that refuses, with the
\* same exception.
DestroyNeverRefuses ==
    ~stray /\ unused /\ autoDestruct
        => ~requestIsActive /\ watcher = NoWatcher

\* The reply slots answer the head of the queue, whatever request the plugin
\* was working for: as long as no process has failed, the two are the same.
\* (The answer to a dialog of a process that has crashed may reach the next one.)
OwnAnswer ==
    faults = << >> =>
        \A r \in Req : \A i \in DOMAIN answers[r] :
            answers[r][i].of \in {r, NoReq}

\* processResultReply() writes m_tmpUsername and m_tmpPassword to the database:
\* what was sent or typed in for one request is never stored for another one,
\* as long as no process has failed.
OwnCredentials ==
    [][faults = << >> /\ row'.secret # row.secret /\ row'.state # "absent"
           => ~NoRequests /\ row'.secret = Current]_vars

\* Every request is answered in the end, whatever the plugin, its crashes and
\* the dialogs do: no chain of posted events, restarts and replies breaks off.
EveryRequestAnswered ==
    \A r \in Req : r \in arrived ~> answers[r] # << >>

-----------------------------------------------------------------------------
(* What an assertion of the code says, and the code does not do.             *)

\* queryUiSlot() asserts that there is a request when a dialog is answered.
UiAnswerHasRequest ==
    NextEvent("ui") => ~NoRequests
=============================================================================
