------------------------ MODULE SessionServiceProofs ------------------------
(* Proofs about what the clients of a session core get: that it implements   *)
(* RequestService, where no plugin process fails or where nothing is         *)
(* canceled, and that the answers, and the secrets that are stored, are      *)
(* those of the request they are given to.                                   *)
EXTENDS SessionRefinement, SessionCoreProofs

-----------------------------------------------------------------------------
(* The inductive invariant *)

\* A request canceled while active has got the reply to its cancel().
CutAnswered == \A r \in cutShort : answers[r] # << >>

\* m_canceled is about the active request, if there is one.
CanceledIsCut == canceled /\ requestIsActive => Current \in cutShort

CancelCounted == canceled => cancels # 0

\* After a canceled request m_canceled stays set until the next start.  Without
\* faults nothing comes through in that time that would remove the next request
\* unanswered: the plugin has given its reply, or is gone.
CancelOver ==
    FaultKinds = {} =>
        /\ procState # "crashed"
        /\ canceled /\ ~requestIsActive =>
              /\ ~isProcessing
              /\ isResultObtained \/ (outFile = << >> /\ procState = "notRunning")

AnswerInv == CutAnswered /\ CanceledIsCut /\ CancelCounted /\ CancelOver

RInv == IInv /\ AnswerInv

-----------------------------------------------------------------------------
(* Answers *)

\* A reply answers its request, and no other.
LEMMA ReplyAnswers ==
    ASSUME CoreTypeOK, NEW r \in Req, NEW kind, NEW of, Reply(r, kind, of)
    PROVE  /\ answers'[r] # << >>
           /\ \A q \in Req \ {r} : answers'[q] = answers[q]
           /\ Answered' = Answered \cup {r}
<1> DEFINE new == Append(answers[r], [kind |-> kind, of |-> of])
<1>1. answers' = [answers EXCEPT ![r] = new] /\ DOMAIN answers = Req
  BY DEF Reply, CoreTypeOK
<1>2. new # << >>
  <2>1. answers[r] \in Seq(Answer \cup {[kind |-> kind, of |-> of]})
    BY DEF CoreTypeOK
  <2>2. QED BY <2>1, AppendProperties
<1> HIDE DEF new
<1>3. answers'[r] # << >> /\ \A q \in Req \ {r} : answers'[q] = answers[q]
  BY <1>1, <1>2
<1>4. QED BY <1>3 DEF Answered

-----------------------------------------------------------------------------
(* The queue and its tail *)

\* Another element than the first is removed from the tail.
LEMMA TailOfRemoveAt ==
    ASSUME NEW S, NEW s \in Seq(S), NEW i \in DOMAIN s, i # 1
    PROVE  /\ RemoveAt(s, i) # << >> /\ Head(RemoveAt(s, i)) = Head(s)
           /\ i - 1 \in DOMAIN Tail(s) /\ Tail(s)[i - 1] = s[i]
           /\ Tail(RemoveAt(s, i)) = RemoveAt(Tail(s), i - 1)
<1> DEFINE t == RemoveAt(s, i)
           u == RemoveAt(Tail(s), i - 1)
           n == Len(s)
<1>1. /\ n \in Nat /\ DOMAIN s = 1..n /\ i \in 2..n
      /\ t \in Seq(S) /\ Len(t) = n - 1
      /\ \A j \in 1..(n - 1) : t[j] = IF j < i THEN s[j] ELSE s[j + 1]
  BY LenProperties, RemoveAtProperties
<1>2. s # << >>
  BY <1>1
<1>3. /\ Tail(s) \in Seq(S) /\ Len(Tail(s)) = n - 1
      /\ \A j \in 1..(n - 1) : Tail(s)[j] = s[j + 1]
      /\ Head(s) = s[1]
  BY <1>2, HeadTailProperties
<1>4. i - 1 \in DOMAIN Tail(s) /\ Tail(s)[i - 1] = s[i]
  <2>1. DOMAIN Tail(s) = 1..(n - 1)
    BY <1>3, LenProperties
  <2>2. i - 1 \in 1..(n - 1) /\ i - 1 + 1 = i
    BY <1>1
  <2>3. QED BY <1>3, <2>1, <2>2
<1>5. /\ u \in Seq(S) /\ Len(u) = n - 2
      /\ \A j \in 1..(n - 2) : u[j] = IF j < i - 1 THEN s[j + 1] ELSE s[j + 2]
  <2>1. /\ u \in Seq(S) /\ Len(u) = Len(Tail(s)) - 1
        /\ \A j \in 1..(Len(Tail(s)) - 1) :
              u[j] = IF j < i - 1 THEN Tail(s)[j] ELSE Tail(s)[j + 1]
    BY <1>3, <1>4, RemoveAtProperties
  <2> HIDE DEF u, n
  <2>2. Len(Tail(s)) - 1 = n - 2
    BY <1>1, <1>3
  <2>3. \A j \in 1..(n - 2) : Tail(s)[j] = s[j + 1] /\ Tail(s)[j + 1] = s[j + 2]
    <3> TAKE j \in 1..(n - 2)
    <3>1. j \in 1..(n - 1) /\ j + 1 \in 1..(n - 1) /\ j + 1 + 1 = j + 2
      BY <1>1
    <3>2. QED BY <1>3, <3>1
  <2>4. QED BY <2>1, <2>2, <2>3
<1> HIDE DEF t, u, n
<1>6. t # << >> /\ Head(t) = s[1]
  <2>1. t # << >>
    BY <1>1, EmptySeq
  <2>2. Head(t) = t[1] /\ 1 \in 1..(n - 1) /\ 1 < i
    BY <1>1
  <2>3. QED BY <1>1, <2>1, <2>2
<1>7. /\ Tail(t) \in Seq(S) /\ Len(Tail(t)) = n - 2
      /\ \A j \in 1..(n - 2) : Tail(t)[j] = t[j + 1]
  <2>1. /\ Tail(t) \in Seq(S) /\ Len(Tail(t)) = Len(t) - 1
        /\ \A j \in 1..Len(Tail(t)) : Tail(t)[j] = t[j + 1]
    BY <1>1, <1>6, HeadTailProperties
  <2>2. QED BY <1>1, <2>1
<1>8. \A j \in 1..(n - 2) : Tail(t)[j] = u[j]
  <2> TAKE j \in 1..(n - 2)
  <2>1. j + 1 \in 1..(n - 1) /\ (j + 1 < i <=> j < i - 1) /\ j + 1 + 1 = j + 2
    BY <1>1
  <2>2. QED BY <1>1, <1>5, <1>7, <2>1
<1>9. Tail(t) = u
  BY <1>5, <1>7, <1>8, SeqEqual
<1>10. QED BY <1>3, <1>4, <1>6, <1>9 DEF t, u

-----------------------------------------------------------------------------
(* The steps of the abstract service *)

\* The operators of RequestService are those of its sequences module.
LEMMA ServiceOperators ==
    /\ \A s, i : Service!RemoveAt(s, i) = RemoveAt(s, i)
    /\ \A s : Service!ToSet(s) = ToSet(s)
BY DEF Service!RemoveAt, RemoveAt, Service!ToSet, ToSet

\* A new request joins the abstract service.
LEMMA JoinMaps ==
    ASSUME TypeOK, QueueInv, NEW r \in Req, r \notin arrived,
           listOfRequests' = Append(listOfRequests, r),
           UNCHANGED <<requestIsActive, answers>>
    PROVE  Service!SNext
<1>0. listOfRequests \in Seq(Req)
  BY DEF TypeOK, CoreTypeOK
<1>1. requestIsActive => listOfRequests # << >>
  BY DEF QueueInv, ActiveHead, NoRequests
<1>2. Waiting' = Append(Waiting, r) /\ InService' = InService /\ Answered' = Answered
  BY <1>0, <1>1, HeadTailAppend DEF Waiting, InService, Current, Answered
<1>3. r \notin ToSet(listOfRequests) /\ r \notin Answered
  BY DEF QueueInv, OnlyArrived, Queued, Answered
<1>4. requestIsActive => r # Current /\ r \notin ToSet(Tail(listOfRequests))
  <2>1. ASSUME requestIsActive
        PROVE  /\ 1 \in DOMAIN listOfRequests /\ Current = listOfRequests[1]
               /\ ToSet(Tail(listOfRequests)) = Queued \ {Current}
    <3>1. /\ 1 \in DOMAIN listOfRequests
          /\ Tail(listOfRequests) = RemoveAt(listOfRequests, 1)
      BY <1>0, <1>1, <2>1, RemoveFirstIsTail
    <3>2. Current = listOfRequests[1]
      BY DEF Current
    <3>3. QED
      BY <1>0, <3>1, <3>2, RemoveAtMembers DEF QueueInv, OnlyArrived, Queued
  <2>2. QED BY <1>3, <2>1 DEF Queued, ToSet
<1>5. r \notin Service!Known
  BY <1>3, <1>4, ReqAssumption, ServiceOperators
     DEF Service!Known, Waiting, InService
<1>6. Service!Join(r)
  BY <1>2, <1>5 DEF Service!Join
<1>7. QED BY <1>6 DEF Service!SNext

\* A waiting request that is canceled withdraws.
LEMMA WithdrawMaps ==
    ASSUME TypeOK, NEW i \in DOMAIN listOfRequests, ~(i = 1 /\ requestIsActive),
           listOfRequests' = RemoveAt(listOfRequests, i),
           Answered' = Answered \cup {listOfRequests[i]},
           UNCHANGED requestIsActive
    PROVE  Service!SNext
<1>0. listOfRequests \in Seq(Req)
  BY DEF TypeOK, CoreTypeOK
<1>1. CASE requestIsActive
  <2>1. /\ InService' = InService
        /\ i - 1 \in DOMAIN Waiting
        /\ Waiting[i - 1] = listOfRequests[i]
        /\ Waiting' = RemoveAt(Waiting, i - 1)
    BY <1>0, <1>1, TailOfRemoveAt DEF InService, Waiting, Current
  <2>2. Service!Withdraw(i - 1)
    BY <2>1, ServiceOperators DEF Service!Withdraw
  <2>3. QED BY <2>1, <2>2 DEF Service!SNext
<1>2. CASE ~requestIsActive
  <2>1. InService' = InService /\ Waiting = listOfRequests /\ Waiting' = listOfRequests'
    BY <1>2 DEF InService, Waiting
  <2>2. Service!Withdraw(i)
    BY <2>1, ServiceOperators DEF Service!Withdraw
  <2>3. QED BY <2>1, <2>2 DEF Service!SNext
<1>3. QED BY <1>1, <1>2

\* The head of the queue that leaves, answered, has finished, or withdraws.
LEMMA LeaveMaps ==
    ASSUME TypeOK, ~NoRequests, NEW es, RequestDone(es),
           Answered' = Answered \cup {Current}
    PROVE  Service!SNext
<1>0. /\ listOfRequests \in Seq(Req) /\ listOfRequests # << >>
      /\ listOfRequests' = Tail(listOfRequests)
      /\ ~requestIsActive'
      /\ Current \in Req
  BY CurrentType DEF TypeOK, CoreTypeOK, RequestDone, NoRequests
<1>1. Waiting' = Tail(listOfRequests) /\ InService' = NoReq
  BY <1>0 DEF Waiting, InService
<1>2. CASE requestIsActive
  <2>1. Waiting = Tail(listOfRequests) /\ InService = Current /\ Current # NoReq
    BY <1>0, <1>2, ReqAssumption DEF Waiting, InService
  <2>2. Service!Finish
    BY <1>1, <2>1 DEF Service!Finish
  <2>3. QED BY <2>2 DEF Service!SNext
<1>3. CASE ~requestIsActive
  <2>1. Waiting = listOfRequests /\ InService = NoReq
    BY <1>3 DEF Waiting, InService
  <2>2. 1 \in DOMAIN Waiting /\ Waiting' = RemoveAt(Waiting, 1) /\ Waiting[1] = Current
    BY <1>0, <1>1, <2>1, RemoveFirstIsTail DEF Current
  <2>3. Service!Withdraw(1)
    BY <1>1, <2>1, <2>2, ServiceOperators DEF Service!Withdraw
  <2>4. QED BY <2>2, <2>3 DEF Service!SNext
<1>4. QED BY <1>2, <1>3

\* A start that succeeds begins the service of the head.
LEMMA BeginMaps ==
    ASSUME ~NoRequests, ~requestIsActive, requestIsActive' = TRUE,
           UNCHANGED <<listOfRequests, answers>>
    PROVE  Service!SNext
<1>1. /\ Waiting = listOfRequests /\ InService = NoReq
      /\ Waiting' = Tail(listOfRequests) /\ InService' = Head(listOfRequests)
      /\ Answered' = Answered
  BY DEF Waiting, InService, Answered, Current
<1>2. Service!Begin
  BY <1>1 DEF Service!Begin, NoRequests
<1>3. QED BY <1>2 DEF Service!SNext

\* The abstract service sees the queue, what is active, and the answers.
LEMMA StutterMaps ==
    ASSUME UNCHANGED <<listOfRequests, requestIsActive, answers>>
    PROVE  UNCHANGED Service!svars
BY DEF Service!svars, Waiting, InService, Answered, Current

-----------------------------------------------------------------------------
(* The invariant is inductive *)

SomeReply ==
    \E r \in Req, kind \in {"result", "error", "canceled"}, of \in MaybeReq :
        Reply(r, kind, of)

\* A step that replies to a request, or to none, and cancels none.
LEMMA AnswersKept ==
    ASSUME CoreTypeOK, CutAnswered, UNCHANGED cutShort,
           \/ UNCHANGED answers
           \/ SomeReply
    PROVE  CutAnswered'
<1>1. CASE UNCHANGED answers
  BY <1>1 DEF CutAnswered
<1>2. ASSUME NEW r \in Req, NEW kind, NEW of, Reply(r, kind, of)
      PROVE  CutAnswered'
  <2>1. answers'[r] # << >> /\ \A q \in Req \ {r} : answers'[q] = answers[q]
    BY <1>2, ReplyAnswers
  <2>2. QED BY <2>1 DEF CutAnswered, CoreTypeOK
<1>3. QED BY <1>1, <1>2 DEF SomeReply

\* The slots for results and errors reply to the head, and set no flag.
LEMMA SlotReplies ==
    ASSUME TypeOK, NEW of \in MaybeReq, ProcessResultReply(of) \/ ProcessError(of)
    PROVE  /\ UNCHANGED canceled
           /\ \/ UNCHANGED answers
              \/ SomeReply
           /\ ~requestIsActive' \/ UNCHANGED queueVars
<1>1. CASE NoRequests /\ UNCHANGED queueVars
  BY <1>1 DEF queueVars
<1>2. CASE ~NoRequests /\ RequestDone(events) /\ UNCHANGED canceled
  <2>1. Current \in Req
    BY <1>2, CurrentType DEF TypeOK
  <2>2. UNCHANGED answers \/ SomeReply
    BY <1>2, <2>1 DEF ProcessResultReply, ProcessError, SomeReply, queueVars
  <2>3. QED BY <1>2, <2>2 DEF RequestDone
<1>3. QED BY <1>1, <1>2 DEF ProcessResultReply, ProcessError

LEMMA CutStep == RInv /\ Next => CutAnswered' /\ CanceledIsCut' /\ CancelCounted'
<1> SUFFICES ASSUME RInv, Next
             PROVE  CutAnswered' /\ CanceledIsCut' /\ CancelCounted'
  OBVIOUS
<1>0. /\ TypeOK /\ CoreTypeOK /\ QueueInv
      /\ CutAnswered /\ CanceledIsCut /\ CancelCounted
      /\ listOfRequests \in Seq(Req)
      /\ requestIsActive => listOfRequests # << >>
  BY DEF RInv, IInv, AnswerInv, TypeOK, CoreTypeOK, QueueInv, ActiveHead, NoRequests
<1>1. ASSUME UNCHANGED <<listOfRequests, requestIsActive, cutShort, answers, cancels>>,
             canceled' => canceled
      PROVE  CutAnswered' /\ CanceledIsCut' /\ CancelCounted'
  BY <1>0, <1>1 DEF CutAnswered, CanceledIsCut, CancelCounted, Current
<1>2. ASSUME UNCHANGED <<cutShort, cancels>>, ~canceled',
             \/ UNCHANGED answers
             \/ SomeReply
      PROVE  CutAnswered' /\ CanceledIsCut' /\ CancelCounted'
  BY <1>0, <1>2, AnswersKept DEF CanceledIsCut, CancelCounted
<1>3. ASSUME NEW r \in Req, Process(r)
      PROVE  CutAnswered' /\ CanceledIsCut' /\ CancelCounted'
  <2>1. /\ listOfRequests' = Append(listOfRequests, r)
        /\ UNCHANGED <<requestIsActive, canceled, cutShort, answers, cancels>>
    BY <1>3 DEF Process
  <2>2. requestIsActive => Current' = Current
    BY <1>0, <2>1, HeadTailAppend DEF Current
  <2>3. QED BY <1>0, <2>1, <2>2 DEF CutAnswered, CanceledIsCut, CancelCounted
<1>4. ASSUME NEW k \in Session, Cancel(k)
      PROVE  CutAnswered' /\ CanceledIsCut' /\ CancelCounted'
  <2>1. PICK i \in DOMAIN listOfRequests :
           /\ CancelQueued(i) \/ CancelActive(i)
           /\ Reply(listOfRequests[i], "canceled", listOfRequests[i])
    BY <1>4 DEF Cancel
  <2>2. /\ cancels' = cancels + 1 /\ cancels \in Nat /\ UNCHANGED requestIsActive
    BY <1>0, <1>4, CoreBoundAssumption DEF Cancel, CoreTypeOK
  <2>3. CancelCounted'
    BY <2>2 DEF CancelCounted
  <2>4. listOfRequests[i] \in Req
    BY <1>0, LenProperties, ElementOfSeq
  <2>5. CASE CancelQueued(i)
    <3>1. /\ ~(i = 1 /\ requestIsActive)
          /\ listOfRequests' = RemoveAt(listOfRequests, i)
          /\ UNCHANGED <<canceled, cutShort>>
      BY <2>5 DEF CancelQueued
    <3>2. SomeReply
      BY <2>1, <2>4 DEF SomeReply, MaybeReq
    <3>3. CutAnswered'
      BY <1>0, <3>1, <3>2, AnswersKept
    <3>4. requestIsActive => Current' = Current
      BY <1>0, <3>1, TailOfRemoveAt DEF Current
    <3>5. CanceledIsCut'
      BY <1>0, <2>2, <3>1, <3>4 DEF CanceledIsCut
    <3>6. QED BY <2>3, <3>3, <3>5
  <2>6. CASE CancelActive(i)
    <3>1. /\ i = 1 /\ Current = listOfRequests[i]
          /\ cutShort' = cutShort \cup {Current} /\ UNCHANGED listOfRequests
      BY <2>6 DEF CancelActive, Current
    <3>2. /\ answers'[Current] # << >>
          /\ \A q \in Req \ {Current} : answers'[q] = answers[q]
      BY <1>0, <2>1, <2>4, <3>1, ReplyAnswers
    <3>3. CutAnswered'
      BY <1>0, <3>1, <3>2 DEF CutAnswered, CoreTypeOK
    <3>4. CanceledIsCut'
      BY <3>1 DEF CanceledIsCut, Current
    <3>5. QED BY <2>3, <3>3, <3>4
  <2>7. QED BY <2>1, <2>5, <2>6
<1>5. CASE SetId \/ RemoveIdentity \/ CredentialsSystemReady
  BY <1>1, <1>5
     DEF SetId, RemoveIdentity, CredentialsSystemReady, queueVars, countVars
<1>6. CASE StartNothing \/ StartLater
  BY <1>2, <1>6 DEF StartNothing, StartLater, ForgetCancel, countVars
<1>7. CASE StartProcess
  <2>1. Current \in Req
    BY <1>0, <1>7, CurrentType DEF StartProcess
  <2>2. UNCHANGED answers \/ SomeReply
    BY <1>7, <2>1 DEF StartProcess, SomeReply, MaybeReq
  <2>3. UNCHANGED <<cutShort, cancels>> /\ ~canceled'
    BY <1>7 DEF StartProcess, ForgetCancel
  <2>4. QED BY <1>2, <2>2, <2>3
<1>8. CASE QueryUiSlot \/ QueryUiSlotAsserts
  BY <1>1, <1>8 DEF QueryUiSlot, QueryUiSlotAsserts, queueVars, countVars
<1>9. ASSUME NEW of \in MaybeReq, ProcessResultReply(of) \/ ProcessError(of),
             UNCHANGED <<cutShort, cancels>>
      PROVE  CutAnswered' /\ CanceledIsCut' /\ CancelCounted'
  <2>1. CutAnswered'
    BY <1>0, <1>9, SlotReplies, AnswersKept
  <2>2. CanceledIsCut' /\ CancelCounted'
    BY <1>0, <1>9, SlotReplies DEF CanceledIsCut, CancelCounted, Current, queueVars
  <2>3. QED BY <2>1, <2>2
<1>10. CASE Output \/ End
  <2>1. UNCHANGED <<cutShort, cancels>>
    BY <1>10
       DEF Output, End, ResultArrives, ErrorArrives, ReportArrives, UiArrives,
           BrokenBlobArrives, PluginFinishes, FixedOnOutput, countVars
  <2>2. CASE UNCHANGED queueVars
    BY <1>1, <2>1, <2>2 DEF queueVars
  <2>3. NoReq \in MaybeReq
    BY DEF MaybeReq
  <2>4. CASE ResultArrives \/ ErrorArrives
    <3>1. Head(outFile).of \in MaybeReq
      BY <1>0, <2>4, ReadFinalType DEF ResultArrives, ErrorArrives, TypeOK
    <3>2. QED BY <1>9, <2>1, <2>2, <2>4, <3>1 DEF ResultArrives, ErrorArrives
  <2>5. CASE BrokenBlobArrives \/ PluginFinishes
    BY <1>9, <2>1, <2>2, <2>3, <2>5 DEF BrokenBlobArrives, PluginFinishes
  <2>6. CASE ReportArrives \/ UiArrives
    BY <2>2, <2>6 DEF ReportArrives, UiArrives
  <2>7. QED BY <1>10, <2>4, <2>5, <2>6 DEF Output, End
<1>11. CASE UiAnswers \/ Timer \/ Plugin
  BY <1>1, <1>11
     DEF UiAnswers, Timer, BecomeUnused, Destroy, Plugin, coreVars, queueVars, countVars
<1>12. QED
  BY <1>3, <1>4, <1>5, <1>6, <1>7, <1>8, <1>10, <1>11 DEF Next, Event, Call

\* Only a running process does anything, and without faults none crashes.
LEMMA RunningPlugin ==
    ASSUME ProcNext
    PROVE  procState = "running" /\ (FaultKinds = {} => procState' # "crashed")
<1>1. CASE StartTask
  <2>1. PICK m : Execute(m)
    BY <1>1 DEF StartTask
  <2>2. QED BY <1>1, <2>1 DEF StartTask, Execute
<1>2. CASE ~StartTask
  BY <1>2 DEF ProcNext, PluginCompletes, PluginReports, PluginAsks,
     StartTaskGarbled, CancelThreadReads, Crash, Fault
<1>3. QED BY <1>1, <1>2

LEMMA OverStep == RInv /\ Next => CancelOver'
<1> SUFFICES ASSUME RInv, Next, FaultKinds = {}
             PROVE  /\ procState' # "crashed"
                    /\ canceled' /\ ~requestIsActive' =>
                          /\ ~isProcessing'
                          /\ \/ isResultObtained'
                             \/ outFile' = << >> /\ procState' = "notRunning"
  BY DEF CancelOver
<1> DEFINE Over == /\ procState # "crashed"
                   /\ canceled /\ ~requestIsActive =>
                         /\ ~isProcessing
                         /\ \/ isResultObtained
                            \/ outFile = << >> /\ procState = "notRunning"
<1> SUFFICES Over'
  OBVIOUS
<1>0. Over
  BY DEF RInv, AnswerInv, CancelOver
<1>1. ASSUME UNCHANGED <<requestIsActive, canceled, proxyVars>>
      PROVE  Over'
  BY <1>0, <1>1 DEF proxyVars, procVars, flags
<1>2. ASSUME NEW op, NEW req, NEW ok \in BOOLEAN, Send(op, req, ok)
      PROVE  procState' # "crashed"
  BY <1>0, <1>2 DEF Send
<1>3. ASSUME NEW k \in Session, Cancel(k)
      PROVE  Over'
  <2>1. PICK i \in DOMAIN listOfRequests : CancelQueued(i) \/ CancelActive(i)
    BY <1>3 DEF Cancel
  <2>2. CASE CancelQueued(i)
    BY <1>1, <1>3, <2>2 DEF Cancel, CancelQueued
  <2>3. CASE CancelActive(i)
    BY <1>0, <1>3, <2>3 DEF Cancel, CancelActive, SendCancel
  <2>4. QED BY <2>1, <2>2, <2>3
<1>4. CASE (\E r \in Req : Process(r)) \/ SetId \/ RemoveIdentity \/ CredentialsSystemReady
  BY <1>1, <1>4
     DEF Process, SetId, RemoveIdentity, CredentialsSystemReady, queueVars
<1>5. CASE StartNothing \/ StartLater
  BY <1>0, <1>5 DEF StartNothing, StartLater, ForgetCancel, proxyVars, procVars
<1>6. CASE StartProcess
  <2>1. PICK ok \in BOOLEAN : SendProcess(Current, ok)
    BY <1>6 DEF StartProcess
  <2>2. procState' # "crashed" /\ ~canceled'
    BY <1>2, <1>6, <2>1 DEF SendProcess, StartProcess, ForgetCancel
  <2>3. QED BY <2>2
<1>7. CASE QueryUiSlot
  <2>1. UNCHANGED <<requestIsActive, canceled>>
    BY <1>7 DEF QueryUiSlot, queueVars
  <2>2. CASE UNCHANGED proxyVars
    BY <1>1, <2>1, <2>2
  <2>3. ASSUME ~canceled, NEW op, NEW ok \in BOOLEAN, SendUi(op, watcher.req, ok)
        PROVE  Over'
    BY <1>2, <2>1, <2>3 DEF SendUi
  <2>4. QED BY <1>7, <2>2, <2>3 DEF QueryUiSlot
<1>8. CASE QueryUiSlotAsserts \/ UiAnswers \/ Timer
  BY <1>1, <1>8
     DEF QueryUiSlotAsserts, UiAnswers, Timer, BecomeUnused, Destroy, queueVars
<1>9. CASE ResultArrives \/ ErrorArrives
  BY <1>0, <1>9 DEF ResultArrives, ErrorArrives, ReadFinal
<1>10. CASE ReportArrives \/ UiArrives
  <2>1. /\ UNCHANGED <<requestIsActive, canceled, procState, isResultObtained>>
        /\ outFile # << >>
        /\ UNCHANGED isProcessing \/ ~isResultObtained
    BY <1>10
       DEF ReportArrives, UiArrives, ReadOther, ReadForbiddenUi, Read, queueVars, flags
  <2>2. QED BY <1>0, <2>1
<1>11. CASE BrokenBlobArrives
  BY <1>11 DEF BrokenBlobArrives, ReadBrokenBlob, Fault
<1>12. CASE PluginFinishes
  BY <1>12 DEF PluginFinishes, ProcessFinished
<1>13. CASE Plugin
  <2>1. /\ procState = "running" /\ procState' # "crashed"
        /\ UNCHANGED <<requestIsActive, canceled, isResultObtained, isProcessing>>
    BY <1>13, RunningPlugin DEF Plugin, coreVars, queueVars, flags
  <2>2. QED BY <1>0, <2>1
<1>14. QED
  BY <1>3, <1>4, <1>5, <1>6, <1>7, <1>8, <1>9, <1>10, <1>11, <1>12, <1>13
     DEF Next, Event, Call, Output, End

LEMMA RInvInit == Init => RInv
<1> SUFFICES ASSUME Init
             PROVE  RInv
  OBVIOUS
<1>1. AnswerInv
  BY DEF Init, ProxyInit, ProcInit, CoreInit, AnswerInv, CutAnswered, CanceledIsCut,
         CancelCounted, CancelOver
<1>2. QED BY <1>1, InitInv DEF RInv

LEMMA RInvStep == RInv /\ [Next]_vars => RInv'
<1> SUFFICES ASSUME RInv, [Next]_vars
             PROVE  RInv'
  OBVIOUS
<1>1. IInv'
  BY StepInv DEF RInv
<1>2. CASE Next
  BY <1>1, <1>2, CutStep, OverStep DEF RInv, AnswerInv
<1>3. CASE UNCHANGED vars
  <2>1. AnswerInv'
    BY <1>3 DEF RInv, AnswerInv, CutAnswered, CanceledIsCut, CancelCounted,
       CancelOver, Current, vars, proxyVars, procVars, flags, coreVars, queueVars,
       countVars
  <2>2. QED BY <1>1, <2>1 DEF RInv
<1>4. QED BY <1>2, <1>3

-----------------------------------------------------------------------------
(* Every step of the session is one of the service, or none *)

\* Where no process fails or nothing is canceled.
NoFaultOrNoCancel == FaultKinds = {} \/ MaxCancel = 0

\* What the slots for results and errors take off the queue has been answered.
LEMMA CanceledIsActive ==
    ASSUME RInv, NoFaultOrNoCancel, canceled,
           \/ (ResultArrives \/ ErrorArrives) /\ ~isResultObtained
           \/ BrokenBlobArrives
           \/ PluginFinishes /\ FinishIsError
    PROVE  requestIsActive /\ Current \in cutShort
<1>1. FaultKinds = {}
  <2>1. cancels # 0 /\ cancels \in 0..MaxCancel
    BY DEF RInv, AnswerInv, CancelCounted, IInv, TypeOK, CoreTypeOK
  <2>2. MaxCancel # 0
    BY <2>1
  <2>3. QED BY <2>2 DEF NoFaultOrNoCancel
<1>2. requestIsActive
  <2>1. SUFFICES ASSUME ~requestIsActive
                 PROVE  FALSE
    OBVIOUS
  <2>2. /\ procState # "crashed" /\ ~isProcessing
        /\ isResultObtained \/ outFile = << >>
    BY <1>1, <2>1 DEF RInv, AnswerInv, CancelOver
  <2>3. CASE (ResultArrives \/ ErrorArrives) /\ ~isResultObtained
    BY <2>2, <2>3 DEF ResultArrives, ErrorArrives, ReadFinal, Read
  <2>4. CASE BrokenBlobArrives
    BY <1>1, <2>4 DEF BrokenBlobArrives, ReadBrokenBlob, Fault
  <2>5. CASE PluginFinishes /\ FinishIsError
    BY <2>2, <2>5 DEF FinishIsError
  <2>6. QED BY <2>3, <2>4, <2>5
<1>3. QED BY <1>2 DEF RInv, AnswerInv, CanceledIsCut

LEMMA SlotMaps ==
    ASSUME RInv, NEW of \in MaybeReq, ProcessResultReply(of) \/ ProcessError(of),
           canceled => Current \in cutShort
    PROVE  Service!SNext \/ UNCHANGED Service!svars
<1>0. TypeOK /\ CoreTypeOK /\ CutAnswered
  BY DEF RInv, IInv, TypeOK, AnswerInv
<1>1. CASE NoRequests /\ UNCHANGED queueVars
  BY <1>1, StutterMaps DEF queueVars
<1>2. CASE ~NoRequests /\ canceled /\ RequestDone(events) /\ UNCHANGED answers
  <2>1. Current \in Req /\ answers[Current] # << >>
    BY <1>0, <1>2, CurrentType DEF CutAnswered
  <2>2. Answered' = Answered \cup {Current}
    BY <1>2, <2>1 DEF Answered
  <2>3. QED BY <1>0, <1>2, <2>2, LeaveMaps
<1>3. ASSUME ~NoRequests, RequestDone(events), NEW kind, Reply(Current, kind, of)
      PROVE  Service!SNext
  <2>1. Answered' = Answered \cup {Current}
    BY <1>0, <1>3, CurrentType, ReplyAnswers
  <2>2. QED BY <1>0, <1>3, <2>1, LeaveMaps
<1>4. QED BY <1>1, <1>2, <1>3 DEF ProcessResultReply, ProcessError

LEMMA StepMaps ==
    ASSUME RInv, NoFaultOrNoCancel, Next
    PROVE  Service!SNext \/ UNCHANGED Service!svars
<1>0. /\ TypeOK /\ CoreTypeOK /\ QueueInv
      /\ requestIsActive => ~NoRequests
  BY DEF RInv, IInv, TypeOK, QueueInv, ActiveHead
<1>1. ASSUME NEW r \in Req, Process(r)
      PROVE  Service!SNext
  BY <1>0, <1>1, JoinMaps DEF Process
<1>2. ASSUME NEW k \in Session, Cancel(k)
      PROVE  Service!SNext
  <2>1. PICK i \in DOMAIN listOfRequests :
           /\ CancelQueued(i) \/ CancelActive(i)
           /\ Reply(listOfRequests[i], "canceled", listOfRequests[i])
    BY <1>2 DEF Cancel
  <2>2. listOfRequests[i] \in Req /\ UNCHANGED requestIsActive
    BY <1>0, <1>2, LenProperties, ElementOfSeq DEF CoreTypeOK, Cancel
  <2>3. Answered' = Answered \cup {listOfRequests[i]}
    BY <1>0, <2>1, <2>2, ReplyAnswers
  <2>4. CASE CancelQueued(i)
    BY <1>0, <2>2, <2>3, <2>4, WithdrawMaps DEF CancelQueued
  <2>5. CASE CancelActive(i)
    <3>1. /\ i = 1 /\ requestIsActive /\ Current = listOfRequests[1]
          /\ UNCHANGED listOfRequests
      BY <2>5 DEF CancelActive, Current
    <3>2. /\ UNCHANGED <<Waiting, InService>>
          /\ InService = listOfRequests[i] /\ InService # NoReq
      BY <2>2, <3>1, ReqAssumption DEF Waiting, InService, Current
    <3>3. Service!CancelInService
      BY <2>3, <3>2 DEF Service!CancelInService
    <3>4. QED BY <3>3 DEF Service!SNext
  <2>6. QED BY <2>1, <2>4, <2>5
<1>3. CASE SetId \/ RemoveIdentity \/ CredentialsSystemReady
  BY <1>3, StutterMaps DEF SetId, RemoveIdentity, CredentialsSystemReady, queueVars
<1>4. CASE StartProcess
  <2>1. ~NoRequests /\ ~requestIsActive
    BY <1>4 DEF StartProcess, Busy
  <2>2. CASE requestIsActive' = TRUE /\ UNCHANGED <<listOfRequests, answers>>
    BY <2>1, <2>2, BeginMaps
  <2>3. CASE Reply(Current, "error", NoReq) /\ RequestDone(Tail(events))
    <3>1. Answered' = Answered \cup {Current}
      BY <1>0, <2>1, <2>3, CurrentType, ReplyAnswers
    <3>2. QED BY <1>0, <2>1, <2>3, <3>1, LeaveMaps
  <2>4. QED BY <1>4, <2>2, <2>3 DEF StartProcess
<1>5. CASE StartNothing \/ StartLater \/ QueryUiSlot \/ QueryUiSlotAsserts
  BY <1>5, StutterMaps
     DEF StartNothing, StartLater, QueryUiSlot, QueryUiSlotAsserts, queueVars
<1>6. CASE ResultArrives \/ ErrorArrives
  <2>1. CASE isResultObtained
    BY <1>6, <2>1, StutterMaps DEF ResultArrives, ErrorArrives, queueVars
  <2>2. CASE ~isResultObtained
    <3>1. Head(outFile).of \in MaybeReq
      BY <1>0, <1>6, ReadFinalType DEF ResultArrives, ErrorArrives, TypeOK
    <3>2. canceled => Current \in cutShort
      BY <1>6, <2>2, CanceledIsActive
    <3>3. QED BY <1>6, <2>2, <3>1, <3>2, SlotMaps DEF ResultArrives, ErrorArrives
  <2>3. QED BY <2>1, <2>2
<1>7. CASE ReportArrives \/ UiArrives
  BY <1>7, StutterMaps DEF ReportArrives, UiArrives, queueVars
<1>8. CASE BrokenBlobArrives
  <2>1. canceled => Current \in cutShort
    BY <1>8, CanceledIsActive
  <2>2. QED BY <1>8, <2>1, SlotMaps DEF BrokenBlobArrives, MaybeReq
<1>9. CASE PluginFinishes
  <2>1. CASE FinishIsError
    <3>1. canceled => Current \in cutShort
      BY <1>9, <2>1, CanceledIsActive
    <3>2. QED BY <1>9, <2>1, <3>1, SlotMaps DEF PluginFinishes, MaybeReq
  <2>2. CASE ~FinishIsError
    BY <1>9, <2>2, StutterMaps DEF PluginFinishes, queueVars
  <2>3. QED BY <2>1, <2>2
<1>10. CASE UiAnswers \/ Timer \/ Plugin
  BY <1>10, StutterMaps
     DEF UiAnswers, Timer, BecomeUnused, Destroy, Plugin, coreVars, queueVars
<1>11. QED
  BY <1>1, <1>2, <1>3, <1>4, <1>5, <1>6, <1>7, <1>8, <1>9, <1>10
     DEF Next, Event, Call, Output, End

LEMMA InitMaps == Init => Service!SInit
<1> SUFFICES ASSUME Init
             PROVE  Service!SInit
  OBVIOUS
<1>1. Waiting = << >> /\ InService = NoReq /\ Answered = {}
  BY DEF Init, CoreInit, Waiting, InService, Answered
<1>2. QED BY <1>1 DEF Service!SInit

\* The session core serves its requests one at a time, in the order they came,
\* and lets none go without an answer, whatever is canceled, as long as no
\* plugin process fails, and whatever fails, as long as nothing is canceled.
\* (With both it does not: the plugin's reply to a request that was canceled,
\* and the end of its process, may both be handled before the next start resets
\* m_canceled; the second then takes the next request off, unanswered.)
THEOREM ImplementsServiceHolds ==
    ASSUME FaultKinds = {} \/ MaxCancel = 0
    PROVE  Spec => ImplementsService
<1>1. Init => Service!SInit
  BY InitMaps
<1>2. RInv /\ [Next]_vars => [Service!SNext]_Service!svars
  <2> SUFFICES ASSUME RInv, [Next]_vars
               PROVE  Service!SNext \/ UNCHANGED Service!svars
    OBVIOUS
  <2>1. CASE Next
    BY <2>1, StepMaps DEF NoFaultOrNoCancel
  <2>2. CASE UNCHANGED vars
    BY <2>2, StutterMaps DEF vars, coreVars, queueVars
  <2>3. QED BY <2>1, <2>2
<1>3. QED
  BY <1>1, <1>2, RInvInit, RInvStep, PTL DEF Spec, ImplementsService, Service!SSpec

-----------------------------------------------------------------------------
(* Whose answer, and whose credentials                                       *)
(*                                                                           *)
(* As long as nothing fails or is canceled the work for the active request   *)
(* is in one place: on its way to the plugin, with the plugin, in what the   *)
(* plugin has said, or in a dialog.  There is none without an active one.    *)

Reports == {"store", "signal"}

\* Unread output that only reports progress for c.
Progress(s, c) ==
    \A i \in DOMAIN s : s[i].op \in Reports /\ s[i].of = c

\* Unread output that ends with one of these words.
EndsWith(s, c, words) ==
    /\ s # << >>
    /\ s[Len(s)].op \in words
    /\ \A i \in DOMAIN s : s[i].of = c /\ (i # Len(s) => s[i].op \in Reports)

Sent ==
    /\ \E op \in {"process", "processUi", "refresh"} :
          pipe = <<[op |-> op, of |-> Current]>>
    /\ outFile = << >>
    /\ task.phase \in {"idle", "asking"}
    /\ watcher = NoWatcher

Working ==
    /\ pipe = << >>
    /\ Progress(outFile, Current)
    /\ CancelThreadRunning /\ task.req = Current
    /\ watcher = NoWatcher

Asked ==
    /\ pipe = << >>
    /\ EndsWith(outFile, Current, {"ui", "refreshed"})
    /\ task.phase = "asking"
    /\ watcher = NoWatcher

InDialog ==
    /\ pipe = << >>
    /\ outFile = << >>
    /\ task.phase = "asking"
    /\ watcher.state \in {"pending", "finished"} /\ watcher.req = Current

Done ==
    /\ pipe = << >>
    /\ EndsWith(outFile, Current, {"result", "error"})
    /\ task = Idle
    /\ watcher = NoWatcher

AtWork == tmp = Current /\ (Sent \/ Working \/ Asked \/ InDialog \/ Done)

AtRest == pipe = << >> /\ outFile = << >> /\ task = Idle /\ watcher = NoWatcher

\* The answer to a dialog is posted once, while its watcher is there.
UiOnce(es, w) ==
    /\ \A i, j \in DOMAIN es : es[i] = "ui" /\ es[j] = "ui" => i = j
    /\ "ui" \in ToSet(es) => w.state = "finished"

OnePlace ==
    /\ procState = "running" /\ ~garbled /\ inFile = << >>
    /\ UiOnce(events, watcher)
    /\ requestIsActive => AtWork
    /\ ~requestIsActive => AtRest

OwnInv == RInv /\ OwnAnswer /\ (faults = << >> => OnePlace)

-----------------------------------------------------------------------------
(* Reading and writing the plugin's output *)

LEMMA WordAppended ==
    ASSUME NEW s \in Seq(Response), NEW c \in MaybeReq, Progress(s, c),
           NEW op \in Responses
    PROVE  LET t == Append(s, [op |-> op, of |-> c]) IN
           /\ op \in Reports => Progress(t, c)
           /\ \A words : op \in words => EndsWith(t, c, words)
<1> DEFINE e == [op |-> op, of |-> c]
           t == Append(s, e)
           n == Len(s)
<1>1. e \in Response
  BY DEF Response
<1>2. /\ n \in Nat /\ DOMAIN s = 1..n /\ t \in Seq(Response) /\ t # << >>
      /\ Len(t) = n + 1 /\ \A i \in 1..n : t[i] = s[i]
      /\ t[n + 1] = e
  BY <1>1, LenProperties, AppendProperties
<1>3. e.op = op /\ e.of = c
  OBVIOUS
<1>4. DOMAIN t = 1..(n + 1)
  BY <1>2, LenProperties
<1> HIDE DEF t, n, e
<1>5. op \in Reports => Progress(t, c)
  BY <1>2, <1>3, <1>4 DEF Progress
<1>6. ASSUME NEW words, op \in words
      PROVE  EndsWith(t, c, words)
  BY <1>2, <1>3, <1>4, <1>6 DEF EndsWith, Progress
<1>7. QED BY <1>5, <1>6 DEF t, e

LEMMA ProgressRead ==
    ASSUME NEW s \in Seq(Response), NEW c, Progress(s, c), s # << >>
    PROVE  Head(s).op \in Reports /\ Head(s).of = c /\ Progress(Tail(s), c)
<1>1. /\ Len(s) \in Nat \ {0} /\ DOMAIN s = 1..Len(s) /\ Head(s) = s[1]
      /\ Tail(s) \in Seq(Response) /\ Len(Tail(s)) = Len(s) - 1
      /\ \A i \in 1..Len(Tail(s)) : Tail(s)[i] = s[i + 1]
  BY HeadTailProperties, LenProperties, EmptySeq
<1>2. DOMAIN Tail(s) = 1..(Len(s) - 1)
  BY <1>1, LenProperties
<1>3. QED BY <1>1, <1>2 DEF Progress

LEMMA LastRead ==
    ASSUME NEW s \in Seq(Response), NEW c, NEW words, EndsWith(s, c, words)
    PROVE  /\ Head(s).of = c
           /\ Head(s).op \in Reports \cup words
           /\ Head(s).op \notin words => EndsWith(Tail(s), c, words)
           /\ Head(s).op \notin Reports => Tail(s) = << >>
<1>1. /\ Len(s) \in Nat \ {0} /\ DOMAIN s = 1..Len(s) /\ Head(s) = s[1]
      /\ Tail(s) \in Seq(Response) /\ Len(Tail(s)) = Len(s) - 1
      /\ \A i \in 1..Len(Tail(s)) : Tail(s)[i] = s[i + 1]
  BY HeadTailProperties, LenProperties, EmptySeq DEF EndsWith
<1>2. DOMAIN Tail(s) = 1..(Len(s) - 1)
  BY <1>1, LenProperties
<1>3. CASE Len(s) = 1
  <2>1. Tail(s) = << >>
    <3> DEFINE t == Tail(s)
    <3>1. t \in Seq(Response) /\ Len(t) = 0
      BY <1>1, <1>3
    <3> HIDE DEF t
    <3>2. t = << >>
      BY <3>1, EmptySeq
    <3>3. QED BY <3>2 DEF t
  <2>2. QED BY <1>1, <1>3, <2>1 DEF EndsWith
<1>4. CASE Len(s) # 1
  <2>1. /\ Head(s).op \in Reports /\ Head(s).of = c
    BY <1>1, <1>4 DEF EndsWith
  <2>2. EndsWith(Tail(s), c, words)
    <3>1. Tail(s) # << >>
      <4>1. 1 \in DOMAIN Tail(s) /\ DOMAIN << >> = {}
        BY <1>1, <1>2, <1>4
      <4>2. QED BY <4>1
    <3>2. Tail(s)[Len(Tail(s))].op \in words
      BY <1>1, <1>4 DEF EndsWith
    <3>3. ASSUME NEW i \in DOMAIN Tail(s)
          PROVE  /\ Tail(s)[i].of = c
                 /\ i # Len(Tail(s)) => Tail(s)[i].op \in Reports
      <4>1. i + 1 \in DOMAIN s /\ (i # Len(Tail(s)) => i + 1 # Len(s))
        BY <1>1, <1>2
      <4>2. QED BY <1>1, <1>2, <4>1 DEF EndsWith
    <3>4. QED BY <3>1, <3>2, <3>3 DEF EndsWith
  <2>3. QED BY <2>1, <2>2
<1>5. QED BY <1>3, <1>4

\* What is read is for the active request, and tells where its work is.
LEMMA WordRead ==
    ASSUME TypeOK, OnePlace, outFile # << >>
    PROVE  /\ requestIsActive /\ Head(outFile).of = Current
           /\ Head(outFile).op \in {"result", "error"} => Done /\ Tail(outFile) = << >>
           /\ Head(outFile).op \in {"ui", "refreshed"} => Asked /\ Tail(outFile) = << >>
           /\ Head(outFile).op \in Reports =>
                 \/ Working /\ Progress(Tail(outFile), Current)
                 \/ Asked /\ EndsWith(Tail(outFile), Current, {"ui", "refreshed"})
                 \/ Done /\ EndsWith(Tail(outFile), Current, {"result", "error"})
<1>1. requestIsActive /\ (Working \/ Asked \/ Done) /\ outFile \in Seq(Response)
  BY DEF OnePlace, AtWork, AtRest, Sent, InDialog, TypeOK, ProxyTypeOK, ProcTypeOK
<1>2. CASE Working
  BY <1>1, <1>2, ProgressRead DEF Working, Reports
<1>3. CASE Asked
  BY <1>1, <1>3, LastRead DEF Asked, Reports
<1>4. CASE Done
  BY <1>1, <1>4, LastRead DEF Done, Reports
<1>5. QED BY <1>1, <1>2, <1>3, <1>4

-----------------------------------------------------------------------------
(* The posted answer *)

LEMMA UiOncePosted ==
    ASSUME NEW es \in Seq(Posted), NEW e \in Posted, NEW w, UiOnce(es, w),
           e = "ui" => "ui" \notin ToSet(es) /\ w.state = "finished"
    PROVE  UiOnce(Append(es, e), w)
<1> DEFINE t == Append(es, e)
           n == Len(es)
<1>1. /\ n \in Nat /\ DOMAIN es = 1..n /\ t \in Seq(Posted) /\ Len(t) = n + 1
      /\ \A j \in 1..n : t[j] = es[j]
      /\ t[n + 1] = e
  BY LenProperties, AppendProperties
<1>2. DOMAIN t = 1..(n + 1)
  BY <1>1, LenProperties
<1> HIDE DEF t, n
<1>3. \A j \in DOMAIN t : (j \in DOMAIN es /\ t[j] = es[j]) \/ (j = n + 1 /\ t[j] = e)
  BY <1>1, <1>2
<1>4. \A i, j \in DOMAIN t : t[i] = "ui" /\ t[j] = "ui" => i = j
  BY <1>3 DEF UiOnce, ToSet
<1>5. "ui" \in ToSet(t) => w.state = "finished"
  BY <1>3 DEF UiOnce, ToSet
<1>6. QED BY <1>4, <1>5 DEF UiOnce, t

LEMMA UiOnceDelivered ==
    ASSUME NEW es \in Seq(Posted), es # << >>, NEW w, UiOnce(es, w)
    PROVE  /\ UiOnce(Tail(es), w)
           /\ Head(es) = "ui" => "ui" \notin ToSet(Tail(es))
<1> DEFINE t == Tail(es)
<1>1. /\ Len(es) \in Nat \ {0} /\ DOMAIN es = 1..Len(es)
      /\ Head(es) = es[1]
      /\ t \in Seq(Posted) /\ Len(t) = Len(es) - 1
      /\ \A i \in 1..Len(t) : t[i] = es[i + 1]
  BY HeadTailProperties, LenProperties, EmptySeq
<1>2. DOMAIN t = 1..Len(t)
  BY <1>1, LenProperties
<1> HIDE DEF t
<1>3. \A i \in DOMAIN t : i \in Int /\ i + 1 \in DOMAIN es /\ i + 1 # 1 /\ t[i] = es[i + 1]
  BY <1>1, <1>2
<1>4. ASSUME NEW i \in DOMAIN t, NEW j \in DOMAIN t, t[i] = "ui", t[j] = "ui"
      PROVE  i = j
  <2>1. i + 1 = j + 1
    BY <1>3, <1>4 DEF UiOnce
  <2>2. QED BY <1>3, <2>1
<1>5. "ui" \in ToSet(t) => "ui" \in ToSet(es) /\ Head(es) # "ui"
  <2>1. ASSUME "ui" \in ToSet(t)
        PROVE  "ui" \in ToSet(es) /\ Head(es) # "ui"
    <3>1. PICK i \in DOMAIN t : t[i] = "ui"
      BY <2>1 DEF ToSet
    <3>2. es[i + 1] = "ui" /\ i + 1 \in DOMAIN es /\ i + 1 # 1 /\ 1 \in DOMAIN es
      BY <1>1, <1>3, <3>1
    <3>3. "ui" \in ToSet(es)
      BY <3>2 DEF ToSet
    <3>4. es[1] # "ui"
      BY <3>2 DEF UiOnce
    <3>5. QED BY <1>1, <3>3, <3>4
  <2>2. QED BY <2>1
<1>6. QED BY <1>4, <1>5 DEF UiOnce, t

\* No dialog's answer is posted: none is taken away.
LEMMA NoUiTaken ==
    ASSUME NEW es, "ui" \notin ToSet(es)
    PROVE  WithoutUi(es) = es
BY DEF WithoutUi, ToSet

-----------------------------------------------------------------------------
(* The work stays in one place *)

\* Without cancels, and with plugins that wait for their dialogs.
Undisturbed == MaxCancel = 0 /\ EndsDialogs = FALSE

LEMMA NeverCanceled == RInv /\ Undisturbed => ~canceled /\ ~(cancels < MaxCancel)
BY DEF RInv, AnswerInv, CancelCounted, IInv, TypeOK, CoreTypeOK, Undisturbed

\* The one operation of the pipe is buffered, and taken.
LEMMA OneOperation ==
    ASSUME NEW m
    PROVE  /\ << >> \o SubSeq(<<m>>, 1, 1) = <<m>>
           /\ Head(<<m>>) = m /\ Tail(<<m>>) = << >>
           /\ SubSeq(<<m>>, 1 + 1, Len(<<m>>)) = << >>
<1>1. <<m>> \in Seq({m}) /\ Len(<<m>>) = 1 /\ Head(<<m>>) = m /\ Tail(<<m>>) = << >>
  OBVIOUS
<1>2. SubSeq(<<m>>, 1, 1) = <<m>>
  <2>1. SubSeq(<<m>>, 1, Len(<<m>>)) = <<m>>
    BY <1>1, SubSeqFull
  <2>2. QED BY <1>1, <2>1
<1>3. SubSeq(<<m>>, 1 + 1, 1) = << >>
  BY SubSeqEmpty
<1>4. << >> \o <<m>> = <<m>>
  BY <1>1, ConcatEmptySeq
<1>5. QED BY <1>1, <1>2, <1>3, <1>4

\* With the work where it is, the plugin moves it on.
LEMMA PluginMovesWork ==
    ASSUME TypeOK, Undisturbed, OnePlace, Plugin, UNCHANGED faults
    PROVE  OnePlace'
<1>0. /\ UNCHANGED <<listOfRequests, requestIsActive, watcher, tmp, events>>
      /\ outFile \in Seq(Response) /\ ProcNext
      /\ Current' = Current /\ (requestIsActive => tmp = Current)
      /\ procState = "running" /\ ~garbled /\ inFile = << >>
      /\ UiOnce(events', watcher')
      /\ faults \in Seq(FaultKinds)
  BY DEF Plugin, coreVars, queueVars, TypeOK, ProxyTypeOK, ProcTypeOK, Current,
         OnePlace, AtWork
<1>1. CancelThreadRunning => requestIsActive /\ Working
  BY DEF OnePlace, AtWork, AtRest, Sent, Asked, InDialog, Done, CancelThreadRunning, Idle
<1>2. Working /\ requestIsActive => Current \in MaybeReq
  BY DEF Working, TypeOK, ProxyTypeOK, ProcTypeOK
<1>3. ASSUME procState' = "running", ~garbled', inFile' = << >>,
             requestIsActive, Working' \/ Asked' \/ Done'
      PROVE  OnePlace'
  BY <1>0, <1>3 DEF OnePlace, AtWork
<1>4. CASE PluginCompletes
  <2>1. Working /\ requestIsActive
    BY <1>1, <1>4 DEF PluginCompletes, Undisturbed, CancelThreadRunning, TypeOK,
                      ProxyTypeOK, ProcTypeOK, Phases
  <2>2. PICK kind \in {"result", "error"} :
           outFile' = Append(outFile, [op |-> kind, of |-> Current])
    BY <1>4, <2>1 DEF PluginCompletes, Respond, Working
  <2>3. EndsWith(outFile', Current, {"result", "error"})
    BY <1>0, <1>2, <2>1, <2>2, WordAppended DEF Working, Responses
  <2>4. Done'
    BY <1>0, <1>4, <2>1, <2>3 DEF PluginCompletes, Done, Working, Idle, NoWatcher
  <2>5. QED BY <1>0, <1>3, <1>4, <2>1, <2>4 DEF PluginCompletes
<1>5. CASE PluginReports
  <2>1. Working /\ requestIsActive
    BY <1>1, <1>5 DEF PluginReports, CancelThreadRunning
  <2>2. PICK kind \in {"store", "signal"} :
           outFile' = Append(outFile, [op |-> kind, of |-> Current])
    BY <1>5, <2>1 DEF PluginReports, Respond, Working
  <2>3. Progress(outFile', Current)
    BY <1>0, <1>2, <2>1, <2>2, WordAppended DEF Working, Responses, Reports
  <2>4. Working'
    BY <1>0, <1>5, <2>1, <2>3
       DEF PluginReports, Working, CancelThreadRunning, NoWatcher
  <2>5. QED BY <1>0, <1>3, <1>5, <2>1, <2>4 DEF PluginReports
<1>6. CASE PluginAsks
  <2>1. Working /\ requestIsActive
    BY <1>1, <1>6 DEF PluginAsks, CancelThreadRunning
  <2>2. PICK kind \in {"ui", "refreshed"} :
           outFile' = Append(outFile, [op |-> kind, of |-> Current])
    BY <1>6, <2>1 DEF PluginAsks, Respond, Working
  <2>3. EndsWith(outFile', Current, {"ui", "refreshed"})
    BY <1>0, <1>2, <2>1, <2>2, WordAppended DEF Working, Responses
  <2>4. task'.phase = "asking"
    BY <1>6 DEF PluginAsks, TypeOK, ProxyTypeOK, ProcTypeOK
  <2>5. Asked'
    BY <1>0, <1>6, <2>1, <2>3, <2>4 DEF PluginAsks, Asked, Working, NoWatcher
  <2>6. QED BY <1>0, <1>3, <1>6, <2>1, <2>5 DEF PluginAsks
<1>7. CASE StartTask
  <2>1. requestIsActive /\ Sent
    BY <1>0, <1>7 DEF StartTask, OnePlace, AtWork, AtRest, Working, Asked, InDialog, Done
  <2>2. PICK op \in {"process", "processUi", "refresh"} :
           pipe = <<[op |-> op, of |-> Current]>>
    BY <2>1 DEF Sent
  <2> DEFINE m == [op |-> op, of |-> Current]
  <2>3. PICK n \in 0..Len(pipe) :
           /\ inFile \o SubSeq(pipe, 1, n) # << >>
           /\ Execute(Head(inFile \o SubSeq(pipe, 1, n)))
           /\ inFile' = Tail(inFile \o SubSeq(pipe, 1, n))
           /\ pipe' = SubSeq(pipe, n + 1, Len(pipe))
    BY <1>7 DEF StartTask
  <2>4. n = 1
    <3>1. Len(pipe) = 1 /\ n \in {0, 1}
      BY <2>2
    <3>2. SubSeq(pipe, 1, 0) = << >>
      BY SubSeqEmpty
    <3>3. QED BY <1>0, <2>3, <3>1, <3>2
  <2>5. pipe = <<m>> /\ inFile = << >>
    BY <1>0, <2>2
  <2> HIDE DEF m
  <2>6. Execute(m) /\ inFile' = << >> /\ pipe' = << >>
    <3>1. Execute(Head(<< >> \o SubSeq(<<m>>, 1, 1)))
      BY <2>3, <2>4, <2>5
    <3>2. inFile' = Tail(<< >> \o SubSeq(<<m>>, 1, 1))
      BY <2>3, <2>4, <2>5
    <3>3. pipe' = SubSeq(<<m>>, 1 + 1, Len(<<m>>))
      BY <2>3, <2>4, <2>5
    <3>4. QED BY <3>1, <3>2, <3>3, OneOperation
  <2>7. /\ task'.phase \in {"working", "refreshing"} /\ task'.req = Current
        /\ UNCHANGED <<outFile, procState>>
    <3>1. m.op \in {"process", "processUi", "refresh"} /\ m.of = Current
      BY DEF m
    <3>2. QED BY <2>6, <3>1 DEF Execute
  <2>8. Working'
    <3>1. DOMAIN outFile' = {}
      BY <2>1, <2>7 DEF Sent
    <3>2. QED
      BY <1>0, <2>1, <2>6, <2>7, <3>1
         DEF Working, Sent, Progress, CancelThreadRunning, NoWatcher
  <2>9. QED BY <1>0, <1>3, <1>7, <2>1, <2>6, <2>7, <2>8 DEF StartTask
<1>8. CASE StartTaskGarbled
  BY <1>0, <1>8 DEF StartTaskGarbled
<1>9. CASE CancelThreadReads
  BY <1>1, <1>9 DEF CancelThreadReads, Working
<1>10. CASE Crash
  <2>1. PICK kind \in FaultKinds : faults' = Append(faults, kind)
    BY <1>10 DEF Crash, Fault
  <2>2. Len(faults') = Len(faults) + 1 /\ Len(faults) \in Nat
    BY <1>0, <2>1, AppendProperties, LenProperties
  <2>3. QED BY <2>2
<1>11. QED
  BY <1>0, <1>4, <1>5, <1>6, <1>7, <1>8, <1>9, <1>10 DEF ProcNext

\* The result, or the error, of the active request puts the work to rest.
LEMMA ReplyEndsWork ==
    ASSUME TypeOK, OnePlace, requestIsActive, ~NoRequests, ~canceled, Done,
           NEW of, ProcessResultReply(of) \/ ProcessError(of),
           outFile' = << >>, UNCHANGED <<pipe, inFile, garbled, task, procState>>
    PROVE  OnePlace'
<1>1. RequestDone(events) /\ DropPendingUi
  BY DEF ProcessResultReply, ProcessError
<1>2. ~requestIsActive' /\ events' = Append(events, "start")
  BY <1>1 DEF RequestDone
<1>3. watcher' = watcher /\ watcher' = NoWatcher
  BY <1>1 DEF DropPendingUi, Done, NoWatcher
<1>4. UiOnce(events', watcher')
  <2>1. events \in Seq(Posted) /\ UiOnce(events, watcher)
    BY DEF TypeOK, CoreTypeOK, OnePlace
  <2>2. UiOnce(Append(events, "start"), watcher)
    BY <2>1, UiOncePosted DEF Posted
  <2>3. QED BY <1>2, <1>3, <2>2
<1>5. AtRest'
  BY <1>3 DEF AtRest, Done, Idle, NoWatcher
<1>6. QED BY <1>2, <1>4, <1>5 DEF OnePlace

LEMMA OnePlaceStep ==
    ASSUME RInv, Undisturbed, OnePlace, Next, UNCHANGED faults
    PROVE  OnePlace'
<1>0. /\ TypeOK /\ ~canceled
      /\ events \in Seq(Posted) /\ UiOnce(events, watcher)
      /\ requestIsActive => ~NoRequests /\ ~isResultObtained
      /\ procState = "running"
      /\ listOfRequests \in Seq(Req)
  BY NeverCanceled DEF RInv, IInv, ActiveIsAwaited, TypeOK, CoreTypeOK, OnePlace
<1>1. ASSUME UNCHANGED <<pipe, inFile, garbled, outFile, task, procState>>,
             UNCHANGED <<requestIsActive, watcher, tmp>>,
             requestIsActive => Current' = Current,
             UiOnce(events', watcher')
      PROVE  OnePlace'
  BY <1>0, <1>1
     DEF OnePlace, AtWork, AtRest, Sent, Working, Asked, InDialog, Done, Idle,
         NoWatcher, CancelThreadRunning
<1>2. UiOnce(Append(events, "start"), watcher)
  BY <1>0, UiOncePosted DEF Posted
<1>3. ASSUME NEW e, NextEvent(e)
      PROVE  UiOnce(Tail(events), watcher)
  BY <1>0, <1>3, UiOnceDelivered DEF NextEvent
<1>4. ASSUME NEW r \in Req, Process(r)
      PROVE  OnePlace'
  <2>1. requestIsActive => Current' = Current
    BY <1>0, <1>4, HeadTailAppend DEF Process, Current, NoRequests
  <2>2. UiOnce(events', watcher')
    BY <1>0, <1>2, <1>4 DEF Process
  <2>3. QED BY <1>1, <1>4, <2>1, <2>2 DEF Process, proxyVars, procVars
<1>5. ASSUME NEW k \in Session, Cancel(k)
      PROVE  FALSE
  BY <1>5, NeverCanceled DEF Cancel
<1>6. CASE SetId \/ RemoveIdentity \/ CredentialsSystemReady
  <2>1. UiOnce(events', watcher')
    BY <1>0, <1>2, <1>6 DEF SetId, RemoveIdentity, CredentialsSystemReady
  <2>2. QED
    BY <1>1, <1>6, <2>1
       DEF SetId, RemoveIdentity, CredentialsSystemReady, queueVars, proxyVars,
           procVars, Current
<1>7. CASE StartNothing \/ StartLater
  <2>1. UiOnce(events', watcher')
    BY <1>3, <1>7 DEF StartNothing, StartLater
  <2>2. QED
    BY <1>1, <1>7, <2>1 DEF StartNothing, StartLater, proxyVars, procVars, Current
<1>8. CASE StartProcess
  <2>1. ~requestIsActive /\ AtRest
    BY <1>8 DEF StartProcess, Busy, OnePlace
  <2>2. CASE /\ SendProcess(Current, TRUE) /\ requestIsActive' = TRUE
             /\ events' = Tail(events) /\ UNCHANGED listOfRequests
    <3>1. /\ pipe' = Append(<< >>, [op |-> "process", of |-> Current])
          /\ UNCHANGED <<inFile, garbled, outFile, task, procState>>
      BY <1>0, <2>1, <2>2 DEF SendProcess, Send, Write, AtRest
    <3>2. pipe' = <<[op |-> "process", of |-> Current]>>
      BY <3>1
    <3>3. UNCHANGED watcher /\ tmp' = Current /\ Current' = Current
      BY <1>8, <2>2 DEF StartProcess, Current
    <3>4. Sent'
      BY <2>1, <3>1, <3>2, <3>3 DEF Sent, AtRest, Idle, NoWatcher
    <3>5. AtWork'
      BY <3>3, <3>4 DEF AtWork
    <3>6. UiOnce(events', watcher')
      BY <1>3, <1>8, <2>2, <3>3 DEF StartProcess
    <3>7. QED BY <2>2, <3>1, <3>5, <3>6 DEF OnePlace
  <2>3. ~SendProcess(Current, FALSE)
    BY <1>0 DEF SendProcess, Send
  <2>4. QED BY <1>8, <2>2, <2>3 DEF StartProcess
<1>9. CASE QueryUiSlot
  <2>1. "ui" \in ToSet(events) /\ events # << >> /\ Head(events) = "ui"
    <3>1. events # << >> /\ Head(events) = "ui" /\ Head(events) = events[1]
      BY <1>9 DEF QueryUiSlot, NextEvent
    <3>2. 1 \in DOMAIN events
      BY <1>0, <3>1, RemoveFirstIsTail
    <3>3. QED BY <3>1, <3>2 DEF ToSet
  <2>2. watcher.state = "finished"
    BY <1>0, <2>1 DEF UiOnce
  <2>3. requestIsActive /\ InDialog
    BY <2>2 DEF OnePlace, AtWork, AtRest, Sent, Working, Asked, Done, NoWatcher
  <2>4. PICK op \in {"processUi", "refresh"}, ok \in BOOLEAN : SendUi(op, Current, ok)
    BY <1>0, <1>9, <2>3 DEF QueryUiSlot, InDialog
  <2>5. /\ pipe' = Append(<< >>, [op |-> op, of |-> Current])
        /\ UNCHANGED <<inFile, garbled, outFile, task, procState>>
    BY <1>0, <2>3, <2>4 DEF SendUi, Send, Write, InDialog
  <2>6. pipe' = <<[op |-> op, of |-> Current]>>
    BY <2>5
  <2>7. /\ watcher' = NoWatcher /\ tmp' = Current /\ Current' = Current
        /\ UNCHANGED requestIsActive
    BY <1>0, <1>9, <2>3 DEF QueryUiSlot, InDialog, queueVars, Current
  <2>8. Sent'
    BY <2>3, <2>5, <2>6, <2>7 DEF Sent, InDialog, NoWatcher
  <2>9. UiOnce(events', watcher')
    <3>1. UiOnce(Tail(events), watcher) /\ "ui" \notin ToSet(Tail(events))
      BY <1>0, <2>1, UiOnceDelivered
    <3>2. events' = Tail(events)
      BY <1>9 DEF QueryUiSlot
    <3>3. QED BY <3>1, <3>2 DEF UiOnce
  <2>10. QED BY <2>3, <2>5, <2>7, <2>8, <2>9 DEF OnePlace, AtWork
<1>10. CASE QueryUiSlotAsserts \/ Timer
  <2>1. UNCHANGED <<events, watcher, requestIsActive, tmp, listOfRequests>>
        /\ UNCHANGED <<pipe, inFile, garbled, outFile, task, procState>>
    BY <1>10
       DEF QueryUiSlotAsserts, Timer, BecomeUnused, Destroy, queueVars, proxyVars, procVars
  <2>2. QED BY <1>0, <1>1, <2>1 DEF Current
<1>11. CASE UiAnswers
  <2>1. requestIsActive /\ InDialog /\ watcher.state = "pending"
    BY <1>11
       DEF UiAnswers, OnePlace, AtWork, AtRest, Sent, Working, Asked, Done, NoWatcher
  <2>2. watcher'.state = "finished" /\ watcher'.req = watcher.req
    <3>1. watcher \in [state : {"pending", "finished"}, req : Req]
      BY <1>0, <1>11 DEF TypeOK, CoreTypeOK, UiAnswers, NoWatcher
    <3>2. QED BY <1>11, <3>1 DEF UiAnswers
  <2>3. UiOnce(events', watcher')
    <3>1. "ui" \notin ToSet(events)
      BY <1>0, <2>1 DEF UiOnce
    <3>2. UiOnce(events, watcher')
      BY <1>0, <3>1 DEF UiOnce
    <3>3. UiOnce(Append(events, "ui"), watcher')
      BY <1>0, <2>2, <3>1, <3>2, UiOncePosted DEF Posted
    <3>4. QED BY <1>11, <3>3 DEF UiAnswers
  <2>4. /\ UNCHANGED <<pipe, inFile, garbled, outFile, task, procState>>
        /\ UNCHANGED <<requestIsActive, tmp>> /\ Current' = Current
    BY <1>11 DEF UiAnswers, queueVars, proxyVars, procVars, Current
  <2>5. InDialog'
    BY <2>1, <2>2, <2>4 DEF InDialog
  <2>6. QED BY <2>1, <2>3, <2>4, <2>5 DEF OnePlace, AtWork
<1>12. CASE ResultArrives \/ ErrorArrives
  <2>1. /\ outFile # << >> /\ Head(outFile).op \in {"result", "error"}
        /\ outFile' = Tail(outFile)
        /\ UNCHANGED <<pipe, inFile, garbled, task, procState>>
    BY <1>12 DEF ResultArrives, ErrorArrives, ReadFinal, Read
  <2>2. requestIsActive /\ Done /\ outFile' = << >>
    BY <1>0, <2>1, WordRead
  <2>3. \E of : ProcessResultReply(of) \/ ProcessError(of)
    BY <1>0, <1>12, <2>2 DEF ResultArrives, ErrorArrives
  <2>4. QED BY <1>0, <2>1, <2>2, <2>3, ReplyEndsWork
<1>13. CASE ReportArrives
  <2>1. /\ outFile # << >> /\ Head(outFile).op \in Reports
        /\ outFile' = Tail(outFile)
        /\ UNCHANGED <<pipe, inFile, garbled, task, procState>>
        /\ UNCHANGED <<watcher, tmp, events, requestIsActive>> /\ Current' = Current
    BY <1>13 DEF ReportArrives, ReadOther, Read, Reports, queueVars, Current
  <2>2. requestIsActive /\ (Working' \/ Asked' \/ Done')
    BY <1>0, <2>1, WordRead DEF Working, Asked, Done, CancelThreadRunning, Idle, NoWatcher
  <2>3. QED BY <1>0, <2>1, <2>2 DEF OnePlace, AtWork
<1>14. CASE UiArrives
  <2>1. /\ outFile # << >> /\ Head(outFile).op \in {"ui", "refreshed"}
        /\ outFile' = Tail(outFile)
        /\ UNCHANGED <<inFile, garbled, task, procState>>
        /\ UNCHANGED <<tmp, requestIsActive>> /\ Current' = Current
    BY <1>14 DEF UiArrives, ReadOther, ReadForbiddenUi, Read, queueVars, Current
  <2>2. requestIsActive /\ Asked /\ outFile' = << >> /\ Head(outFile).of = Current
    BY <1>0, <2>1, WordRead
  <2>3. CASE UNCHANGED pipe /\ ProcessUiRequest
    <3>1. watcher' = [state |-> "pending", req |-> Current]
      BY <1>0, <2>2, <2>3 DEF ProcessUiRequest
    <3>2. InDialog'
      BY <2>1, <2>2, <2>3, <3>1 DEF InDialog, Asked
    <3>3. "ui" \notin ToSet(events)
      BY <1>0, <2>2 DEF UiOnce, Asked, NoWatcher
    <3>4. events' = events
      BY <1>0, <2>2, <2>3, <3>3, NoUiTaken DEF ProcessUiRequest
    <3>5. UiOnce(events', watcher')
      BY <1>0, <3>3, <3>4 DEF UiOnce
    <3>6. QED BY <2>1, <2>2, <3>2, <3>5 DEF OnePlace, AtWork
  <2>4. CASE ReadForbiddenUi /\ UNCHANGED <<watcher, events>>
    <3>1. pipe' = Append(<< >>, [op |-> "processUi", of |-> Current])
      BY <1>0, <2>2, <2>4 DEF ReadForbiddenUi, Write, Asked
    <3>2. pipe' = <<[op |-> "processUi", of |-> Current]>>
      BY <3>1
    <3>3. Sent'
      BY <2>1, <2>2, <2>4, <3>2 DEF Sent, Asked, NoWatcher
    <3>4. QED BY <1>0, <2>1, <2>2, <2>4, <3>3 DEF OnePlace, AtWork
  <2>5. QED BY <1>0, <1>14, <2>2, <2>3, <2>4 DEF UiArrives, ReadOther
<1>15. CASE BrokenBlobArrives
  <2>1. PICK kind \in FaultKinds : faults' = Append(faults, kind)
    BY <1>15 DEF BrokenBlobArrives, ReadBrokenBlob, Fault
  <2>2. faults \in Seq(FaultKinds)
    BY <1>0 DEF TypeOK, ProxyTypeOK, ProcTypeOK
  <2>3. Len(faults') = Len(faults) + 1 /\ Len(faults) \in Nat
    BY <2>1, <2>2, AppendProperties, LenProperties
  <2>4. QED BY <2>3
<1>16. CASE PluginFinishes
  BY <1>0, <1>16 DEF PluginFinishes, ProcessFinished
<1>17. CASE Plugin
  BY <1>0, <1>17, PluginMovesWork
<1>18. QED
  BY <1>4, <1>5, <1>6, <1>7, <1>8, <1>9, <1>10, <1>11, <1>12, <1>13, <1>14, <1>15,
     <1>16, <1>17
     DEF Next, Event, Call, Output, End
-----------------------------------------------------------------------------
(* Every answer is the request's own, and so are the stored credentials *)

\* The faults there have been are not forgotten.
LEMMA FaultsKept ==
    ASSUME TypeOK, Next
    PROVE  UNCHANGED faults \/ faults' # << >>
<1>0. faults \in Seq(FaultKinds)
  BY DEF TypeOK, ProxyTypeOK, ProcTypeOK
<1>1. ASSUME NEW kind, Fault(kind)
      PROVE  faults' # << >>
  BY <1>0, <1>1, AppendProperties DEF Fault
<1>2. CASE Call
  <2>1. ASSUME NEW k \in Session, Cancel(k)
        PROVE  UNCHANGED faults
    BY <2>1 DEF Cancel, CancelQueued, CancelActive, SendCancel, proxyVars, procVars
  <2>2. QED
    BY <1>2, <2>1
       DEF Call, Process, SetId, RemoveIdentity, CredentialsSystemReady, proxyVars, procVars
<1>3. CASE Event
  <2>1. ASSUME NEW op, NEW req, NEW ok, Send(op, req, ok)
        PROVE  UNCHANGED faults
    BY <2>1 DEF Send
  <2>2. CASE StartProcess
    BY <2>1, <2>2 DEF StartProcess, SendProcess
  <2>3. CASE QueryUiSlot
    BY <2>1, <2>3 DEF QueryUiSlot, SendUi, proxyVars, procVars
  <2>4. QED
    BY <1>3, <2>2, <2>3
       DEF Event, StartNothing, StartLater, QueryUiSlotAsserts, proxyVars, procVars
<1>4. CASE Output
  BY <1>1, <1>4
     DEF Output, ResultArrives, ErrorArrives, ReportArrives, UiArrives, ReadFinal,
         ReadOther, ReadForbiddenUi, BrokenBlobArrives, ReadBrokenBlob
<1>5. CASE End \/ UiAnswers \/ Timer
  BY <1>5
     DEF End, PluginFinishes, ProcessFinished, UiAnswers, Timer, BecomeUnused, Destroy,
         proxyVars, procVars
<1>6. CASE Plugin
  BY <1>1, <1>6
     DEF Plugin, ProcNext, PluginCompletes, PluginReports, PluginAsks, StartTask,
         StartTaskGarbled, CancelThreadReads, Crash
<1>7. QED BY <1>2, <1>3, <1>4, <1>5, <1>6 DEF Next

\* With the work in one place nothing but the plugin's own result or error
\* replies, and it does so for the active request.
LEMMA OnlyResultsReply ==
    ASSUME RInv, Undisturbed, OnePlace, Next, UNCHANGED faults
    PROVE  \/ UNCHANGED answers
           \/ \E kind \in {"result", "error"} :
                 Current \in Req /\ Reply(Current, kind, Current)
<1>0. TypeOK /\ ~canceled /\ procState = "running" /\ faults \in Seq(FaultKinds)
  BY NeverCanceled DEF RInv, IInv, OnePlace, TypeOK, ProxyTypeOK, ProcTypeOK
<1>1. CASE Call
  <2>1. ASSUME NEW k \in Session, Cancel(k)
        PROVE  FALSE
    BY <2>1, NeverCanceled DEF Cancel
  <2>2. QED
    BY <1>1, <2>1
       DEF Call, Process, SetId, RemoveIdentity, CredentialsSystemReady, queueVars
<1>2. CASE Event
  <2>1. CASE StartProcess
    <3>1. ~SendProcess(Current, FALSE)
      BY <1>0 DEF SendProcess, Send
    <3>2. QED BY <2>1, <3>1 DEF StartProcess
  <2>2. QED
    BY <1>2, <2>1
       DEF Event, StartNothing, StartLater, QueryUiSlot, QueryUiSlotAsserts, queueVars
<1>3. CASE ResultArrives \/ ErrorArrives
  <2>1. outFile # << >> /\ Head(outFile).of = Current
    BY <1>0, <1>3, WordRead DEF ResultArrives, ErrorArrives, ReadFinal, Read
  <2>2. CASE isResultObtained
    BY <1>3, <2>2 DEF ResultArrives, ErrorArrives, queueVars
  <2>3. CASE ~isResultObtained
    <3>1. ProcessResultReply(Current) \/ ProcessError(Current)
      BY <1>3, <2>1, <2>3 DEF ResultArrives, ErrorArrives
    <3>2. \/ UNCHANGED answers
          \/ ~NoRequests /\ \E kind \in {"result", "error"} : Reply(Current, kind, Current)
      BY <1>0, <3>1 DEF ProcessResultReply, ProcessError, queueVars
    <3>3. ~NoRequests => Current \in Req
      BY <1>0, CurrentType DEF TypeOK
    <3>4. QED BY <3>2, <3>3
  <2>4. QED BY <2>2, <2>3
<1>4. CASE ReportArrives \/ UiArrives
  BY <1>4 DEF ReportArrives, UiArrives, queueVars
<1>5. CASE BrokenBlobArrives
  <2>1. PICK kind \in FaultKinds : faults' = Append(faults, kind)
    BY <1>5 DEF BrokenBlobArrives, ReadBrokenBlob, Fault
  <2>2. Len(faults') = Len(faults) + 1 /\ Len(faults) \in Nat
    BY <1>0, <2>1, AppendProperties, LenProperties
  <2>3. QED BY <2>2
<1>6. CASE End
  BY <1>0, <1>6 DEF End, PluginFinishes, ProcessFinished
<1>7. CASE UiAnswers \/ Timer \/ Plugin
  BY <1>7
     DEF UiAnswers, Timer, BecomeUnused, Destroy, Plugin, coreVars, queueVars
<1>8. QED BY <1>1, <1>2, <1>3, <1>4, <1>5, <1>6, <1>7 DEF Next, Output

LEMMA OwnAnswerStep ==
    ASSUME RInv, Undisturbed, OnePlace, OwnAnswer, Next, UNCHANGED faults,
           faults = << >>
    PROVE  OwnAnswer'
<1>1. CASE UNCHANGED answers
  BY <1>1 DEF OwnAnswer
<1>2. ASSUME NEW kind \in {"result", "error"}, Current \in Req,
             Reply(Current, kind, Current)
      PROVE  OwnAnswer'
  <2> DEFINE c == Current
             a == [kind |-> kind, of |-> c]
             old == answers[c]
             new == Append(old, a)
  <2>1. answers \in [Req -> Seq(Answer)] /\ a \in Answer /\ old \in Seq(Answer)
    BY <1>2 DEF RInv, IInv, TypeOK, CoreTypeOK, Answer, MaybeReq
  <2>2. answers' = [answers EXCEPT ![c] = new]
    BY <1>2 DEF Reply
  <2>3. a.of = c
    OBVIOUS
  <2> HIDE DEF a
  <2>4. /\ new \in Seq(Answer) /\ Len(new) = Len(old) + 1 /\ Len(old) \in Nat
        /\ \A i \in 1..Len(old) : new[i] = old[i]
        /\ new[Len(old) + 1] = a
        /\ DOMAIN old = 1..Len(old)
    BY <2>1, AppendProperties, LenProperties
  <2> HIDE DEF new
  <2>5. DOMAIN new = 1..(Len(old) + 1)
    BY <2>4, LenProperties
  <2>6. \A i \in DOMAIN old : old[i].of \in {c, NoReq}
    BY <1>2 DEF OwnAnswer
  <2> HIDE DEF old
  <2>7. \A i \in DOMAIN new : new[i].of \in {c, NoReq}
    <3> TAKE i \in DOMAIN new
    <3>1. i \in 1..Len(old) \/ i = Len(old) + 1
      BY <2>4, <2>5
    <3>2. QED BY <2>3, <2>4, <2>6, <3>1
  <2> HIDE DEF c
  <2>8. ASSUME NEW r \in Req
        PROVE  \A i \in DOMAIN answers'[r] : answers'[r][i].of \in {r, NoReq}
    <3>1. CASE r = c
      BY <2>1, <2>2, <2>7, <3>1
    <3>2. CASE r # c
      <4>1. answers'[r] = answers[r]
        BY <2>1, <2>2, <3>2
      <4>2. QED BY <4>1 DEF OwnAnswer
    <3>3. QED BY <3>1, <3>2
  <2>9. QED BY <2>8 DEF OwnAnswer
<1>3. QED BY <1>1, <1>2, OnlyResultsReply

LEMMA OwnInvInit == Init => OwnInv
<1> SUFFICES ASSUME Init
             PROVE  OwnInv
  OBVIOUS
<1>1. OwnAnswer
  BY DEF Init, CoreInit, OwnAnswer
<1>2. OnePlace
  BY DEF Init, CoreInit, ProxyInit, ProcInit, OnePlace, AtRest, UiOnce, ToSet
<1>3. QED BY <1>1, <1>2, RInvInit DEF OwnInv

LEMMA OwnInvStep == Undisturbed /\ OwnInv /\ [Next]_vars => OwnInv'
<1> SUFFICES ASSUME Undisturbed, OwnInv, [Next]_vars
             PROVE  OwnInv'
  OBVIOUS
<1>1. RInv'
  BY RInvStep DEF OwnInv
<1>2. CASE Next
  <2>1. CASE faults = << >> /\ UNCHANGED faults
    BY <1>1, <1>2, <2>1, OnePlaceStep, OwnAnswerStep DEF OwnInv
  <2>2. CASE faults' # << >>
    BY <1>1, <2>2 DEF OwnInv, OwnAnswer
  <2>3. faults' = << >> => faults = << >> /\ UNCHANGED faults
    BY <1>2, FaultsKept DEF OwnInv, RInv, IInv
  <2>4. QED BY <2>1, <2>2, <2>3
<1>3. CASE UNCHANGED vars
  <2>1. OwnAnswer'
    BY <1>3
       DEF OwnInv, OwnAnswer, vars, proxyVars, procVars, coreVars, queueVars
  <2>2. faults' = << >> => OnePlace'
    BY <1>3
       DEF OwnInv, OnePlace, AtWork, AtRest, Sent, Working, Asked, InDialog, Done,
           UiOnce, CancelThreadRunning, Current, vars, proxyVars, procVars,
           coreVars, queueVars
  <2>3. QED BY <1>1, <2>1, <2>2 DEF OwnInv
<1>4. QED BY <1>2, <1>3

\* What a client is sent was made for its own request (or is an error for which
\* there is no request's data), although the reply slots send it to the head of
\* the queue without a look at what the plugin was working for: until the first
\* fault, without cancels, and with plugins that wait for their dialogs.
THEOREM OwnAnswerHolds ==
    ASSUME MaxCancel = 0, EndsDialogs = FALSE
    PROVE  Spec => []OwnAnswer
<1>1. OwnInv /\ [Next]_vars => OwnInv'
  BY OwnInvStep DEF Undisturbed
<1>2. OwnInv => OwnAnswer
  BY DEF OwnInv
<1>3. QED BY <1>1, <1>2, OwnInvInit, PTL DEF Spec

\* Only processResultReply() writes secrets, those of the active request.
LEMMA OwnRowStep ==
    ASSUME RInv, Undisturbed, OnePlace, Next,
           row'.secret # row.secret, row'.state # "absent"
    PROVE  ~NoRequests /\ row'.secret = Current
<1>0. TypeOK /\ row' # row
  BY DEF RInv, IInv
<1>1. ResultArrives /\ ~isResultObtained
  <2>1. CASE Call
    <3>1. ASSUME NEW k \in Session, Cancel(k)
          PROVE  FALSE
      BY <3>1, NeverCanceled DEF Cancel
    <3>2. QED
      BY <1>0, <2>1, <3>1
         DEF Call, Process, SetId, RemoveIdentity, CredentialsSystemReady, idVars
  <2>2. ~(Event \/ End \/ UiAnswers \/ Timer \/ Plugin)
    BY <1>0
       DEF Event, StartNothing, StartLater, StartProcess, QueryUiSlot,
           QueryUiSlotAsserts, End, PluginFinishes, UiAnswers, Timer, BecomeUnused,
           Destroy, Plugin, coreVars, idVars
  <2>3. CASE Output
    BY <1>0, <2>3
       DEF Output, ResultArrives, ErrorArrives, ReportArrives, UiArrives,
           BrokenBlobArrives
  <2>4. QED BY <2>1, <2>2, <2>3 DEF Next
<1>2. requestIsActive /\ tmp = Current
  BY <1>0, <1>1, WordRead DEF ResultArrives, ReadFinal, Read, OnePlace, AtWork
<1>3. ~NoRequests /\ UpdateRow
  BY <1>0, <1>1 DEF ResultArrives, ProcessResultReply
<1>4. row'.secret \in {row.secret, tmp}
  <2>1. hasId
    BY <1>0, <1>3 DEF UpdateRow
  <2>2. row'.secret = IF tmp = NoReq THEN row.secret ELSE tmp
    BY <1>3, <2>1 DEF UpdateRow
  <2>3. QED BY <2>2
<1>5. QED BY <1>2, <1>3, <1>4

\* The secrets that a result's update stores are those of the request that is
\* answered, under the same conditions.
THEOREM OwnCredentialsHolds ==
    ASSUME MaxCancel = 0, EndsDialogs = FALSE
    PROVE  Spec => OwnCredentials
<1>1. OwnInv /\ [Next]_vars => OwnInv'
  BY OwnInvStep DEF Undisturbed
<1> DEFINE Own == faults = << >> /\ row'.secret # row.secret /\ row'.state # "absent"
                     => ~NoRequests /\ row'.secret = Current
<1>2. OwnInv /\ [Next]_vars => [Own]_vars
  <2> SUFFICES ASSUME OwnInv, Next
               PROVE  Own
    OBVIOUS
  <2>1. QED BY OwnRowStep DEF OwnInv, Undisturbed
<1>3. QED BY <1>1, <1>2, OwnInvInit, PTL DEF Spec, OwnCredentials
=============================================================================
