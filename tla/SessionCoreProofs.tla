------------------------- MODULE SessionCoreProofs -------------------------
(* Proofs about SessionCore: what holds of every number of requests, calls,  *)
(* faults and dialogs, and of every plugin.                                  *)
EXTENDS SessionCore, SequenceTheorems, TLAPS

-----------------------------------------------------------------------------
(* Sequences *)

\* RemoveAt drops one element and keeps the order of the others.
LEMMA RemoveAtProperties ==
    ASSUME NEW S, NEW s \in Seq(S), NEW i \in DOMAIN s
    PROVE  /\ RemoveAt(s, i) \in Seq(S)
           /\ Len(RemoveAt(s, i)) = Len(s) - 1
           /\ \A j \in 1..(Len(s) - 1) :
                 RemoveAt(s, i)[j] = IF j < i THEN s[j] ELSE s[j + 1]
<1>1. Len(s) \in Nat /\ i \in 1..Len(s) /\ \A j \in 1..Len(s) : s[j] \in S
  BY LenProperties, ElementOfSeq
<1> DEFINE a == SubSeq(s, 1, i - 1)
           b == SubSeq(s, i + 1, Len(s))
<1>2. /\ a \in Seq(S)
      /\ Len(a) = i - 1
      /\ \A j \in 1..(i - 1) : a[j] = s[j]
  <2>1. 1 \in Int /\ i - 1 \in Int /\ \A j \in 1..(i - 1) : s[j] \in S
    BY <1>1
  <2> HIDE DEF a
  <2>2. /\ a \in Seq(S)
        /\ Len(a) = IF 1 <= i - 1 THEN i - 1 - 1 + 1 ELSE 0
        /\ \A j \in 1..(i - 1 - 1 + 1) : a[j] = s[1 + j - 1]
    BY <2>1, SubSeqProperties DEF a
  <2>3. QED BY <1>1, <2>2
<1>3. /\ b \in Seq(S)
      /\ Len(b) = Len(s) - i
      /\ \A j \in 1..(Len(s) - i) : b[j] = s[i + j]
  <2>1. i + 1 \in Int /\ Len(s) \in Int /\ \A j \in (i + 1)..Len(s) : s[j] \in S
    BY <1>1
  <2> HIDE DEF b
  <2>2. /\ b \in Seq(S)
        /\ Len(b) = IF i + 1 <= Len(s) THEN Len(s) - (i + 1) + 1 ELSE 0
        /\ \A j \in 1..(Len(s) - (i + 1) + 1) : b[j] = s[i + 1 + j - 1]
    BY <2>1, SubSeqProperties DEF b
  <2>3. QED BY <1>1, <2>2
<1> HIDE DEF a, b
<1>4. /\ RemoveAt(s, i) \in Seq(S)
      /\ Len(RemoveAt(s, i)) = Len(a) + Len(b)
      /\ \A j \in 1..(Len(a) + Len(b)) :
            RemoveAt(s, i)[j] = IF j <= Len(a) THEN a[j] ELSE b[j - Len(a)]
  <2>1. RemoveAt(s, i) = a \o b
    BY DEF RemoveAt, a, b
  <2>2. QED BY <2>1, <1>2, <1>3, ConcatProperties
<1> DEFINE c == RemoveAt(s, i)
<1> HIDE DEF c
<1>5. /\ Len(c) = Len(s) - 1
      /\ \A j \in 1..(Len(s) - 1) :
            c[j] = IF j <= i - 1 THEN a[j] ELSE b[j - (i - 1)]
  <2>1. Len(a) = i - 1 /\ Len(a) + Len(b) = Len(s) - 1
    BY <1>1, <1>2, <1>3
  <2>2. QED BY <2>1, <1>4 DEF c
<1>6. ASSUME NEW j \in 1..(Len(s) - 1)
      PROVE  c[j] = IF j < i THEN s[j] ELSE s[j + 1]
  <2>1. CASE j < i
    <3>1. j \in 1..(i - 1) /\ j <= i - 1
      BY <2>1, <1>1
    <3>2. QED BY <3>1, <2>1, <1>2, <1>5
  <2>2. CASE ~(j < i)
    <3>1. /\ ~(j <= i - 1)
          /\ j - (i - 1) \in 1..(Len(s) - i)
          /\ i + (j - (i - 1)) = j + 1
      BY <2>2, <1>1
    <3>2. b[j - (i - 1)] = s[j + 1]
      BY <3>1, <1>3
    <3>3. QED BY <3>1, <3>2, <2>2, <1>5
  <2>3. QED BY <2>1, <2>2
<1>7. QED BY <1>4, <1>5, <1>6 DEF c

\* The last elements of a sequence.
LEMMA SuffixType ==
    ASSUME NEW S, NEW s \in Seq(S), NEW m \in Nat \ {0}
    PROVE  SubSeq(s, m, Len(s)) \in Seq(S)
<1>1. m \in Int /\ Len(s) \in Int /\ \A i \in m..Len(s) : s[i] \in S
  BY LenProperties, ElementOfSeq
<1>2. QED BY <1>1, SubSeqProperties

\* The first elements of a sequence.
LEMMA PrefixType ==
    ASSUME NEW S, NEW s \in Seq(S), NEW n \in 0..Len(s)
    PROVE  SubSeq(s, 1, n) \in Seq(S)
<1>1. 1 \in Int /\ n \in Int /\ \A i \in 1..n : s[i] \in S
  BY LenProperties, ElementOfSeq
<1>2. QED BY <1>1, SubSeqProperties

\* Removing the first element is taking the tail.
LEMMA RemoveFirstIsTail ==
    ASSUME NEW S, NEW s \in Seq(S), s # << >>
    PROVE  1 \in DOMAIN s /\ Tail(s) = RemoveAt(s, 1)
<1>1. Len(s) \in Nat \ {0} /\ DOMAIN s = 1..Len(s)
  BY EmptySeq, LenProperties
<1>2. SubSeq(s, 1, 1 - 1) = << >>
  BY SubSeqEmpty
<1>3. SubSeq(s, 1 + 1, Len(s)) = Tail(s)
  BY TailIsSubSeq
<1>4. << >> \o Tail(s) = Tail(s)
  BY HeadTailProperties, ConcatEmptySeq
<1>5. RemoveAt(s, 1) = Tail(s)
  BY <1>2, <1>3, <1>4 DEF RemoveAt
<1>6. QED BY <1>1, <1>5

\* RemoveAt takes its element out of a sequence that holds none twice, and
\* another one than the first leaves the first where it is.
LEMMA RemoveAtMembers ==
    ASSUME NEW S, NEW s \in Seq(S), IsInjective(s), NEW i \in DOMAIN s
    PROVE  /\ IsInjective(RemoveAt(s, i))
           /\ ToSet(RemoveAt(s, i)) = ToSet(s) \ {s[i]}
           /\ i # 1 => RemoveAt(s, i) # << >> /\ Head(RemoveAt(s, i)) = Head(s)
<1> DEFINE t == RemoveAt(s, i)
           At(j) == IF j < i THEN j ELSE j + 1
           N == 1..Len(s)
           M == 1..(Len(s) - 1)
<1>1. /\ Len(s) \in Nat /\ DOMAIN s = N /\ i \in N
      /\ t \in Seq(S) /\ Len(t) = Len(s) - 1
      /\ \A j \in M : t[j] = IF j < i THEN s[j] ELSE s[j + 1]
  BY LenProperties, RemoveAtProperties
<1>2. DOMAIN t = M
  <2>1. DOMAIN t = 1..Len(t)
    BY <1>1, LenProperties
  <2>2. QED BY <1>1, <2>1
<1> HIDE DEF t
<1>3. \A j \in M : t[j] = s[At(j)] /\ At(j) \in N \ {i}
  BY <1>1
<1>4. \A k \in N \ {i} : \E j \in M : At(j) = k
  <2> TAKE k \in N \ {i}
  <2>1. CASE k < i
    <3> WITNESS k \in M
    <3> QED BY <1>1, <2>1
  <2>2. CASE ~(k < i)
    <3>1. k - 1 \in M /\ At(k - 1) = k
      BY <1>1, <2>2
    <3>2. QED BY <3>1
  <2>3. QED BY <2>1, <2>2
<1>5. \A j, k \in M : At(j) = At(k) => j = k
  BY <1>1
<1> HIDE DEF At, M, N
<1>6. IsInjective(t)
  <2> SUFFICES ASSUME NEW j \in M, NEW k \in M, t[j] = t[k]
               PROVE  j = k
    BY <1>2 DEF IsInjective
  <2>1. s[At(j)] = s[At(k)] /\ At(j) \in DOMAIN s /\ At(k) \in DOMAIN s
    BY <1>1, <1>3
  <2>2. At(j) = At(k)
    BY <2>1 DEF IsInjective
  <2>3. QED BY <1>5, <2>2
<1>7. ToSet(t) = ToSet(s) \ {s[i]}
  <2>1. ASSUME NEW x \in ToSet(t)
        PROVE  x \in ToSet(s) \ {s[i]}
    <3>1. PICK j \in M : x = t[j]
      BY <1>2, <2>1 DEF ToSet
    <3>2. x = s[At(j)] /\ At(j) \in DOMAIN s /\ At(j) # i
      BY <1>1, <1>3, <3>1
    <3>3. QED BY <3>2 DEF ToSet, IsInjective
  <2>2. ASSUME NEW x \in ToSet(s) \ {s[i]}
        PROVE  x \in ToSet(t)
    <3>1. PICK k \in N : x = s[k]
      BY <1>1, <2>2 DEF ToSet
    <3>2. k \in N \ {i}
      BY <2>2, <3>1
    <3>3. PICK j \in M : At(j) = k
      BY <1>4, <3>2
    <3>4. x = t[j] /\ j \in DOMAIN t
      BY <1>2, <1>3, <3>1, <3>3
    <3>5. QED BY <3>4 DEF ToSet
  <2>3. QED BY <2>1, <2>2
<1>8. ASSUME i # 1
      PROVE  t # << >> /\ Head(t) = Head(s)
  <2>1. 1 \in M /\ t[1] = s[1]
    BY <1>1, <1>8 DEF M, N
  <2>2. t # << >>
    BY <1>2, <2>1
  <2>3. Head(t) = t[1] /\ Head(s) = s[1]
    OBVIOUS
  <2>4. QED BY <2>1, <2>2, <2>3
<1>9. QED BY <1>6, <1>7, <1>8 DEF t

\* A new element joins at the end.
LEMMA AppendMembers ==
    ASSUME NEW S, NEW s \in Seq(S), IsInjective(s), NEW e \in S, e \notin ToSet(s)
    PROVE  /\ IsInjective(Append(s, e))
           /\ ToSet(Append(s, e)) = ToSet(s) \cup {e}
           /\ s # << >> => Head(Append(s, e)) = Head(s)
<1> DEFINE t == Append(s, e)
           n == Len(s)
<1>1. /\ n \in Nat /\ DOMAIN s = 1..n /\ t \in Seq(S) /\ Len(t) = n + 1
      /\ \A j \in 1..n : t[j] = s[j]
      /\ t[n + 1] = e
      /\ s # << >> => n # 0
  BY LenProperties, AppendProperties, EmptySeq
<1>2. DOMAIN t = 1..(n + 1)
  <2>1. DOMAIN t = 1..Len(t)
    BY <1>1, LenProperties
  <2>2. QED BY <1>1, <2>1
<1> HIDE DEF t, n
<1>3. \A j \in DOMAIN t : (j \in DOMAIN s /\ t[j] = s[j]) \/ (j = n + 1 /\ t[j] = e)
  BY <1>1, <1>2
<1>4. DOMAIN t = DOMAIN s \cup {n + 1} /\ \A j \in DOMAIN s : t[j] = s[j]
  BY <1>1, <1>2
<1>5. IsInjective(t)
  BY <1>3 DEF IsInjective, ToSet
<1>6. ToSet(t) = ToSet(s) \cup {e}
  BY <1>1, <1>3, <1>4 DEF ToSet
<1>7. s # << >> => Head(t) = Head(s)
  <2>1. Head(t) = t[1] /\ Head(s) = s[1]
    BY DEF t
  <2>2. QED BY <1>1, <2>1
<1>8. QED BY <1>5, <1>6, <1>7 DEF t

-----------------------------------------------------------------------------
(* The plugin process keeps its types *)

LEMMA RespondType ==
    ASSUME outFile \in Seq(Response), NEW kind \in Responses,
           NEW req \in MaybeReq, Respond(kind, req)
    PROVE  outFile' \in Seq(Response)
BY AppendProperties DEF Respond, Response

LEMMA CancelPluginType ==
    ASSUME ProcTypeOK, NEW reaction \in CancelReactions, NEW req \in MaybeReq,
           CancelPlugin(reaction, req)
    PROVE  /\ outFile' \in Seq(Response)
           /\ task' \in [phase : Phases, req : MaybeReq]
<1>1. CASE reaction = "error" /\ Respond("error", req) /\ task' = Idle
  <2>1. outFile' \in Seq(Response)
    BY <1>1, RespondType DEF ProcTypeOK, Responses
  <2>2. QED BY <1>1, <2>1 DEF Idle, Phases, MaybeReq
<1>2. CASE reaction = "silent" /\ UNCHANGED <<outFile, task>>
  BY <1>2 DEF ProcTypeOK
<1>3. QED BY <1>1, <1>2 DEF CancelPlugin

LEMMA ExecuteType ==
    ASSUME ProcTypeOK, NEW m \in Operation, Execute(m)
    PROVE  /\ outFile' \in Seq(Response)
           /\ task' \in [phase : Phases, req : MaybeReq]
           /\ procState' \in ProcStates
<1> m.of \in MaybeReq
  BY DEF Operation
<1>1. CASE m.op = "cancel"
  <2>1. /\ outFile' \in Seq(Response)
        /\ task' \in [phase : Phases, req : MaybeReq]
    BY <1>1, CancelPluginType DEF Execute
  <2>2. QED BY <1>1, <2>1 DEF Execute, ProcTypeOK
<1>2. CASE m.op # "cancel"
  BY <1>2 DEF Execute, ProcTypeOK, Phases, ProcStates, Idle, MaybeReq
<1>3. QED BY <1>1, <1>2

LEMMA ProcStepType == ProcTypeOK /\ ProcNext => ProcTypeOK'
<1> SUFFICES ASSUME ProcTypeOK, ProcNext
             PROVE  ProcTypeOK'
  OBVIOUS
<1> USE DEF ProcTypeOK
<1>0. task.req \in MaybeReq /\ task.phase \in Phases
  OBVIOUS
<1>1. CASE PluginCompletes
  <2>1. PICK kind \in {"result", "error"} : Respond(kind, task.req)
    BY <1>1 DEF PluginCompletes
  <2>2. outFile' \in Seq(Response)
    BY <2>1, <1>0, RespondType DEF Responses
  <2>3. QED BY <1>1, <2>2 DEF PluginCompletes, Idle, Phases, MaybeReq
<1>2. CASE PluginReports
  <2>1. PICK kind \in {"store", "signal"} : Respond(kind, task.req)
    BY <1>2 DEF PluginReports
  <2>2. outFile' \in Seq(Response)
    BY <2>1, <1>0, RespondType DEF Responses
  <2>3. QED BY <1>2, <2>2 DEF PluginReports
<1>3. CASE PluginAsks
  <2>1. PICK kind \in {"ui", "refreshed"} : Respond(kind, task.req)
    BY <1>3 DEF PluginAsks
  <2>2. outFile' \in Seq(Response)
    BY <2>1, <1>0, RespondType DEF Responses
  <2>3. QED BY <1>3, <2>2 DEF PluginAsks, Phases
<1>4. CASE StartTask
  <2> DEFINE buffered(n) == inFile \o SubSeq(pipe, 1, n)
  <2>1. PICK n \in 0..Len(pipe) :
           /\ buffered(n) # << >>
           /\ Execute(Head(buffered(n)))
           /\ inFile' = Tail(buffered(n))
           /\ pipe' = SubSeq(pipe, n + 1, Len(pipe))
    BY <1>4 DEF StartTask
  <2>2. SubSeq(pipe, 1, n) \in Seq(Operation)
    BY PrefixType
  <2>3. buffered(n) \in Seq(Operation)
    BY <2>2, ConcatProperties
  <2> HIDE DEF buffered
  <2>4. Head(buffered(n)) \in Operation /\ inFile' \in Seq(Operation)
    BY <2>1, <2>3, HeadTailProperties
  <2>5. pipe' \in Seq(Operation)
    <3>1. n + 1 \in Nat \ {0}
      BY LenProperties
    <3>2. QED BY <2>1, <3>1, SuffixType
  <2>6. /\ outFile' \in Seq(Response)
        /\ task' \in [phase : Phases, req : MaybeReq]
        /\ procState' \in ProcStates
    BY <2>1, <2>4, ExecuteType
  <2>7. QED BY <1>4, <2>4, <2>5, <2>6 DEF StartTask
<1>5. CASE StartTaskGarbled
  BY <1>5 DEF StartTaskGarbled, Idle, Phases, MaybeReq, ProcStates
<1>6. CASE CancelThreadReads
  <2>1. Head(pipe) \in Operation /\ pipe' \in Seq(Operation)
    BY <1>6, HeadTailProperties DEF CancelThreadReads
  <2>2. PICK reaction \in CancelReactions, left \in BOOLEAN :
           CancelPlugin(reaction, Head(pipe).of) /\ garbled' = left
    BY <1>6 DEF CancelThreadReads
  <2>3. /\ outFile' \in Seq(Response)
        /\ task' \in [phase : Phases, req : MaybeReq]
    BY <2>1, <2>2, CancelPluginType DEF Operation
  <2>4. QED BY <1>6, <2>1, <2>2, <2>3 DEF CancelThreadReads
<1>7. CASE Crash
  BY <1>7, BoundAssumption
     DEF Crash, Fault, Idle, Phases, MaybeReq, ProcStates
<1>8. QED
  BY <1>1, <1>2, <1>3, <1>4, <1>5, <1>6, <1>7 DEF ProcNext

-----------------------------------------------------------------------------
(* The proxy's half of a step keeps its types *)

LEMMA WriteType ==
    ASSUME ProcTypeOK, NEW op \in Ops, NEW req \in MaybeReq, Write(op, req)
    PROVE  pipe' \in Seq(Operation)
<1>1. [op |-> op, of |-> req] \in Operation
  BY DEF Operation
<1>2. QED BY <1>1, AppendProperties DEF ProcTypeOK, Write

LEMMA SendType ==
    ASSUME ProcTypeOK, NEW op \in Ops, NEW req \in MaybeReq,
           NEW ok \in BOOLEAN, Send(op, req, ok)
    PROVE  ProcTypeOK'
<1>1. CASE procState # "notRunning"
  <2>1. pipe' \in Seq(Operation)
    BY <1>1, WriteType DEF Send
  <2>2. QED BY <1>1, <2>1 DEF Send, ProcTypeOK
<1>2. CASE procState = "notRunning"
  <2>1. [op |-> op, of |-> req] \in Operation
    BY DEF Operation
  <2>2. pipe' \in {<<[op |-> op, of |-> req]>>, << >>}
    BY <1>2 DEF Send
  <2>3. pipe' \in Seq(Operation)
    <3>1. \A m \in Operation : <<m>> \in Seq(Operation)
      OBVIOUS
    <3>2. QED BY <2>1, <2>2, <3>1, EmptySeq
  <2>4. procState' \in ProcStates
    BY <1>2 DEF Send, ProcStates
  <2>5. QED BY <1>2, <2>3, <2>4 DEF Send, ProcTypeOK
<1>3. QED BY <1>1, <1>2

LEMMA SendProcessType ==
    ASSUME ProxyTypeOK, NEW req \in Req, NEW ok \in BOOLEAN, SendProcess(req, ok)
    PROVE  ProxyTypeOK'
<1>1. ProcTypeOK'
  BY SendType DEF SendProcess, ProxyTypeOK, Ops, MaybeReq
<1>2. QED BY <1>1, PolicyAssumption DEF SendProcess, ProxyTypeOK

LEMMA SendUiType ==
    ASSUME ProxyTypeOK, NEW op \in {"processUi", "refresh"},
           NEW req \in MaybeReq, NEW ok \in BOOLEAN, SendUi(op, req, ok)
    PROVE  ProxyTypeOK'
<1>1. ProcTypeOK'
  BY SendType DEF SendUi, ProxyTypeOK, Ops
<1>2. QED BY <1>1 DEF SendUi, ProxyTypeOK

LEMMA SendCancelType ==
    ASSUME ProxyTypeOK, NEW req \in MaybeReq, SendCancel(req)
    PROVE  ProxyTypeOK'
<1>1. pipe' \in Seq(Operation)
  BY WriteType DEF SendCancel, ProxyTypeOK, Ops
<1>2. QED BY <1>1 DEF SendCancel, ProxyTypeOK, ProcTypeOK, flags

\* What is read is a response, and what stays unread are responses.
LEMMA ReadType ==
    ASSUME ProxyTypeOK, NEW kinds, Read(kinds)
    PROVE  /\ Head(outFile) \in Response
           /\ Head(outFile).of \in MaybeReq
           /\ outFile' \in Seq(Response)
<1>1. Head(outFile) \in Response /\ outFile' \in Seq(Response)
  BY HeadTailProperties DEF Read, ProxyTypeOK, ProcTypeOK
<1>2. QED BY <1>1 DEF Response

LEMMA ReadFinalType ==
    ASSUME ProxyTypeOK, NEW kind, ReadFinal(kind)
    PROVE  ProxyTypeOK' /\ Head(outFile).of \in MaybeReq
<1>1. Head(outFile).of \in MaybeReq /\ outFile' \in Seq(Response)
  BY ReadType DEF ReadFinal
<1>2. QED BY <1>1 DEF ReadFinal, ProxyTypeOK, ProcTypeOK

LEMMA ReadOtherType ==
    ASSUME ProxyTypeOK, NEW kinds, ReadOther(kinds)
    PROVE  ProxyTypeOK' /\ Head(outFile).of \in MaybeReq
<1>1. Head(outFile).of \in MaybeReq /\ outFile' \in Seq(Response)
  BY ReadType DEF ReadOther
<1>2. QED BY <1>1 DEF ReadOther, ProxyTypeOK, ProcTypeOK, flags

LEMMA ReadForbiddenUiType ==
    ASSUME ProxyTypeOK, ReadForbiddenUi
    PROVE  ProxyTypeOK'
<1>1. Head(outFile).of \in MaybeReq /\ outFile' \in Seq(Response)
  BY ReadType DEF ReadForbiddenUi
<1>2. pipe' \in Seq(Operation)
  BY <1>1, WriteType DEF ReadForbiddenUi, ProxyTypeOK, Ops
<1>3. QED BY <1>1, <1>2 DEF ReadForbiddenUi, ProxyTypeOK, ProcTypeOK

LEMMA ReadBrokenBlobType ==
    ASSUME ProxyTypeOK, ReadBrokenBlob
    PROVE  ProxyTypeOK'
<1>1. outFile' \in Seq(Response)
  <2>1. PICK n \in 1..Len(outFile) : outFile' = SubSeq(outFile, n + 1, Len(outFile))
    BY DEF ReadBrokenBlob
  <2>2. n + 1 \in Nat \ {0}
    BY LenProperties DEF ProxyTypeOK, ProcTypeOK
  <2>3. QED BY <2>1, <2>2, SuffixType DEF ProxyTypeOK, ProcTypeOK
<1>2. pipe' \in Seq(Operation)
  BY WriteType DEF ReadBrokenBlob, ProxyTypeOK, Ops, MaybeReq
<1>3. faults' \in Seq(FaultKinds)
  BY DEF ReadBrokenBlob, Fault, ProxyTypeOK, ProcTypeOK
<1>4. QED BY <1>1, <1>2, <1>3 DEF ReadBrokenBlob, ProxyTypeOK, ProcTypeOK, flags

LEMMA ProcessFinishedType ==
    ASSUME ProxyTypeOK, ProcessFinished
    PROVE  ProxyTypeOK'
BY EmptySeq DEF ProcessFinished, ProxyTypeOK, ProcTypeOK, ProcStates

-----------------------------------------------------------------------------
(* The session core keeps its types *)

\* One more posted event, and one less.
LEMMA EventsType ==
    ASSUME NEW es \in Seq(Posted)
    PROVE  /\ Append(es, "start") \in Seq(Posted)
           /\ Append(es, "ui") \in Seq(Posted)
           /\ es # << >> => Tail(es) \in Seq(Posted)
BY AppendProperties, HeadTailProperties DEF Posted

LEMMA WithoutUiType ==
    ASSUME NEW es \in Seq(Posted)
    PROVE  WithoutUi(es) \in Seq(Posted)
<1>1. CASE \E i \in DOMAIN es : es[i] = "ui"
  <2> DEFINE k == CHOOSE i \in DOMAIN es : es[i] = "ui"
  <2>1. k \in DOMAIN es
    BY <1>1
  <2>2. RemoveAt(es, k) \in Seq(Posted)
    BY <2>1, RemoveAtProperties
  <2>3. QED BY <1>1, <2>2 DEF WithoutUi
<1>2. CASE ~\E i \in DOMAIN es : es[i] = "ui"
  BY <1>2 DEF WithoutUi
<1>3. QED BY <1>1, <1>2

LEMMA CurrentType ==
    ASSUME CoreTypeOK, ~NoRequests
    PROVE  Current \in Req /\ Current \in MaybeReq /\ Tail(listOfRequests) \in Seq(Req)
BY HeadTailProperties DEF CoreTypeOK, NoRequests, Current, MaybeReq

LEMMA WatcherType ==
    ASSUME CoreTypeOK
    PROVE  watcher.req \in MaybeReq
BY DEF CoreTypeOK, NoWatcher, MaybeReq

LEMMA DropPendingUiType ==
    ASSUME CoreTypeOK, DropPendingUi
    PROVE  watcher' \in {NoWatcher} \cup [state : {"pending", "finished"}, req : Req]
BY DEF CoreTypeOK, DropPendingUi

LEMMA ReplyType ==
    ASSUME CoreTypeOK, NEW r \in Req, NEW kind \in {"result", "error", "canceled"},
           NEW of \in MaybeReq, Reply(r, kind, of)
    PROVE  answers' \in [Req -> Seq(Answer)]
<1>1. [kind |-> kind, of |-> of] \in Answer
  BY DEF Answer
<1>2. Append(answers[r], [kind |-> kind, of |-> of]) \in Seq(Answer)
  BY <1>1, AppendProperties DEF CoreTypeOK
<1>3. QED BY <1>2 DEF Reply, CoreTypeOK

LEMMA RequestDoneType ==
    ASSUME CoreTypeOK, ~NoRequests, NEW es \in Seq(Posted), RequestDone(es)
    PROVE  /\ listOfRequests' \in Seq(Req)
           /\ requestIsActive' \in BOOLEAN
           /\ events' \in Seq(Posted)
BY CurrentType, EventsType DEF RequestDone

\* What the slots for the plugin's output may change.
SlotTypeOK ==
    /\ listOfRequests \in Seq(Req)
    /\ requestIsActive \in BOOLEAN
    /\ canceled \in BOOLEAN
    /\ answers \in [Req -> Seq(Answer)]
    /\ watcher \in {NoWatcher} \cup [state : {"pending", "finished"}, req : Req]
    /\ tmp \in MaybeReq
    /\ events \in Seq(Posted)
    /\ unused \in BOOLEAN
    /\ row \in Row

LEMMA SlotType == CoreTypeOK => SlotTypeOK
BY DEF CoreTypeOK, SlotTypeOK

LEMMA ProcessResultReplyType ==
    ASSUME CoreTypeOK, NEW of \in MaybeReq, ProcessResultReply(of)
    PROVE  SlotTypeOK'
<1>1. unused' \in BOOLEAN
  BY DEF ProcessResultReply, KeepInUse
<1>2. CASE /\ NoRequests
           /\ UNCHANGED <<queueVars, watcher, tmp, events, row>>
  BY <1>1, <1>2 DEF CoreTypeOK, SlotTypeOK, queueVars
<1>3. CASE /\ ~NoRequests /\ canceled
           /\ RequestDone(events)
           /\ UNCHANGED <<canceled, answers, watcher, tmp, row>>
  BY <1>1, <1>3, RequestDoneType DEF CoreTypeOK, SlotTypeOK
<1>4. CASE /\ ~NoRequests /\ ~canceled
           /\ UpdateRow
           /\ tmp' = NoReq
           /\ Reply(Current, "result", of)
           /\ DropPendingUi
           /\ RequestDone(events)
           /\ UNCHANGED canceled
  <2>1. row' \in Row
    <3>1. row \in [state : {"absent", "stored", "ghost"}, secret : MaybeReq]
      BY DEF CoreTypeOK, Row
    <3>2. row.secret \in MaybeReq /\ tmp \in MaybeReq
      BY <3>1 DEF CoreTypeOK
    <3>3. QED BY <1>4, <3>1, <3>2 DEF UpdateRow, Row
  <2>2. answers' \in [Req -> Seq(Answer)]
    BY <1>4, CurrentType, ReplyType
  <2>3. QED
    BY <1>1, <1>4, <2>1, <2>2, RequestDoneType, DropPendingUiType
       DEF CoreTypeOK, SlotTypeOK, MaybeReq
<1>5. QED BY <1>2, <1>3, <1>4 DEF ProcessResultReply

LEMMA ProcessErrorType ==
    ASSUME CoreTypeOK, NEW of \in MaybeReq, ProcessError(of), UNCHANGED row
    PROVE  SlotTypeOK'
<1>1. unused' \in BOOLEAN /\ tmp' \in MaybeReq /\ row' \in Row
  BY DEF ProcessError, KeepInUse, MaybeReq, CoreTypeOK
<1>2. CASE NoRequests /\ UNCHANGED <<queueVars, watcher, events>>
  BY <1>1, <1>2 DEF CoreTypeOK, SlotTypeOK, queueVars
<1>3. CASE /\ ~NoRequests /\ canceled
           /\ RequestDone(events)
           /\ UNCHANGED <<canceled, answers, watcher>>
  BY <1>1, <1>3, RequestDoneType DEF CoreTypeOK, SlotTypeOK
<1>4. CASE /\ ~NoRequests /\ ~canceled
           /\ Reply(Current, "error", of)
           /\ DropPendingUi
           /\ RequestDone(events)
           /\ UNCHANGED canceled
  <2>1. answers' \in [Req -> Seq(Answer)]
    BY <1>4, CurrentType, ReplyType
  <2>2. QED
    BY <1>1, <1>4, <2>1, RequestDoneType, DropPendingUiType
       DEF CoreTypeOK, SlotTypeOK
<1>5. QED BY <1>2, <1>3, <1>4 DEF ProcessError

LEMMA ProcessUiRequestType ==
    ASSUME CoreTypeOK, ProcessUiRequest, UNCHANGED <<queueVars, tmp, row>>
    PROVE  SlotTypeOK'
<1>1. unused' \in BOOLEAN
  BY DEF ProcessUiRequest, KeepInUse
<1>2. CASE (canceled \/ NoRequests) /\ UNCHANGED <<watcher, events>>
  BY <1>1, <1>2 DEF CoreTypeOK, SlotTypeOK, queueVars
<1>3. CASE /\ ~canceled /\ ~NoRequests
           /\ watcher' = [state |-> "pending", req |-> Current]
           /\ events' = WithoutUi(events)
  <2>1. events' \in Seq(Posted)
    BY <1>3, WithoutUiType DEF CoreTypeOK
  <2>2. QED BY <1>1, <1>3, <2>1, CurrentType DEF CoreTypeOK, SlotTypeOK, queueVars
<1>4. QED BY <1>2, <1>3 DEF ProcessUiRequest

\* The calls of the clients, and the rest of the daemon.
LEMMA CallType == TypeOK /\ Call => ProxyTypeOK' /\ CoreTypeOK'
<1> SUFFICES ASSUME TypeOK, Call
             PROVE  ProxyTypeOK' /\ CoreTypeOK'
  OBVIOUS
<1> USE DEF TypeOK
<1>1. ASSUME NEW r \in Req, Process(r)
      PROVE  ProxyTypeOK' /\ CoreTypeOK'
  <2>1. ProxyTypeOK'
    BY <1>1 DEF Process, proxyVars, procVars, flags, ProxyTypeOK, ProcTypeOK
  <2>2. listOfRequests' \in Seq(Req) /\ events' \in Seq(Posted)
    BY <1>1, AppendProperties, EventsType DEF Process, CoreTypeOK
  <2>3. QED
    BY <1>1, <2>1, <2>2 DEF Process, CoreTypeOK, KeepInUse, idVars
<1>2. ASSUME NEW k \in Session, Cancel(k)
      PROVE  ProxyTypeOK' /\ CoreTypeOK'
  <2>1. PICK i \in DOMAIN listOfRequests :
           /\ CancelQueued(i) \/ CancelActive(i)
           /\ Reply(listOfRequests[i], "canceled", listOfRequests[i])
    BY <1>2 DEF Cancel
  <2>2. listOfRequests[i] \in Req /\ listOfRequests[i] \in MaybeReq
    BY LenProperties, ElementOfSeq DEF CoreTypeOK, MaybeReq
  <2>3. answers' \in [Req -> Seq(Answer)]
    BY <2>1, <2>2, ReplyType
  <2>4. cancels' \in 0..MaxCancel
    BY <1>2, CoreBoundAssumption DEF Cancel, CoreTypeOK
  <2>5. /\ ProxyTypeOK'
        /\ listOfRequests' \in Seq(Req)
        /\ canceled' \in BOOLEAN
        /\ cutShort' \in SUBSET Req
        /\ watcher' \in {NoWatcher} \cup [state : {"pending", "finished"}, req : Req]
    <3>1. CASE CancelQueued(i)
      <4>1. listOfRequests' \in Seq(Req)
        BY <3>1, RemoveAtProperties DEF CancelQueued, CoreTypeOK
      <4>2. QED
        BY <3>1, <4>1 DEF CancelQueued, CoreTypeOK, proxyVars, procVars, flags,
                          ProxyTypeOK, ProcTypeOK
    <3>2. CASE CancelActive(i)
      <4>1. Current \in Req /\ Current \in MaybeReq
        BY <3>2, CurrentType DEF CancelActive, NoRequests
      <4>2. ProxyTypeOK'
        BY <3>2, <4>1, SendCancelType DEF CancelActive
      <4>3. watcher' \in {NoWatcher} \cup [state : {"pending", "finished"}, req : Req]
        BY <3>2, DropPendingUiType DEF CancelActive
      <4>4. QED BY <3>2, <4>1, <4>2, <4>3 DEF CancelActive, CoreTypeOK
    <3>3. QED BY <2>1, <3>1, <3>2
  <2>6. QED
    BY <1>2, <2>3, <2>4, <2>5 DEF Cancel, CoreTypeOK, dispVars, idVars
<1>3. CASE SetId
  <2>1. ProxyTypeOK'
    BY <1>3 DEF SetId, ProxyTypeOK, ProcTypeOK, proxyVars, procVars, flags
  <2>2. hasId' \in BOOLEAN
    BY <1>3 DEF SetId, CoreTypeOK
  <2>3. CoreTypeOK'
    BY <1>3, <2>2 DEF SetId, KeepInUse, CoreTypeOK, queueVars, countVars
  <2>4. QED BY <2>1, <2>3
<1>4. CASE RemoveIdentity
  <2>1. row' \in Row
    BY <1>4 DEF RemoveIdentity, Row, MaybeReq
  <2>2. QED
    BY <1>4, <2>1 DEF RemoveIdentity, ProxyTypeOK, ProcTypeOK, CoreTypeOK,
              queueVars, dispVars, countVars, proxyVars, procVars, flags
<1>5. CASE CredentialsSystemReady
  <2>1. events' \in Seq(Posted)
    BY <1>5, EventsType DEF CredentialsSystemReady, CoreTypeOK
  <2>2. QED
    BY <1>5, <2>1 DEF CredentialsSystemReady, ProxyTypeOK, ProcTypeOK, CoreTypeOK,
              queueVars, dispVars, idVars, countVars, proxyVars, procVars, flags
<1>6. QED BY <1>1, <1>2, <1>3, <1>4, <1>5 DEF Call

\* The posted events.
LEMMA EventType == TypeOK /\ Event => TypeOK'
<1> SUFFICES ASSUME TypeOK, Event
             PROVE  TypeOK'
  OBVIOUS
<1> USE DEF TypeOK
<1>0. BatchTypeOK'
  BY DEF Event, BatchOver, NoBatch, BatchTypeOK
<1>1. CASE StartNothing
  <2>1. events' \in Seq(Posted)
    BY <1>1, EventsType DEF StartNothing, NextEvent, CoreTypeOK
  <2>2. ProxyTypeOK'
    BY <1>1 DEF StartNothing, ProxyTypeOK, ProcTypeOK, proxyVars, procVars, flags
  <2>3. CoreTypeOK'
    BY <1>1, <2>1 DEF StartNothing, ForgetCancel, KeepInUse, CoreTypeOK, idVars, countVars
  <2>4. QED BY <1>0, <2>2, <2>3
<1>2. CASE StartLater
  <2>1. events' \in Seq(Posted)
    BY <1>2, EventsType DEF StartLater, NextEvent, CoreTypeOK
  <2>2. ProxyTypeOK'
    BY <1>2 DEF StartLater, ProxyTypeOK, ProcTypeOK, proxyVars, procVars, flags
  <2>3. CoreTypeOK'
    BY <1>2, <2>1 DEF StartLater, ForgetCancel, KeepInUse, CoreTypeOK, idVars, countVars
  <2>4. QED BY <1>0, <2>2, <2>3
<1>3. CASE StartProcess
  <2>1. Current \in Req /\ Current \in MaybeReq
    BY <1>3, CurrentType DEF StartProcess
  <2>2. Tail(events) \in Seq(Posted)
    BY <1>3, EventsType DEF StartProcess, NextEvent, CoreTypeOK
  <2>3. CASE /\ SendProcess(Current, TRUE)
             /\ requestIsActive' = TRUE
             /\ served' = served \cup {Current}
             /\ events' = Tail(events)
             /\ UNCHANGED <<listOfRequests, answers>>
    <3>1. ProxyTypeOK'
      BY <2>1, <2>3, SendProcessType
    <3>2. QED
      BY <1>0, <1>3, <2>1, <2>2, <2>3, <3>1
         DEF StartProcess, ForgetCancel, KeepInUse, CoreTypeOK, idVars
  <2>4. CASE /\ SendProcess(Current, FALSE)
             /\ Reply(Current, "error", NoReq)
             /\ RequestDone(Tail(events))
             /\ UNCHANGED served
    <3>1. ProxyTypeOK'
      BY <2>1, <2>4, SendProcessType
    <3>2. answers' \in [Req -> Seq(Answer)]
      BY <2>1, <2>4, ReplyType DEF MaybeReq
    <3>3. /\ listOfRequests' \in Seq(Req)
          /\ requestIsActive' \in BOOLEAN
          /\ events' \in Seq(Posted)
      BY <1>3, <2>2, <2>4, RequestDoneType DEF StartProcess
    <3>4. QED
      BY <1>0, <1>3, <2>1, <2>4, <3>1, <3>2, <3>3
         DEF StartProcess, ForgetCancel, KeepInUse, CoreTypeOK, idVars
  <2>5. QED BY <1>3, <2>3, <2>4 DEF StartProcess
<1>4. CASE QueryUiSlot
  <2>1. events' \in Seq(Posted)
    BY <1>4, EventsType DEF QueryUiSlot, NextEvent, CoreTypeOK
  <2>2. ProxyTypeOK' /\ tmp' \in MaybeReq /\ refreshes' \in 0..MaxRefresh
    <3>1. CASE UNCHANGED <<tmp, refreshes, proxyVars>>
      BY <3>1 DEF ProxyTypeOK, ProcTypeOK, CoreTypeOK, proxyVars, procVars, flags
    <3>2. CASE /\ tmp' = watcher.req
               /\ \E ok \in BOOLEAN : SendUi("processUi", watcher.req, ok)
               /\ UNCHANGED refreshes
      BY <3>2, WatcherType, SendUiType DEF CoreTypeOK
    <3>3. CASE /\ tmp' = watcher.req
               /\ refreshes < MaxRefresh
               /\ refreshes' = refreshes + 1
               /\ \E ok \in BOOLEAN : SendUi("refresh", watcher.req, ok)
      <4>1. ProxyTypeOK' /\ tmp' \in MaybeReq
        BY <3>3, WatcherType, SendUiType
      <4>2. refreshes' \in 0..MaxRefresh
        BY <3>3, CoreBoundAssumption DEF CoreTypeOK
      <4>3. QED BY <4>1, <4>2
    <3>4. QED BY <1>4, <3>1, <3>2, <3>3 DEF QueryUiSlot
  <2>3. QED
    BY <1>0, <1>4, <2>1, <2>2
       DEF QueryUiSlot, KeepInUse, CoreTypeOK, queueVars, idVars
<1>5. CASE QueryUiSlotAsserts
  BY <1>0, <1>5 DEF QueryUiSlotAsserts, CoreTypeOK, ProxyTypeOK, ProcTypeOK,
     queueVars, idVars, countVars, proxyVars, procVars, flags
<1>6. QED BY <1>1, <1>2, <1>3, <1>4, <1>5 DEF Event

\* The slots for the plugin's output leave the rest of the session alone.
LEMMA SlotTypeSuffices ==
    ASSUME CoreTypeOK, SlotTypeOK', blob' \in MaybeReq, stray' \in BOOLEAN,
           UNCHANGED FixedOnOutput
    PROVE  CoreTypeOK'
BY DEF SlotTypeOK, CoreTypeOK, FixedOnOutput, countVars

LEMMA OutputType == TypeOK /\ (Output \/ End) => ProxyTypeOK' /\ CoreTypeOK'
<1> SUFFICES ASSUME TypeOK, Output \/ End
             PROVE  ProxyTypeOK' /\ CoreTypeOK'
  OBVIOUS
<1> USE DEF TypeOK
<1>0. NoReq \in MaybeReq /\ blob \in MaybeReq /\ SlotTypeOK /\ stray' \in BOOLEAN
  <2>1. stray' \in {stray, TRUE}
    BY DEF Output, End, ResultArrives, ErrorArrives, ReportArrives, UiArrives,
           BrokenBlobArrives, PluginFinishes
  <2>2. QED BY <2>1, SlotType DEF MaybeReq, CoreTypeOK
<1>1. CASE ResultArrives
  <2>1. ProxyTypeOK' /\ Head(outFile).of \in MaybeReq
    BY <1>1, ReadFinalType DEF ResultArrives
  <2>2. CASE ProcessResultReply(Head(outFile).of)
    BY <1>0, <1>1, <2>1, <2>2, ProcessResultReplyType, SlotTypeSuffices
       DEF ResultArrives
  <2>3. CASE UNCHANGED <<queueVars, watcher, tmp, events, unused, row>>
    <3>1. SlotTypeOK'
      BY <1>0, <2>3 DEF SlotTypeOK, queueVars
    <3>2. QED BY <1>0, <1>1, <2>1, <3>1, SlotTypeSuffices DEF ResultArrives
  <2>4. QED BY <1>1, <2>2, <2>3 DEF ResultArrives
<1>2. CASE ErrorArrives
  <2>1. ProxyTypeOK' /\ Head(outFile).of \in MaybeReq
    BY <1>2, ReadFinalType DEF ErrorArrives
  <2>2. CASE ProcessError(Head(outFile).of)
    BY <1>0, <1>2, <2>1, <2>2, ProcessErrorType, SlotTypeSuffices DEF ErrorArrives
  <2>3. CASE UNCHANGED <<queueVars, watcher, tmp, events, unused>>
    <3>1. SlotTypeOK'
      BY <1>0, <1>2, <2>3 DEF ErrorArrives, SlotTypeOK, queueVars
    <3>2. QED BY <1>0, <1>2, <2>1, <3>1, SlotTypeSuffices DEF ErrorArrives
  <2>4. QED BY <1>2, <2>2, <2>3 DEF ErrorArrives
<1>3. CASE ReportArrives
  <2>1. ProxyTypeOK' /\ Head(outFile).of \in MaybeReq
    BY <1>3, ReadOtherType DEF ReportArrives
  <2>2. unused' \in BOOLEAN /\ blob' \in MaybeReq
    BY <1>0, <1>3, <2>1 DEF ReportArrives, KeepInUse, SlotTypeOK
  <2>3. SlotTypeOK'
    BY <1>0, <1>3, <2>2 DEF ReportArrives, SlotTypeOK, queueVars
  <2>4. QED BY <1>0, <1>3, <2>1, <2>2, <2>3, SlotTypeSuffices DEF ReportArrives
<1>4. CASE UiArrives
  <2>1. ProxyTypeOK'
    BY <1>4, ReadOtherType, ReadForbiddenUiType DEF UiArrives
  <2>2. SlotTypeOK'
    <3>1. CASE UNCHANGED <<watcher, events, unused>>
      BY <1>0, <1>4, <3>1 DEF UiArrives, SlotTypeOK, queueVars
    <3>2. CASE ProcessUiRequest
      BY <1>4, <3>2, ProcessUiRequestType DEF UiArrives
    <3>3. QED BY <1>4, <3>1, <3>2 DEF UiArrives
  <2>3. QED BY <1>0, <1>4, <2>1, <2>2, SlotTypeSuffices DEF UiArrives
<1>5. CASE BrokenBlobArrives
  BY <1>0, <1>5, ReadBrokenBlobType, ProcessErrorType, SlotTypeSuffices
     DEF BrokenBlobArrives
<1>6. CASE PluginFinishes
  <2>1. ProxyTypeOK'
    BY <1>6, ProcessFinishedType DEF PluginFinishes
  <2>2. SlotTypeOK'
    <3>1. CASE ProcessError(NoReq)
      BY <1>0, <1>6, <3>1, ProcessErrorType DEF PluginFinishes
    <3>2. CASE UNCHANGED <<queueVars, watcher, tmp, events, unused>>
      BY <1>0, <1>6, <3>2 DEF PluginFinishes, SlotTypeOK, queueVars
    <3>3. QED BY <1>6, <3>1, <3>2 DEF PluginFinishes
  <2>3. QED BY <1>0, <1>6, <2>1, <2>2, SlotTypeSuffices DEF PluginFinishes
<1>7. QED
  BY <1>1, <1>2, <1>3, <1>4, <1>5, <1>6 DEF Output, End

\* signon-ui, the timer and the plugin process.
LEMMA OtherType ==
    TypeOK /\ (UiAnswers \/ Timer \/ Plugin) => ProxyTypeOK' /\ CoreTypeOK'
<1> SUFFICES ASSUME TypeOK, UiAnswers \/ Timer \/ Plugin
             PROVE  ProxyTypeOK' /\ CoreTypeOK'
  OBVIOUS
<1> USE DEF TypeOK
<1>1. CASE UiAnswers
  <2>1. watcher.state = "pending" /\ watcher # NoWatcher
    BY <1>1 DEF UiAnswers, NoWatcher
  <2>2. watcher' \in [state : {"pending", "finished"}, req : Req]
    <3>1. watcher \in [state : {"pending", "finished"}, req : Req]
      BY <2>1 DEF CoreTypeOK
    <3>2. QED BY <1>1, <3>1 DEF UiAnswers
  <2>3. events' \in Seq(Posted)
    BY <1>1, EventsType DEF UiAnswers, CoreTypeOK
  <2>4. QED
    BY <1>1, <2>2, <2>3 DEF UiAnswers, CoreTypeOK, ProxyTypeOK, ProcTypeOK,
       queueVars, dispVars, idVars, countVars, proxyVars, procVars, flags
<1>2. CASE BecomeUnused
  BY <1>2 DEF BecomeUnused, CoreTypeOK, ProxyTypeOK, ProcTypeOK,
     queueVars, idVars, countVars, proxyVars, procVars, flags
<1>3. CASE Destroy
  BY <1>3 DEF Destroy, CoreTypeOK, ProxyTypeOK, ProcTypeOK,
     queueVars, idVars, countVars, proxyVars, procVars, flags
<1>4. CASE Plugin
  <2>1. ProxyTypeOK'
    BY <1>4, ProcStepType DEF Plugin, ProxyTypeOK, flags
  <2>2. CoreTypeOK'
    BY <1>4 DEF Plugin, CoreTypeOK, coreVars, queueVars, idVars, dispVars, countVars
  <2>3. QED BY <2>1, <2>2
<1>5. QED BY <1>1, <1>2, <1>3, <1>4 DEF Timer

LEMMA KeepBatchType == TypeOK /\ ProxyTypeOK' /\ KeepBatch => BatchTypeOK'
<1> SUFFICES ASSUME TypeOK, ProxyTypeOK', KeepBatch
             PROVE  BatchTypeOK'
  OBVIOUS
<1> DEFINE read == Len(outFile) - Len(outFile')
<1>1. Len(outFile) \in Nat /\ Len(outFile') \in Nat
  BY LenProperties DEF TypeOK, ProxyTypeOK, ProcTypeOK
<1>2. read \in Int /\ batch.out \in Nat /\ batch.ended \in BOOLEAN
  BY <1>1 DEF TypeOK, BatchTypeOK
<1>3. (IF read <= 0 THEN batch.out
       ELSE IF read < batch.out THEN batch.out - read ELSE 0) \in Nat
  BY <1>2
<1> HIDE DEF read
<1>4. QED
  BY <1>1, <1>2, <1>3 DEF KeepBatch, BatchTypeOK, NoBatch, Ended, read

LEMMA StepType == TypeOK /\ [Next]_vars => TypeOK'
<1> SUFFICES ASSUME TypeOK, [Next]_vars
             PROVE  TypeOK'
  OBVIOUS
<1>1. CASE Event
  BY <1>1, EventType
<1>2. CASE (Call \/ UiAnswers \/ Output \/ End \/ Timer \/ Plugin) /\ KeepBatch
  <2>1. ProxyTypeOK' /\ CoreTypeOK'
    BY <1>2, CallType, OutputType, OtherType
  <2>2. QED BY <1>2, <2>1, KeepBatchType DEF TypeOK
<1>3. CASE UNCHANGED vars
  BY <1>3 DEF vars, TypeOK, BatchTypeOK, CoreTypeOK, ProxyTypeOK, ProcTypeOK,
     coreVars, queueVars, dispVars, idVars, countVars, proxyVars, procVars, flags
<1>4. QED BY <1>1, <1>2, <1>3 DEF Next

LEMMA InitType == Init => TypeOK
<1> SUFFICES ASSUME Init
             PROVE  TypeOK
  OBVIOUS
<1>1. ProxyTypeOK
  <2>1. << >> \in Seq(Operation) /\ << >> \in Seq(Response)
    BY EmptySeq
  <2>2. faults \in Seq(FaultKinds)
    BY EmptySeq DEF Init, ProxyInit, ProcInit
  <2>3. task \in [phase : Phases, req : MaybeReq]
    BY DEF Init, ProxyInit, ProcInit, Idle, Phases, MaybeReq
  <2>4. ProcTypeOK
    BY <2>1, <2>2, <2>3 DEF Init, ProxyInit, ProcInit, ProcTypeOK, ProcStates
  <2>5. QED BY <2>4 DEF Init, ProxyInit, ProxyTypeOK
<1>2. row \in Row
  BY DEF Init, CoreInit, Row, MaybeReq
<1>3. CoreTypeOK
  <2>1. << >> \in Seq(Req) /\ << >> \in Seq(Posted) /\ << >> \in Seq(Answer)
    BY EmptySeq
  <2>2. answers \in [Req -> Seq(Answer)]
    BY <2>1 DEF Init, CoreInit
  <2>3. cancels \in 0..MaxCancel /\ refreshes \in 0..MaxRefresh
    BY CoreBoundAssumption DEF Init, CoreInit
  <2>4. QED
    BY <1>2, <2>1, <2>2, <2>3, CoreBoundAssumption
       DEF Init, CoreInit, CoreTypeOK, MaybeReq
<1>4. QED BY <1>1, <1>3 DEF Init, TypeOK, BatchTypeOK, NoBatch

\* Every variable of the session, the proxy and the plugin process keeps its
\* type: a dialog or a posted call is always for a request, the plugin's data
\* are a request's, and the bounds are kept.
THEOREM TypeCorrect == Spec => []TypeOK
<1>1. Init => TypeOK
  BY InitType
<1>2. TypeOK /\ [Next]_vars => TypeOK'
  BY StepType
<1>3. QED BY <1>1, <1>2, PTL DEF Spec

-----------------------------------------------------------------------------
(* The queue, the flags and the answers *)

\* A request is in the queue at most once, and only after it has been sent.
OnlyArrived ==
    /\ IsInjective(listOfRequests)
    /\ Queued \subseteq arrived
    /\ \A r \in Req \ arrived :
          answers[r] = << >> /\ r \notin served /\ r \notin cutShort

\* A request canceled while active is in the queue only as the active head.
CutIsActive == \A r \in Queued \cap cutShort : requestIsActive /\ r = Current

\* What a request has been sent while it is in the queue replies to cancel().
QueuedOnlyCanceled ==
    \A r \in Queued : \A i \in DOMAIN answers[r] : answers[r][i].kind = "canceled"

ActiveHead == requestIsActive => ~NoRequests

\* All but what links the queue to the proxy's flags.
QueueInv ==
    /\ OnlyArrived
    /\ ActiveHead
    /\ ServedIsActive
    /\ CutIsActive
    /\ QueuedUnanswered
    /\ QueuedOnlyCanceled
    /\ AnsweredOnce

\* The inductive invariant.
IInv == TypeOK /\ QueueInv /\ ActiveIsAwaited

\* QueueInv is about these variables only.
queueInvVars == <<listOfRequests, requestIsActive, arrived, served, cutShort, answers>>

LEMMA QueueUnchanged ==
    ASSUME QueueInv, UNCHANGED queueInvVars
    PROVE  QueueInv'
BY DEF QueueInv, queueInvVars, OnlyArrived, ActiveHead, NoRequests, ServedIsActive,
   CutIsActive, QueuedUnanswered, QueuedOnlyCanceled, AnsweredOnce, Queued, Current

\* A new request joins the queue.
LEMMA QueueJoins ==
    ASSUME TypeOK, QueueInv, NEW r \in Req, r \notin arrived,
           arrived' = arrived \cup {r},
           listOfRequests' = Append(listOfRequests, r),
           UNCHANGED <<requestIsActive, served, cutShort, answers>>
    PROVE  QueueInv'
<1>1. /\ IsInjective(listOfRequests')
      /\ Queued' = Queued \cup {r}
      /\ ~NoRequests => Current' = Current
      /\ ~NoRequests'
  <2>1. /\ listOfRequests \in Seq(Req)
        /\ IsInjective(listOfRequests)
        /\ r \notin ToSet(listOfRequests)
    BY DEF TypeOK, CoreTypeOK, QueueInv, OnlyArrived, Queued
  <2>2. /\ IsInjective(listOfRequests')
        /\ ToSet(listOfRequests') = ToSet(listOfRequests) \cup {r}
        /\ listOfRequests # << >> => Head(listOfRequests') = Head(listOfRequests)
    BY <2>1, AppendMembers
  <2>3. listOfRequests' # << >>
    BY <2>1, AppendProperties
  <2>4. QED BY <2>2, <2>3 DEF Queued, NoRequests, Current
<1>2. answers[r] = << >> /\ r \notin served /\ r \notin cutShort
  BY DEF QueueInv, OnlyArrived
<1>3. requestIsActive => ~NoRequests
  BY DEF QueueInv, ActiveHead
<1>4. OnlyArrived' /\ ActiveHead'
  BY <1>1 DEF QueueInv, OnlyArrived, ActiveHead
<1>5. ServedIsActive' /\ CutIsActive'
  BY <1>1, <1>2, <1>3 DEF QueueInv, ServedIsActive, CutIsActive
<1>6. QueuedUnanswered' /\ QueuedOnlyCanceled'
  BY <1>1, <1>2 DEF QueueInv, QueuedUnanswered, QueuedOnlyCanceled
<1>7. AnsweredOnce'
  BY DEF QueueInv, AnsweredOnce
<1>8. QED BY <1>4, <1>5, <1>6, <1>7 DEF QueueInv

\* The head of the queue becomes the active request.
LEMMA QueueStarts ==
    ASSUME TypeOK, QueueInv, ~NoRequests, ~requestIsActive,
           requestIsActive' = TRUE, served' = served \cup {Current},
           UNCHANGED <<listOfRequests, arrived, cutShort, answers>>
    PROVE  QueueInv'
<1>1. Queued' = Queued /\ Current' = Current /\ (NoRequests' <=> NoRequests)
  BY DEF Queued, Current, NoRequests
<1>2. Current \in Queued
  <2>1. 1 \in DOMAIN listOfRequests /\ Current = listOfRequests[1]
    BY RemoveFirstIsTail DEF TypeOK, CoreTypeOK, NoRequests, Current
  <2>2. QED BY <2>1 DEF Queued, ToSet
<1>3. OnlyArrived' /\ ActiveHead'
  BY <1>1, <1>2 DEF QueueInv, OnlyArrived, ActiveHead
<1>4. ServedIsActive' /\ CutIsActive'
  BY <1>1 DEF QueueInv, ServedIsActive, CutIsActive
<1>5. QueuedUnanswered' /\ QueuedOnlyCanceled' /\ AnsweredOnce'
  BY <1>1 DEF QueueInv, QueuedUnanswered, QueuedOnlyCanceled, AnsweredOnce
<1>6. QED BY <1>3, <1>4, <1>5 DEF QueueInv

\* One more answer for a request in the queue: there are never two that do not
\* reply to cancel(), and only a request canceled while active has two.
LEMMA OneMoreAnswer ==
    ASSUME TypeOK, QueueInv, NEW r \in Queued, NEW kind, NEW of,
           Reply(r, kind, of), cutShort \subseteq cutShort',
           answers[r] # << >> => r \in cutShort'
    PROVE  /\ AnsweredOnce'
           /\ \A q \in Req \ {r} : answers'[q] = answers[q]
           /\ kind = "canceled" =>
                 \A i \in DOMAIN answers'[r] : answers'[r][i].kind = "canceled"
<1> DEFINE old == answers[r]
           new == Append(old, [kind |-> kind, of |-> of])
           n == Len(old)
<1>1. r \in Req /\ old \in Seq(Answer)
  <2>1. r \in Req
    BY LenProperties, ElementOfSeq DEF TypeOK, CoreTypeOK, Queued, ToSet
  <2>2. QED BY <2>1 DEF TypeOK, CoreTypeOK
<1>2. answers' = [answers EXCEPT ![r] = new]
  BY DEF Reply
<1>3. answers'[r] = new /\ \A q \in Req \ {r} : answers'[q] = answers[q]
  BY <1>1, <1>2 DEF TypeOK, CoreTypeOK
<1>4. /\ n \in Nat
      /\ DOMAIN old = 1..n
      /\ DOMAIN new = 1..(n + 1)
      /\ \A i \in 1..n : new[i] = old[i]
      /\ new[n + 1].kind = kind
      /\ n # 0 => old # << >>
  <2>1. n \in Nat /\ DOMAIN old = 1..n /\ (n # 0 => old # << >>)
    BY <1>1, LenProperties, EmptySeq
  <2> DEFINE e == [kind |-> kind, of |-> of]
             T == Answer \cup {e}
  <2>2. old \in Seq(T)
    BY <1>1, SeqMonotonic
  <2> HIDE DEF e, old
  <2>3. /\ Append(old, e) \in Seq(T)
        /\ Len(Append(old, e)) = Len(old) + 1
        /\ \A i \in 1..Len(old) : Append(old, e)[i] = old[i]
        /\ Append(old, e)[Len(old) + 1] = e
    BY <2>2, AppendProperties
  <2>4. DOMAIN Append(old, e) = 1..(n + 1)
    BY <2>1, <2>3, LenProperties
  <2>5. e.kind = kind
    BY DEF e
  <2>6. QED BY <2>1, <2>3, <2>4, <2>5 DEF e
<1> HIDE DEF new, old, n
<1>5. \A i \in 1..n : old[i].kind = "canceled"
  BY <1>4 DEF QueueInv, QueuedOnlyCanceled, old
<1>6. AnsweredOnce'
  <2> SUFFICES ASSUME NEW q \in Req,
                      NEW i \in DOMAIN answers'[q], NEW j \in DOMAIN answers'[q],
                      i # j
               PROVE  /\ q \in cutShort'
                      /\ "canceled" \in {answers'[q][i].kind, answers'[q][j].kind}
    BY DEF AnsweredOnce
  <2>1. CASE q = r
    <3>1. i \in 1..(n + 1) /\ j \in 1..(n + 1)
      BY <1>3, <1>4, <2>1
    <3>2. n # 0
      BY <1>4, <3>1
    <3>3. q \in cutShort'
      BY <1>4, <2>1, <3>2 DEF old
    <3>4. i \in 1..n \/ j \in 1..n
      BY <1>4, <3>1
    <3>5. new[i].kind = "canceled" \/ new[j].kind = "canceled"
      BY <1>4, <1>5, <3>4
    <3>6. QED BY <1>3, <2>1, <3>3, <3>5
  <2>2. CASE q # r
    BY <1>3, <2>2 DEF QueueInv, AnsweredOnce
  <2>3. QED BY <2>1, <2>2
<1>7. ASSUME kind = "canceled"
      PROVE  \A i \in 1..(n + 1) : new[i].kind = "canceled"
  BY <1>4, <1>5, <1>7
<1>8. QED BY <1>3, <1>4, <1>6, <1>7

\* A request leaves the queue, with an answer or without.
LEMMA QueueLeaves ==
    ASSUME TypeOK, QueueInv, NEW i \in DOMAIN listOfRequests,
           listOfRequests' = RemoveAt(listOfRequests, i),
           requestIsActive' = (requestIsActive /\ i # 1),
           \/ UNCHANGED answers
           \/ \E kind \in {"result", "error", "canceled"}, of \in MaybeReq :
                 Reply(listOfRequests[i], kind, of),
           UNCHANGED <<arrived, served, cutShort>>
    PROVE  QueueInv'
<1> DEFINE r == listOfRequests[i]
<1>1. /\ IsInjective(listOfRequests')
      /\ Queued' = Queued \ {r}
      /\ i # 1 => Current' = Current /\ ~NoRequests'
      /\ r \in Queued
  <2>1. listOfRequests \in Seq(Req) /\ IsInjective(listOfRequests)
    BY DEF TypeOK, CoreTypeOK, QueueInv, OnlyArrived
  <2>2. /\ IsInjective(listOfRequests')
        /\ ToSet(listOfRequests') = ToSet(listOfRequests) \ {r}
        /\ i # 1 => /\ listOfRequests' # << >>
                    /\ Head(listOfRequests') = Head(listOfRequests)
    BY <2>1, RemoveAtMembers
  <2>3. QED BY <2>2 DEF Queued, Current, NoRequests, ToSet
<1>2. requestIsActive => (i = 1 <=> r = Current)
  <2>1. listOfRequests # << >> => 1 \in DOMAIN listOfRequests
    BY RemoveFirstIsTail DEF TypeOK, CoreTypeOK
  <2>2. requestIsActive => Current = listOfRequests[1] /\ 1 \in DOMAIN listOfRequests
    BY <2>1 DEF Current, QueueInv, ActiveHead, NoRequests
  <2>3. QED BY <2>2 DEF QueueInv, OnlyArrived, IsInjective
<1>3. /\ AnsweredOnce'
      /\ \A q \in Req \ {r} : answers'[q] = answers[q]
  <2>1. CASE UNCHANGED answers
    BY <2>1 DEF QueueInv, AnsweredOnce
  <2>2. CASE \E kind \in {"result", "error", "canceled"}, of \in MaybeReq :
                Reply(r, kind, of)
    <3>1. answers[r] # << >> => r \in cutShort'
      BY <1>1 DEF QueueInv, QueuedUnanswered
    <3>2. QED BY <1>1, <2>2, <3>1, OneMoreAnswer
  <2>3. QED BY <2>1, <2>2
<1> HIDE DEF r
<1>4. Queued \subseteq Req /\ r \in arrived
  BY <1>1, LenProperties, ElementOfSeq
     DEF TypeOK, CoreTypeOK, Queued, ToSet, QueueInv, OnlyArrived
<1>5. OnlyArrived' /\ ActiveHead'
  BY <1>1, <1>3, <1>4 DEF QueueInv, OnlyArrived, ActiveHead
<1>6. ServedIsActive' /\ CutIsActive'
  BY <1>1, <1>2 DEF QueueInv, ServedIsActive, CutIsActive
<1>7. QueuedUnanswered' /\ QueuedOnlyCanceled'
  BY <1>1, <1>3, <1>4 DEF QueueInv, QueuedUnanswered, QueuedOnlyCanceled
<1>8. QED BY <1>3, <1>5, <1>6, <1>7 DEF QueueInv

\* The active request is canceled, and stays.
LEMMA QueueCancels ==
    ASSUME TypeOK, QueueInv, ~NoRequests, requestIsActive,
           NEW of, Reply(Current, "canceled", of),
           cutShort' = cutShort \cup {Current},
           UNCHANGED <<listOfRequests, requestIsActive, arrived, served>>
    PROVE  QueueInv'
<1>1. Queued' = Queued /\ Current' = Current /\ (NoRequests' <=> NoRequests)
  BY DEF Queued, Current, NoRequests
<1>2. Current \in Queued /\ Queued \subseteq Req
  <2>1. 1 \in DOMAIN listOfRequests /\ Current = listOfRequests[1]
    BY RemoveFirstIsTail DEF TypeOK, CoreTypeOK, NoRequests, Current
  <2>2. QED
    BY <2>1, LenProperties, ElementOfSeq DEF TypeOK, CoreTypeOK, Queued, ToSet
<1>3. /\ AnsweredOnce'
      /\ \A q \in Req \ {Current} : answers'[q] = answers[q]
      /\ \A i \in DOMAIN answers'[Current] : answers'[Current][i].kind = "canceled"
  <2>1. cutShort \subseteq cutShort' /\ Current \in cutShort'
    OBVIOUS
  <2>2. QED BY <1>2, <2>1, OneMoreAnswer
<1>4. Current \in arrived
  BY <1>2 DEF QueueInv, OnlyArrived
<1>5. OnlyArrived' /\ ActiveHead'
  BY <1>1, <1>3, <1>4 DEF QueueInv, OnlyArrived, ActiveHead
<1>6. ServedIsActive' /\ CutIsActive'
  BY <1>1 DEF QueueInv, ServedIsActive, CutIsActive
<1>7. QueuedUnanswered' /\ QueuedOnlyCanceled'
  BY <1>1, <1>2, <1>3 DEF QueueInv, QueuedUnanswered, QueuedOnlyCanceled
<1>8. QED BY <1>3, <1>5, <1>6, <1>7 DEF QueueInv

\* requestDone() takes the head off the queue.
LEMMA HeadLeaves ==
    ASSUME TypeOK, QueueInv, ~NoRequests, NEW es, RequestDone(es),
           \/ UNCHANGED answers
           \/ \E kind \in {"result", "error"}, of \in MaybeReq :
                 Reply(Current, kind, of),
           UNCHANGED <<arrived, served, cutShort>>
    PROVE  QueueInv'
<1>1. /\ 1 \in DOMAIN listOfRequests
      /\ Tail(listOfRequests) = RemoveAt(listOfRequests, 1)
      /\ Current = listOfRequests[1]
  BY RemoveFirstIsTail DEF TypeOK, CoreTypeOK, NoRequests, Current
<1>2. listOfRequests' = RemoveAt(listOfRequests, 1)
  BY <1>1 DEF RequestDone
<1>3. requestIsActive' = (requestIsActive /\ 1 # 1)
  BY DEF RequestDone
<1>4. \/ UNCHANGED answers
      \/ \E kind \in {"result", "error", "canceled"}, of \in MaybeReq :
            Reply(listOfRequests[1], kind, of)
  BY <1>1
<1>5. QED BY <1>1, <1>2, <1>3, <1>4, QueueLeaves

\* After processResultReply() or processError() no request is active.
LEMMA ResultReplyQueue ==
    ASSUME TypeOK, QueueInv, NEW of \in MaybeReq, ProcessResultReply(of),
           UNCHANGED <<arrived, served, cutShort>>
    PROVE  QueueInv' /\ ~requestIsActive'
<1>1. CASE NoRequests /\ UNCHANGED queueVars
  BY <1>1, QueueUnchanged DEF queueVars, queueInvVars, QueueInv, ActiveHead
<1>2. CASE ~NoRequests /\ RequestDone(events) /\ UNCHANGED answers
  BY <1>2, HeadLeaves DEF RequestDone
<1>3. CASE ~NoRequests /\ RequestDone(events) /\ Reply(Current, "result", of)
  BY <1>3, HeadLeaves DEF RequestDone
<1>4. QED BY <1>1, <1>2, <1>3 DEF ProcessResultReply

LEMMA ErrorQueue ==
    ASSUME TypeOK, QueueInv, NEW of \in MaybeReq, ProcessError(of),
           UNCHANGED <<arrived, served, cutShort>>
    PROVE  QueueInv' /\ ~requestIsActive'
<1>1. CASE NoRequests /\ UNCHANGED queueVars
  BY <1>1, QueueUnchanged DEF queueVars, queueInvVars, QueueInv, ActiveHead
<1>2. CASE ~NoRequests /\ RequestDone(events) /\ UNCHANGED answers
  BY <1>2, HeadLeaves DEF RequestDone
<1>3. CASE ~NoRequests /\ RequestDone(events) /\ Reply(Current, "error", of)
  BY <1>3, HeadLeaves DEF RequestDone
<1>4. QED BY <1>1, <1>2, <1>3 DEF ProcessError

\* A step that leaves queue and flags alone.
LEMMA NothingDone ==
    ASSUME IInv, UNCHANGED queueInvVars, UNCHANGED flags
    PROVE  QueueInv' /\ ActiveIsAwaited'
BY QueueUnchanged
   DEF IInv, queueInvVars, flags, ActiveIsAwaited, NoRequests

LEMMA CallQueue == IInv /\ Call => QueueInv' /\ ActiveIsAwaited'
<1> SUFFICES ASSUME IInv, Call
             PROVE  QueueInv' /\ ActiveIsAwaited'
  OBVIOUS
<1>0. TypeOK /\ QueueInv /\ ActiveIsAwaited
  BY DEF IInv
<1>1. ASSUME NEW r \in Req, Process(r)
      PROVE  QueueInv' /\ ActiveIsAwaited'
  <2>1. QueueInv'
    BY <1>0, <1>1, QueueJoins DEF Process
  <2>2. QED
    BY <1>0, <1>1, <2>1
       DEF Process, QueueInv, ActiveHead, ActiveIsAwaited, proxyVars, flags
<1>2. ASSUME NEW k \in Session, Cancel(k)
      PROVE  QueueInv' /\ ActiveIsAwaited'
  <2>1. PICK i \in DOMAIN listOfRequests :
           /\ CancelQueued(i) \/ CancelActive(i)
           /\ Reply(listOfRequests[i], "canceled", listOfRequests[i])
    BY <1>2 DEF Cancel
  <2>2. UNCHANGED <<requestIsActive, arrived, served>>
    BY <1>2 DEF Cancel
  <2>3. QueueInv'
    <3>1. CASE CancelQueued(i)
      <4>1. listOfRequests[i] \in MaybeReq
        BY <1>0, LenProperties, ElementOfSeq DEF TypeOK, CoreTypeOK, MaybeReq
      <4>2. /\ listOfRequests' = RemoveAt(listOfRequests, i)
            /\ UNCHANGED cutShort
            /\ requestIsActive' = (requestIsActive /\ i # 1)
        BY <1>0, <2>2, <3>1 DEF CancelQueued, TypeOK, CoreTypeOK
      <4>3. QED BY <1>0, <2>1, <2>2, <4>1, <4>2, QueueLeaves
    <3>2. CASE CancelActive(i)
      <4>1. i = 1 /\ requestIsActive /\ ~NoRequests /\ Current = listOfRequests[1]
        BY <1>0, <3>2
           DEF CancelActive, ActiveIsAwaited, TypeOK, CoreTypeOK, NoRequests, Current
      <4>2. cutShort' = cutShort \cup {Current} /\ UNCHANGED listOfRequests
        BY <3>2 DEF CancelActive
      <4>3. QED BY <1>0, <2>1, <2>2, <4>1, <4>2, QueueCancels
    <3>3. QED BY <2>1, <3>1, <3>2
  <2>4. UNCHANGED flags
    BY <2>1 DEF CancelQueued, CancelActive, SendCancel, proxyVars
  <2>5. QED
    BY <1>0, <2>2, <2>3, <2>4 DEF QueueInv, ActiveHead, ActiveIsAwaited, flags
<1>3. CASE SetId
  BY <1>3, NothingDone DEF SetId, queueVars, countVars, proxyVars, queueInvVars
<1>4. CASE RemoveIdentity
  BY <1>4, NothingDone DEF RemoveIdentity, queueVars, countVars, proxyVars, queueInvVars
<1>5. CASE CredentialsSystemReady
  BY <1>5, NothingDone
     DEF CredentialsSystemReady, queueVars, countVars, proxyVars, queueInvVars
<1>6. QED BY <1>1, <1>2, <1>3, <1>4, <1>5 DEF Call

LEMMA EventQueue == IInv /\ Event => QueueInv' /\ ActiveIsAwaited'
<1> SUFFICES ASSUME IInv, Event
             PROVE  QueueInv' /\ ActiveIsAwaited'
  OBVIOUS
<1>0. TypeOK /\ QueueInv /\ ActiveIsAwaited
  BY DEF IInv
<1>1. CASE StartNothing
  BY <1>1, NothingDone DEF StartNothing, countVars, proxyVars, queueInvVars
<1>2. CASE StartLater
  BY <1>2, NothingDone DEF StartLater, countVars, proxyVars, queueInvVars
<1>3. CASE StartProcess
  <2>1. ~NoRequests /\ ~requestIsActive /\ UNCHANGED <<arrived, cutShort>>
    BY <1>3 DEF StartProcess, Busy
  <2>2. CASE /\ SendProcess(Current, TRUE)
             /\ requestIsActive' = TRUE
             /\ served' = served \cup {Current}
             /\ UNCHANGED <<listOfRequests, answers>>
    <3>1. QueueInv'
      BY <1>0, <2>1, <2>2, QueueStarts
    <3>2. isProcessing' /\ ~isResultObtained'
      BY <2>2 DEF SendProcess
    <3>3. QED BY <2>1, <2>2, <3>1, <3>2 DEF ActiveIsAwaited, NoRequests
  <2>3. CASE /\ Reply(Current, "error", NoReq)
             /\ RequestDone(Tail(events))
             /\ UNCHANGED served
    <3>1. QueueInv'
      <4>1. NoReq \in MaybeReq
        BY DEF MaybeReq
      <4>2. QED BY <1>0, <2>1, <2>3, <4>1, HeadLeaves
    <3>2. QED BY <2>3, <3>1 DEF RequestDone, ActiveIsAwaited
  <2>4. QED BY <1>3, <2>2, <2>3 DEF StartProcess
<1>4. CASE QueryUiSlot
  <2>1. QueueInv'
    BY <1>0, <1>4, QueueUnchanged DEF QueryUiSlot, queueVars, queueInvVars
  <2>2. (isProcessing => isProcessing') /\ UNCHANGED isResultObtained
    <3>1. CASE UNCHANGED proxyVars
      BY <3>1 DEF proxyVars, flags
    <3>2. ASSUME NEW op \in {"processUi", "refresh"}, NEW ok \in BOOLEAN,
                 SendUi(op, watcher.req, ok)
          PROVE  (isProcessing => isProcessing') /\ UNCHANGED isResultObtained
      BY <3>2 DEF SendUi
    <3>3. QED BY <1>4, <3>1, <3>2 DEF QueryUiSlot
  <2>3. QED
    BY <1>0, <1>4, <2>1, <2>2 DEF QueryUiSlot, queueVars, ActiveIsAwaited, NoRequests
<1>5. CASE QueryUiSlotAsserts
  BY <1>5, NothingDone
     DEF QueryUiSlotAsserts, queueVars, countVars, proxyVars, queueInvVars
<1>6. QED BY <1>1, <1>2, <1>3, <1>4, <1>5 DEF Event

LEMMA OutputQueue == IInv /\ (Output \/ End) => QueueInv' /\ ActiveIsAwaited'
<1> SUFFICES ASSUME IInv, Output \/ End
             PROVE  QueueInv' /\ ActiveIsAwaited'
  OBVIOUS
<1>0. TypeOK /\ QueueInv /\ ActiveIsAwaited
  BY DEF IInv
<1>1. UNCHANGED <<arrived, served, cutShort>>
  BY DEF Output, End, ResultArrives, ErrorArrives, ReportArrives, UiArrives,
         BrokenBlobArrives, PluginFinishes, FixedOnOutput, countVars
<1>2. NoReq \in MaybeReq
  BY DEF MaybeReq
<1>3. ASSUME UNCHANGED queueVars
      PROVE  QueueInv'
  BY <1>0, <1>1, <1>3, QueueUnchanged DEF queueVars, queueInvVars
<1>4. ASSUME ~requestIsActive'
      PROVE  ActiveIsAwaited'
  BY <1>4 DEF ActiveIsAwaited
<1>5. CASE ResultArrives
  <2>1. CASE isResultObtained
    <3>1. UNCHANGED queueVars
      BY <1>5, <2>1 DEF ResultArrives
    <3>2. ~requestIsActive'
      BY <1>0, <2>1, <3>1 DEF ActiveIsAwaited, queueVars
    <3>3. QED BY <1>3, <1>4, <3>1, <3>2
  <2>2. CASE ~isResultObtained
    <3>1. Head(outFile).of \in MaybeReq
      BY <1>0, <1>5, ReadFinalType DEF ResultArrives, TypeOK
    <3>2. QED
      BY <1>0, <1>1, <1>4, <1>5, <2>2, <3>1, ResultReplyQueue DEF ResultArrives
  <2>3. QED BY <2>1, <2>2
<1>6. CASE ErrorArrives
  <2>1. CASE isResultObtained
    <3>1. UNCHANGED queueVars
      BY <1>6, <2>1 DEF ErrorArrives
    <3>2. ~requestIsActive'
      BY <1>0, <2>1, <3>1 DEF ActiveIsAwaited, queueVars
    <3>3. QED BY <1>3, <1>4, <3>1, <3>2
  <2>2. CASE ~isResultObtained
    <3>1. Head(outFile).of \in MaybeReq
      BY <1>0, <1>6, ReadFinalType DEF ErrorArrives, TypeOK
    <3>2. QED
      BY <1>0, <1>1, <1>4, <1>6, <2>2, <3>1, ErrorQueue DEF ErrorArrives
  <2>3. QED BY <2>1, <2>2
<1>7. CASE ReportArrives
  <2>1. UNCHANGED queueVars /\ UNCHANGED flags
    BY <1>7 DEF ReportArrives, ReadOther
  <2>2. QED
    BY <1>0, <1>3, <2>1 DEF ActiveIsAwaited, queueVars, flags, NoRequests
<1>8. CASE UiArrives
  <2>1. UNCHANGED queueVars
    BY <1>8 DEF UiArrives
  <2>2. (isProcessing => isProcessing') /\ UNCHANGED isResultObtained
    BY <1>8 DEF UiArrives, ReadOther, ReadForbiddenUi, flags
  <2>3. QED
    BY <1>0, <1>3, <2>1, <2>2 DEF ActiveIsAwaited, queueVars, NoRequests
<1>9. CASE BrokenBlobArrives
  BY <1>0, <1>1, <1>2, <1>4, <1>9, ErrorQueue DEF BrokenBlobArrives
<1>10. CASE PluginFinishes
  <2>1. CASE FinishIsError
    BY <1>0, <1>1, <1>2, <1>4, <1>10, <2>1, ErrorQueue DEF PluginFinishes
  <2>2. CASE ~FinishIsError
    <3>1. UNCHANGED queueVars
      BY <1>10, <2>2 DEF PluginFinishes
    <3>2. ~requestIsActive'
      BY <1>0, <2>2, <3>1 DEF ActiveIsAwaited, queueVars, FinishIsError
    <3>3. QED BY <1>3, <1>4, <3>1, <3>2
  <2>3. QED BY <2>1, <2>2
<1>11. QED
  BY <1>5, <1>6, <1>7, <1>8, <1>9, <1>10 DEF Output, End

LEMMA OtherQueue ==
    IInv /\ (UiAnswers \/ Timer \/ Plugin) => QueueInv' /\ ActiveIsAwaited'
<1> SUFFICES ASSUME IInv, UiAnswers \/ Timer \/ Plugin
             PROVE  QueueInv' /\ ActiveIsAwaited'
  OBVIOUS
<1>1. UNCHANGED queueInvVars /\ UNCHANGED flags
  BY DEF UiAnswers, Timer, BecomeUnused, Destroy, Plugin, coreVars, queueVars,
         countVars, proxyVars, queueInvVars
<1>2. QED BY <1>1, NothingDone

LEMMA InitInv == Init => IInv
<1> SUFFICES ASSUME Init
             PROVE  IInv
  OBVIOUS
<1>1. DOMAIN listOfRequests = {} /\ NoRequests /\ ~requestIsActive
  <2>1. listOfRequests = << >> /\ DOMAIN << >> = {}
    BY DEF Init, CoreInit
  <2>2. QED BY <2>1 DEF Init, CoreInit, NoRequests
<1>2. Queued = {}
  BY <1>1 DEF Queued, ToSet
<1>3. \A r \in Req : answers[r] = << >>
  BY DEF Init, CoreInit
<1>4. OnlyArrived
  BY <1>1, <1>2, <1>3 DEF Init, CoreInit, OnlyArrived, IsInjective
<1>5. AnsweredOnce
  <2>1. DOMAIN << >> = {}
    OBVIOUS
  <2>2. QED BY <1>3, <2>1 DEF AnsweredOnce
<1>6. QueueInv
  BY <1>1, <1>2, <1>4, <1>5
     DEF QueueInv, ActiveHead, ServedIsActive, CutIsActive, QueuedUnanswered,
         QueuedOnlyCanceled
<1>7. QED BY <1>1, <1>6, InitType DEF IInv, ActiveIsAwaited

LEMMA StepInv == IInv /\ [Next]_vars => IInv'
<1> SUFFICES ASSUME IInv, [Next]_vars
             PROVE  IInv'
  OBVIOUS
<1>1. TypeOK'
  BY StepType DEF IInv
<1>2. CASE Next
  <2>1. Event \/ Call \/ UiAnswers \/ Output \/ End \/ Timer \/ Plugin
    BY <1>2 DEF Next
  <2>2. QED
    BY <1>1, <2>1, CallQueue, EventQueue, OutputQueue, OtherQueue DEF IInv
<1>3. CASE UNCHANGED vars
  <2>1. UNCHANGED queueInvVars /\ UNCHANGED flags
    BY <1>3 DEF vars, coreVars, queueVars, countVars, proxyVars, queueInvVars
  <2>2. QED BY <1>1, <2>1, NothingDone DEF IInv
<1>4. QED BY <1>2, <1>3

LEMMA Invariance == Spec => []IInv
<1>1. Init => IInv
  BY InitInv
<1>2. IInv /\ [Next]_vars => IInv'
  BY StepInv
<1>3. QED BY <1>1, <1>2, PTL DEF Spec

\* No request is handed to the plugin twice, and none is taken off the queue
\* while the plugin works for it, whatever is canceled, restarted or lost.
THEOREM ServedIsActiveHolds == Spec => []ServedIsActive
<1>1. IInv => ServedIsActive
  BY DEF IInv, QueueInv
<1>2. QED BY <1>1, Invariance, PTL

\* An active request can always still be finished by the plugin's reply or end.
THEOREM ActiveIsAwaitedHolds == Spec => []ActiveIsAwaited
<1>1. IInv => ActiveIsAwaited
  BY DEF IInv
<1>2. QED BY <1>1, Invariance, PTL

\* Of the waiting requests only the active canceled one has been answered.
THEOREM QueuedUnansweredHolds == Spec => []QueuedUnanswered
<1>1. IInv => QueuedUnanswered
  BY DEF IInv, QueueInv
<1>2. QED BY <1>1, Invariance, PTL

\* No request is answered twice, but for the replies to cancel() that one
\* canceled while active gets on top.
THEOREM AnsweredOnceHolds == Spec => []AnsweredOnce
<1>1. IInv => AnsweredOnce
  BY DEF IInv, QueueInv
<1>2. QED BY <1>1, Invariance, PTL

-----------------------------------------------------------------------------
(* What becomes of an idle session: no startNewRequest() that returns early  *)
(* leaves a request waiting, and no session refuses to be destroyed.         *)

\* The plugin process has nothing to do, and nothing to say.
NothingUnderWay ==
    /\ pipe = << >> /\ inFile = << >> /\ ~garbled
    /\ outFile = << >>
    /\ task = Idle

\* What the proxy lets through is for the active request: with none, and no
\* result before it, there is nothing that could come through.
QuietPart ==
    /\ procState # "running" => task = Idle
    /\ ~stray /\ ~requestIsActive /\ ~isResultObtained => NothingUnderWay

\* A dialog is open under the active request only; one that has been answered
\* has a call of queryUiSlot() posted.
DialogPart ==
    /\ ~stray /\ watcher.state = "pending" => requestIsActive
    /\ canceled => watcher.state # "pending"
    /\ watcher.state = "finished" => "ui" \in ToSet(events)

\* Only a session without requests may be destroyed.
UnusedPart ==
    /\ requestIsActive => ~autoDestruct
    /\ ~stray /\ unused /\ autoDestruct => watcher = NoWatcher

StartInv == IInv /\ QuietPart /\ DialogPart /\ UnusedPart /\ NoLostStart

-----------------------------------------------------------------------------
(* Posted events *)

\* A call that is posted comes last.
LEMMA PostedJoins ==
    ASSUME NEW es \in Seq(Posted), NEW e \in Posted
    PROVE  ToSet(Append(es, e)) = ToSet(es) \cup {e}
<1> DEFINE t == Append(es, e)
           n == Len(es)
<1>1. /\ n \in Nat /\ DOMAIN es = 1..n /\ t \in Seq(Posted) /\ Len(t) = n + 1
      /\ \A j \in 1..n : t[j] = es[j]
      /\ t[n + 1] = e
  BY LenProperties, AppendProperties
<1>2. DOMAIN t = 1..(n + 1)
  BY <1>1, LenProperties
<1> HIDE DEF t, n
<1>3. \A x \in ToSet(t) : x \in ToSet(es) \cup {e}
  BY <1>1, <1>2 DEF ToSet
<1>4. \A x \in ToSet(es) : x \in ToSet(t)
  BY <1>1, <1>2 DEF ToSet
<1>5. e \in ToSet(t)
  <2>1. n + 1 \in DOMAIN t
    BY <1>1, <1>2
  <2>2. QED BY <1>1, <2>1 DEF ToSet
<1>6. QED BY <1>3, <1>4, <1>5 DEF t

\* The delivery of a call leaves the others posted.
LEMMA PostedStay ==
    ASSUME NEW es \in Seq(Posted), es # << >>,
           NEW e \in ToSet(es), e # Head(es)
    PROVE  e \in ToSet(Tail(es))
<1>1. /\ Len(es) \in Nat /\ DOMAIN es = 1..Len(es)
      /\ Head(es) = es[1]
      /\ Tail(es) \in Seq(Posted)
      /\ Len(Tail(es)) = Len(es) - 1
      /\ \A i \in 1..Len(Tail(es)) : Tail(es)[i] = es[i + 1]
  BY HeadTailProperties, LenProperties
<1>2. PICK k \in DOMAIN es : es[k] = e
  BY DEF ToSet
<1>3. k - 1 \in 1..Len(Tail(es)) /\ Tail(es)[k - 1] = e
  BY <1>1, <1>2
<1>4. DOMAIN Tail(es) = 1..Len(Tail(es))
  BY <1>1, LenProperties
<1>5. QED BY <1>3, <1>4 DEF ToSet

\* A finished watcher that is deleted takes no start with it.
LEMMA StartsStay ==
    ASSUME NEW es \in Seq(Posted), "start" \in ToSet(es)
    PROVE  "start" \in ToSet(WithoutUi(es))
<1>1. CASE \E i \in DOMAIN es : es[i] = "ui"
  <2> DEFINE k == CHOOSE i \in DOMAIN es : es[i] = "ui"
             t == RemoveAt(es, k)
  <2>1. k \in DOMAIN es /\ es[k] = "ui"
    BY <1>1
  <2>2. PICK j \in DOMAIN es : es[j] = "start"
    BY DEF ToSet
  <2> HIDE DEF k
  <2>3. /\ Len(es) \in Nat /\ DOMAIN es = 1..Len(es)
        /\ t \in Seq(Posted)
        /\ Len(t) = Len(es) - 1
        /\ \A i \in 1..(Len(es) - 1) : t[i] = IF i < k THEN es[i] ELSE es[i + 1]
    BY <2>1, RemoveAtProperties, LenProperties
  <2>4. DOMAIN t = 1..(Len(es) - 1)
    BY <2>3, LenProperties
  <2> HIDE DEF t
  <2>5. \E i \in DOMAIN t : t[i] = "start"
    <3>1. j # k
      BY <2>1, <2>2
    <3>2. CASE j < k
      <4>1. j \in DOMAIN t
        BY <2>1, <2>3, <2>4, <3>2
      <4>2. t[j] = "start"
        BY <2>2, <2>3, <2>4, <3>2, <4>1
      <4>3. QED BY <4>1, <4>2
    <3>3. CASE j > k
      <4>1. j - 1 \in DOMAIN t /\ ~(j - 1 < k) /\ j - 1 + 1 = j
        BY <2>1, <2>3, <2>4, <3>3
      <4>2. t[j - 1] = "start"
        BY <2>2, <2>3, <2>4, <4>1
      <4>3. QED BY <4>1, <4>2
    <3>4. QED BY <2>1, <2>3, <3>1, <3>2, <3>3
  <2>6. "start" \in ToSet(t)
    BY <2>5 DEF ToSet
  <2>7. QED BY <1>1, <2>6 DEF WithoutUi, t, k
<1>2. CASE ~\E i \in DOMAIN es : es[i] = "ui"
  BY <1>2 DEF WithoutUi
<1>3. QED BY <1>1, <1>2

-----------------------------------------------------------------------------
(* The plugin process stays quiet *)

\* A call to the plugin process starts it with nothing left of the last one.
LEMMA SendKeepsTask ==
    ASSUME procState # "running" => task = Idle, NEW op, NEW req,
           NEW ok \in BOOLEAN, Send(op, req, ok)
    PROVE  /\ procState' # "running" => task' = Idle
           /\ ~ok => pipe' = << >> /\ UNCHANGED <<inFile, garbled, outFile, task>>
BY DEF Send

\* A plugin process that has nothing to do can only crash.
LEMMA QuietPlugin ==
    ASSUME ProcTypeOK, ProcNext, procState # "running" => task = Idle
    PROVE  /\ procState' # "running" => task' = Idle
           /\ NothingUnderWay => NothingUnderWay'
<1>1. CASE PluginCompletes
  BY <1>1 DEF PluginCompletes, NothingUnderWay, Idle
<1>2. CASE PluginReports
  BY <1>2 DEF PluginReports, NothingUnderWay, Idle
<1>3. CASE PluginAsks
  BY <1>3 DEF PluginAsks, NothingUnderWay, Idle
<1>4. CASE StartTask
  <2>1. PICK m : Execute(m)
    BY <1>4 DEF StartTask
  <2>2. procState' # "running" => task' = Idle
    BY <1>4, <2>1 DEF StartTask, Execute, CancelPlugin
  <2>3. QED BY <1>4, <2>2 DEF StartTask, NothingUnderWay
<1>5. CASE StartTaskGarbled
  BY <1>5 DEF StartTaskGarbled, NothingUnderWay
<1>6. CASE CancelThreadReads
  BY <1>6 DEF CancelThreadReads, NothingUnderWay
<1>7. CASE Crash
  BY <1>7 DEF Crash, NothingUnderWay
<1>8. QED
  BY <1>1, <1>2, <1>3, <1>4, <1>5, <1>6, <1>7 DEF ProcNext

LEMMA QuietStep == StartInv /\ Next => QuietPart'
<1> SUFFICES ASSUME StartInv, Next
             PROVE  QuietPart'
  OBVIOUS
<1>0. TypeOK /\ ProcTypeOK /\ QuietPart
  BY DEF StartInv, IInv, TypeOK, ProxyTypeOK
<1>1. ASSUME UNCHANGED <<procVars, requestIsActive, stray, isResultObtained>>
      PROVE  QuietPart'
  BY <1>0, <1>1 DEF QuietPart, NothingUnderWay, procVars, Idle
<1>2. CASE Call
  <2>1. ASSUME NEW k \in Session, Cancel(k)
        PROVE  QuietPart'
    <3>1. PICK i \in DOMAIN listOfRequests : CancelQueued(i) \/ CancelActive(i)
      BY <2>1 DEF Cancel
    <3>2. CASE CancelQueued(i)
      BY <1>1, <2>1, <3>2 DEF Cancel, CancelQueued, proxyVars, flags
    <3>3. CASE CancelActive(i)
      BY <1>0, <2>1, <3>3 DEF Cancel, CancelActive, SendCancel, QuietPart, flags, Idle
    <3>4. QED BY <3>1, <3>2, <3>3
  <2>2. ASSUME UNCHANGED <<requestIsActive, stray, proxyVars>>
        PROVE  QuietPart'
    BY <1>1, <2>2 DEF proxyVars, flags
  <2>3. QED
    BY <1>2, <2>1, <2>2
       DEF Call, Process, SetId, RemoveIdentity, CredentialsSystemReady, queueVars
<1>3. CASE StartNothing \/ StartLater \/ QueryUiSlotAsserts
  BY <1>1, <1>3
     DEF StartNothing, StartLater, QueryUiSlotAsserts, queueVars, proxyVars, flags
<1>4. CASE StartProcess
  <2>1. CASE SendProcess(Current, TRUE) /\ requestIsActive' = TRUE
    BY <1>0, <2>1, SendKeepsTask DEF SendProcess, QuietPart
  <2>2. CASE SendProcess(Current, FALSE) /\ RequestDone(Tail(events))
    <3>1. Send("process", Current, FALSE) /\ UNCHANGED <<isResultObtained, stray>>
      BY <1>0, <1>4, <2>2 DEF SendProcess, StartProcess, TypeOK, ProxyTypeOK
    <3>2. /\ procState' # "running" => task' = Idle
          /\ pipe' = << >> /\ UNCHANGED <<inFile, garbled, outFile, task>>
      BY <1>0, <3>1, SendKeepsTask DEF QuietPart
    <3>3. ~requestIsActive
      BY <1>4 DEF StartProcess, Busy
    <3>4. QED BY <1>0, <3>1, <3>2, <3>3 DEF QuietPart, NothingUnderWay, Idle
  <2>3. QED BY <1>4, <2>1, <2>2 DEF StartProcess
<1>5. CASE QueryUiSlot
  <2>1. CASE UNCHANGED <<stray, proxyVars>>
    BY <1>1, <1>5, <2>1 DEF QueryUiSlot, queueVars, proxyVars, flags
  <2>2. ASSUME NEW op, NEW ok \in BOOLEAN, SendUi(op, watcher.req, ok),
               stray' = (stray \/ ~requestIsActive)
        PROVE  QuietPart'
    <3>1. procState' # "running" => task' = Idle
      BY <1>0, <2>2, SendKeepsTask DEF SendUi, QuietPart
    <3>2. stray' \/ requestIsActive'
      BY <1>5, <2>2 DEF QueryUiSlot, queueVars
    <3>3. QED BY <3>1, <3>2 DEF QuietPart
  <2>3. QED BY <1>5, <2>1, <2>2 DEF QueryUiSlot
<1>6. CASE ResultArrives \/ ErrorArrives
  BY <1>0, <1>6 DEF ResultArrives, ErrorArrives, ReadFinal, QuietPart, Idle
<1>7. CASE ReportArrives \/ UiArrives
  <2>1. /\ outFile # << >>
        /\ UNCHANGED <<task, procState, isResultObtained, requestIsActive, stray>>
    BY <1>7 DEF ReportArrives, UiArrives, ReadOther, ReadForbiddenUi, Read, flags, queueVars
  <2>2. QED BY <1>0, <2>1 DEF QuietPart, NothingUnderWay, Idle
<1>8. CASE BrokenBlobArrives
  BY <1>0, <1>8 DEF BrokenBlobArrives, ReadBrokenBlob, QuietPart, Idle
<1>9. CASE PluginFinishes
  <2>1. task = Idle /\ task' = Idle /\ NothingUnderWay'
    BY <1>0, <1>9 DEF PluginFinishes, ProcessFinished, QuietPart, NothingUnderWay, Idle
  <2>2. QED BY <2>1 DEF QuietPart
<1>10. CASE UiAnswers \/ Timer
  BY <1>1, <1>10 DEF UiAnswers, Timer, BecomeUnused, Destroy, queueVars, proxyVars, flags
<1>11. CASE Plugin
  <2>1. /\ procState' # "running" => task' = Idle
        /\ NothingUnderWay => NothingUnderWay'
    BY <1>0, <1>11, QuietPlugin DEF Plugin, QuietPart
  <2>2. UNCHANGED <<requestIsActive, stray, isResultObtained>>
    BY <1>11 DEF Plugin, coreVars, queueVars, flags
  <2>3. QED BY <1>0, <2>1, <2>2 DEF QuietPart
<1>12. QED
  BY <1>2, <1>3, <1>4, <1>5, <1>6, <1>7, <1>8, <1>9, <1>10, <1>11
     DEF Next, Event, Output, End

-----------------------------------------------------------------------------
(* A dialog is open under the active request only *)

\* The slots for a result and an error leave the calls posted, and no dialog
\* that waits under a request that is over.
LEMMA DialogEnds ==
    ASSUME TypeOK, DialogPart, NEW of, ProcessResultReply(of) \/ ProcessError(of)
    PROVE  /\ canceled' = canceled
           /\ watcher' = watcher \/ watcher' = NoWatcher
           /\ ToSet(events) \subseteq ToSet(events')
           /\ requestIsActive' => requestIsActive
           /\ watcher'.state = "pending" => UNCHANGED requestIsActive
<1>1. CASE UNCHANGED <<queueVars, watcher, events>>
  BY <1>1 DEF queueVars
<1>2. CASE RequestDone(events) /\ UNCHANGED canceled
  <2>1. ToSet(events) \subseteq ToSet(events') /\ ~requestIsActive'
    BY <1>2, PostedJoins DEF RequestDone, TypeOK, CoreTypeOK, Posted
  <2>2. CASE canceled /\ UNCHANGED watcher
    BY <1>2, <2>1, <2>2 DEF DialogPart
  <2>3. CASE DropPendingUi
    BY <1>2, <2>1, <2>3 DEF DropPendingUi, NoWatcher
  <2>4. QED BY <1>2, <2>2, <2>3 DEF ProcessResultReply, ProcessError, queueVars
<1>3. QED BY <1>1, <1>2 DEF ProcessResultReply, ProcessError

LEMMA DialogStep == StartInv /\ Next => DialogPart'
<1> SUFFICES ASSUME StartInv, Next
             PROVE  DialogPart'
  OBVIOUS
<1>0. TypeOK /\ DialogPart /\ QuietPart /\ events \in Seq(Posted)
  BY DEF StartInv, IInv, TypeOK, CoreTypeOK
<1>1. ASSUME UNCHANGED <<watcher, requestIsActive, canceled, stray>>,
             "ui" \in ToSet(events) => "ui" \in ToSet(events')
      PROVE  DialogPart'
  BY <1>0, <1>1 DEF DialogPart
<1>2. "ui" \in ToSet(events) => "ui" \in ToSet(Append(events, "start"))
  BY <1>0, PostedJoins DEF Posted
<1>3. ASSUME NextEvent("start")
      PROVE  "ui" \in ToSet(events) => "ui" \in ToSet(Tail(events))
  BY <1>0, <1>3, PostedStay DEF NextEvent
<1>4. CASE Call
  <2>1. ASSUME NEW k \in Session, Cancel(k)
        PROVE  DialogPart'
    <3>1. PICK i \in DOMAIN listOfRequests : CancelQueued(i) \/ CancelActive(i)
      BY <2>1 DEF Cancel
    <3>2. CASE CancelQueued(i)
      BY <1>1, <2>1, <3>2 DEF Cancel, CancelQueued
    <3>3. CASE CancelActive(i)
      BY <1>0, <2>1, <3>3 DEF Cancel, CancelActive, DropPendingUi, NoWatcher, DialogPart
    <3>4. QED BY <3>1, <3>2, <3>3
  <2>2. ASSUME UNCHANGED <<watcher, requestIsActive, canceled, stray>>,
               events' \in {events, Append(events, "start")}
        PROVE  DialogPart'
    BY <1>1, <1>2, <2>2
  <2>3. QED
    BY <1>4, <2>1, <2>2
       DEF Call, Process, SetId, RemoveIdentity, CredentialsSystemReady, queueVars
<1>5. CASE StartNothing \/ StartLater
  <2>1. "ui" \in ToSet(events) => "ui" \in ToSet(events')
    BY <1>3, <1>5 DEF StartNothing, StartLater
  <2>2. UNCHANGED <<watcher, requestIsActive, stray>> /\ ~canceled'
    BY <1>5 DEF StartNothing, StartLater, ForgetCancel
  <2>3. QED BY <1>0, <2>1, <2>2 DEF DialogPart
<1>6. CASE StartProcess
  <2>1. watcher.state # "pending" /\ UNCHANGED <<watcher, stray>> /\ ~canceled'
    BY <1>6 DEF StartProcess, Busy, ForgetCancel
  <2>2. "ui" \in ToSet(events) => "ui" \in ToSet(events')
    <3>1. Tail(events) \in Seq(Posted)
      BY <1>0, <1>6, EventsType DEF StartProcess, NextEvent
    <3>2. ToSet(Tail(events)) \subseteq ToSet(Append(Tail(events), "start"))
      BY <3>1, PostedJoins DEF Posted
    <3>3. events' \in {Tail(events), Append(Tail(events), "start")}
      BY <1>6 DEF StartProcess, RequestDone
    <3>4. NextEvent("start")
      BY <1>6 DEF StartProcess
    <3>5. QED BY <1>3, <3>2, <3>3, <3>4
  <2>3. QED BY <1>0, <2>1, <2>2 DEF DialogPart
<1>7. CASE QueryUiSlot
  BY <1>7 DEF QueryUiSlot, NoWatcher, DialogPart
<1>8. CASE QueryUiSlotAsserts
  BY <1>1, <1>8 DEF QueryUiSlotAsserts, queueVars
<1>9. CASE UiAnswers
  <2>1. "ui" \in ToSet(events')
    BY <1>0, <1>9, PostedJoins DEF UiAnswers, Posted
  <2>2. watcher'.state = "finished"
    <3>1. watcher \in [state : {"pending", "finished"}, req : Req]
      BY <1>0, <1>9 DEF TypeOK, CoreTypeOK, UiAnswers, NoWatcher
    <3>2. QED BY <1>9, <3>1 DEF UiAnswers
  <2>3. QED BY <2>1, <2>2 DEF DialogPart
<1>10. ASSUME NEW of, ProcessResultReply(of) \/ ProcessError(of), stray => stray'
       PROVE  DialogPart'
  BY <1>0, <1>10, DialogEnds DEF DialogPart, NoWatcher
<1>11. CASE ResultArrives \/ ErrorArrives
  <2>1. CASE ~isResultObtained
    BY <1>10, <1>11, <2>1 DEF ResultArrives, ErrorArrives
  <2>2. CASE isResultObtained
    BY <1>1, <1>11, <2>2 DEF ResultArrives, ErrorArrives, queueVars
  <2>3. QED BY <2>1, <2>2
<1>12. CASE ReportArrives
  BY <1>1, <1>12 DEF ReportArrives, queueVars
<1>13. CASE UiArrives
  <2>1. UNCHANGED <<requestIsActive, canceled, stray>>
    BY <1>13 DEF UiArrives, queueVars
  <2>2. CASE UNCHANGED <<watcher, events>>
    BY <1>1, <2>1, <2>2
  <2>3. CASE /\ ~canceled /\ ~isResultObtained
             /\ watcher' = [state |-> "pending", req |-> Current]
    <3>1. outFile # << >>
      BY <1>13 DEF UiArrives, ReadOther, ReadForbiddenUi, Read
    <3>2. ~stray => requestIsActive
      BY <1>0, <2>3, <3>1 DEF QuietPart, NothingUnderWay
    <3>3. QED BY <2>1, <2>3, <3>2 DEF DialogPart
  <2>4. QED BY <1>13, <2>2, <2>3 DEF UiArrives, ProcessUiRequest
<1>14. CASE BrokenBlobArrives
  BY <1>10, <1>14 DEF BrokenBlobArrives
<1>15. CASE PluginFinishes
  <2>1. CASE FinishIsError
    BY <1>10, <1>15, <2>1 DEF PluginFinishes
  <2>2. CASE ~FinishIsError
    BY <1>1, <1>15, <2>2 DEF PluginFinishes, queueVars
  <2>3. QED BY <2>1, <2>2
<1>16. CASE Timer \/ Plugin
  BY <1>1, <1>16 DEF Timer, BecomeUnused, Destroy, Plugin, coreVars, queueVars
<1>17. QED
  BY <1>4, <1>5, <1>6, <1>7, <1>8, <1>9, <1>11, <1>12, <1>13, <1>14, <1>15, <1>16
     DEF Next, Event, Output, End

-----------------------------------------------------------------------------
(* Only a session without requests may be destroyed *)

LEMMA UnusedStep == StartInv /\ Next => UnusedPart'
<1> SUFFICES ASSUME StartInv, Next
             PROVE  UnusedPart'
  OBVIOUS
<1>0. TypeOK /\ UnusedPart /\ DialogPart /\ ActiveIsAwaited
  BY DEF StartInv, IInv
<1>1. ASSUME UNCHANGED <<autoDestruct, stray, unused, requestIsActive>>,
             watcher = NoWatcher => watcher' = NoWatcher
      PROVE  UnusedPart'
  BY <1>0, <1>1 DEF UnusedPart
<1>2. ASSUME KeepInUse, UNCHANGED autoDestruct, requestIsActive' => requestIsActive
      PROVE  UnusedPart'
  BY <1>0, <1>2 DEF KeepInUse, UnusedPart
<1>3. CASE Call
  <2>1. ASSUME NEW k \in Session, Cancel(k)
        PROVE  UnusedPart'
    <3>1. watcher = NoWatcher => watcher' = NoWatcher
      BY <2>1 DEF Cancel, CancelQueued, CancelActive, DropPendingUi
    <3>2. QED BY <1>1, <2>1, <3>1 DEF Cancel, dispVars
  <2>2. QED
    BY <1>1, <1>2, <1>3, <2>1
       DEF Call, Process, SetId, RemoveIdentity, CredentialsSystemReady, queueVars, dispVars
<1>4. CASE StartNothing
  BY <1>0, <1>4 DEF StartNothing, KeepInUse, ActiveIsAwaited, UnusedPart
<1>5. CASE StartLater \/ QueryUiSlot
  BY <1>2, <1>5 DEF StartLater, QueryUiSlot, queueVars
<1>6. CASE StartProcess
  BY <1>6 DEF StartProcess, UnusedPart
<1>7. CASE QueryUiSlotAsserts
  BY <1>1, <1>7 DEF QueryUiSlotAsserts, queueVars
<1>8. CASE UiAnswers
  BY <1>0, <1>8 DEF UiAnswers, UnusedPart, NoWatcher, queueVars, dispVars
<1>9. ASSUME UNCHANGED <<autoDestruct, stray>>,
             \/ UNCHANGED <<queueVars, watcher, unused>>
             \/ KeepInUse /\ UNCHANGED queueVars
      PROVE  UnusedPart'
  BY <1>1, <1>2, <1>9 DEF queueVars
<1>10. ASSUME NEW of, ProcessResultReply(of) \/ ProcessError(of), UNCHANGED autoDestruct
       PROVE  UnusedPart'
  BY <1>0, <1>2, <1>10, DialogEnds DEF ProcessResultReply, ProcessError
<1>11. CASE Output \/ End
  <2>1. UNCHANGED autoDestruct
    BY <1>11
       DEF Output, End, ResultArrives, ErrorArrives, ReportArrives, UiArrives,
           BrokenBlobArrives, PluginFinishes, FixedOnOutput
  <2>2. CASE ReportArrives \/ UiArrives
    BY <1>9, <2>1, <2>2 DEF ReportArrives, UiArrives, ProcessUiRequest
  <2>3. CASE ResultArrives \/ ErrorArrives
    BY <1>9, <1>10, <2>1, <2>3 DEF ResultArrives, ErrorArrives
  <2>4. CASE BrokenBlobArrives \/ PluginFinishes
    BY <1>9, <1>10, <2>1, <2>4 DEF BrokenBlobArrives, PluginFinishes
  <2>5. QED BY <1>11, <2>2, <2>3, <2>4 DEF Output, End
<1>12. CASE BecomeUnused
  <2>1. ToSet(events) = {}
    <3>1. DOMAIN << >> = {}
      OBVIOUS
    <3>2. QED BY <1>12, <3>1 DEF BecomeUnused, ToSet
  <2>2. ~requestIsActive
    BY <1>0, <1>12 DEF BecomeUnused, UnusedPart
  <2>3. ~stray => watcher = NoWatcher
    BY <1>0, <2>1, <2>2 DEF DialogPart, TypeOK, CoreTypeOK
  <2>4. QED BY <1>12, <2>2, <2>3 DEF BecomeUnused, UnusedPart, queueVars
<1>13. CASE Destroy \/ Plugin
  BY <1>1, <1>13 DEF Destroy, Plugin, coreVars, queueVars, dispVars
<1>14. QED
  BY <1>3, <1>4, <1>5, <1>6, <1>7, <1>8, <1>11, <1>12, <1>13 DEF Next, Event, Timer

-----------------------------------------------------------------------------
(* No start is lost *)

LEMMA StartStep == StartInv /\ Next => NoLostStart'
<1> SUFFICES ASSUME StartInv, Next
             PROVE  NoLostStart'
  OBVIOUS
<1>0. /\ TypeOK /\ DialogPart /\ NoLostStart
      /\ events \in Seq(Posted)
      /\ requestIsActive => ~NoRequests
      /\ life = "live"
  BY DEF StartInv, IInv, TypeOK, CoreTypeOK, ActiveIsAwaited, Next
<1>1. ASSUME UNCHANGED <<ready, stray, listOfRequests, requestIsActive>>,
             "start" \in ToSet(events) => "start" \in ToSet(events')
      PROVE  NoLostStart'
  BY <1>0, <1>1 DEF NoLostStart, NoRequests
<1>2. ASSUME NEW es \in Seq(Posted), events' = Append(es, "start")
      PROVE  NoLostStart'
  <2>1. "start" \in ToSet(events')
    BY <1>2, PostedJoins DEF Posted
  <2>2. QED BY <2>1 DEF NoLostStart
<1>3. CASE Call
  <2>1. ASSUME NEW r \in Req, Process(r)
        PROVE  NoLostStart'
    <3>1. CASE ready
      BY <1>0, <1>2, <2>1, <3>1 DEF Process
    <3>2. CASE ~ready
      BY <2>1, <3>2 DEF Process, NoLostStart
    <3>3. QED BY <3>1, <3>2
  <2>2. ASSUME NEW k \in Session, Cancel(k)
        PROVE  NoLostStart'
    <3>1. ~NoRequests
      <4>1. DOMAIN << >> = {}
        OBVIOUS
      <4>2. QED BY <2>2, <4>1 DEF Cancel, NoRequests
    <3>2. UNCHANGED <<requestIsActive, events, ready, stray>>
      BY <2>2 DEF Cancel
    <3>3. QED BY <1>0, <3>1, <3>2 DEF NoLostStart
  <2>3. CASE SetId \/ RemoveIdentity
    BY <1>1, <2>3 DEF SetId, RemoveIdentity, queueVars
  <2>4. CASE CredentialsSystemReady
    BY <1>0, <1>2, <2>4 DEF CredentialsSystemReady
  <2>5. QED BY <1>3, <2>1, <2>2, <2>3, <2>4 DEF Call
<1>4. CASE StartNothing
  BY <1>4 DEF StartNothing, NoRequests, NoLostStart
<1>5. CASE StartLater
  BY <1>0, <1>5 DEF StartLater, Busy, DialogPart, NoLostStart
<1>6. CASE StartProcess
  <2>1. CASE requestIsActive' = TRUE
    BY <2>1 DEF NoLostStart
  <2>2. CASE RequestDone(Tail(events))
    <3>1. Tail(events) \in Seq(Posted)
      BY <1>0, <1>6, EventsType DEF StartProcess, NextEvent
    <3>2. QED BY <1>2, <2>2, <3>1 DEF RequestDone
  <2>3. QED BY <1>6, <2>1, <2>2 DEF StartProcess
<1>7. CASE QueryUiSlot
  <2>1. "start" \in ToSet(events) => "start" \in ToSet(events')
    BY <1>0, <1>7, PostedStay DEF QueryUiSlot, NextEvent
  <2>2. UNCHANGED <<ready, listOfRequests, requestIsActive>>
    BY <1>7 DEF QueryUiSlot, queueVars
  <2>3. stray' = stray \/ stray' = (stray \/ ~requestIsActive)
    BY <1>7 DEF QueryUiSlot
  <2>4. stray => stray'
    BY <2>3
  <2>5. QED BY <1>0, <2>1, <2>2, <2>4 DEF NoLostStart, NoRequests
<1>8. CASE QueryUiSlotAsserts
  BY <1>8 DEF QueryUiSlotAsserts, NoLostStart
<1>9. CASE UiAnswers
  <2>1. "start" \in ToSet(events) => "start" \in ToSet(events')
    BY <1>0, <1>9, PostedJoins DEF UiAnswers, Posted
  <2>2. QED BY <1>1, <1>9, <2>1 DEF UiAnswers, queueVars
<1>10. ASSUME NEW of, ProcessResultReply(of) \/ ProcessError(of),
              UNCHANGED <<ready, stray>>
       PROVE  NoLostStart'
  <2>1. CASE RequestDone(events)
    BY <1>0, <1>2, <2>1 DEF RequestDone
  <2>2. CASE UNCHANGED <<queueVars, events>>
    BY <1>1, <1>10, <2>2 DEF queueVars
  <2>3. QED BY <1>10, <2>1, <2>2 DEF ProcessResultReply, ProcessError
<1>11. CASE Output \/ End
  <2>1. UNCHANGED ready
    BY <1>11
       DEF Output, End, ResultArrives, ErrorArrives, ReportArrives, UiArrives,
           BrokenBlobArrives, PluginFinishes, FixedOnOutput
  <2>2. CASE ResultArrives \/ ErrorArrives
    BY <1>1, <1>10, <2>1, <2>2 DEF ResultArrives, ErrorArrives, queueVars
  <2>3. CASE ReportArrives
    BY <1>1, <2>1, <2>3 DEF ReportArrives, queueVars
  <2>4. CASE UiArrives
    <3>1. events' \in {events, WithoutUi(events)}
      BY <2>4 DEF UiArrives, ProcessUiRequest
    <3>2. "start" \in ToSet(events) => "start" \in ToSet(events')
      BY <1>0, <3>1, StartsStay
    <3>3. QED BY <1>1, <2>1, <2>4, <3>2 DEF UiArrives, queueVars
  <2>5. CASE BrokenBlobArrives
    BY <2>5 DEF BrokenBlobArrives, NoLostStart
  <2>6. CASE PluginFinishes
    BY <1>1, <1>10, <2>1, <2>6 DEF PluginFinishes, queueVars
  <2>7. QED BY <1>11, <2>2, <2>3, <2>4, <2>5, <2>6 DEF Output, End
<1>12. CASE Timer \/ Plugin
  BY <1>1, <1>12 DEF Timer, BecomeUnused, Destroy, Plugin, coreVars, queueVars, NoLostStart
<1>13. QED
  BY <1>3, <1>4, <1>5, <1>6, <1>7, <1>8, <1>9, <1>11, <1>12 DEF Next, Event

-----------------------------------------------------------------------------
(* The theorems *)

LEMMA StartInvInit == Init => StartInv
<1> SUFFICES ASSUME Init
             PROVE  StartInv
  OBVIOUS
<1>1. IInv
  BY InitInv
<1>2. QuietPart
  BY DEF Init, ProxyInit, ProcInit, QuietPart, NothingUnderWay
<1>3. DialogPart /\ UnusedPart /\ NoLostStart
  BY DEF Init, CoreInit, DialogPart, UnusedPart, NoLostStart, NoWatcher, NoRequests
<1>4. QED BY <1>1, <1>2, <1>3 DEF StartInv

LEMMA StartInvStep == StartInv /\ [Next]_vars => StartInv'
<1> SUFFICES ASSUME StartInv, [Next]_vars
             PROVE  StartInv'
  OBVIOUS
<1>1. IInv'
  BY StepInv DEF StartInv
<1>2. CASE Next
  BY <1>1, <1>2, QuietStep, DialogStep, UnusedStep, StartStep DEF StartInv
<1>3. CASE UNCHANGED vars
  <2>1. QuietPart'
    BY <1>3 DEF StartInv, QuietPart, NothingUnderWay, Idle, vars, proxyVars,
                procVars, flags, coreVars, queueVars
  <2>2. DialogPart' /\ UnusedPart' /\ NoLostStart'
    BY <1>3 DEF StartInv, DialogPart, UnusedPart, NoLostStart, NoWatcher,
                NoRequests, vars, coreVars, queueVars, dispVars
  <2>3. QED BY <1>1, <2>1, <2>2 DEF StartInv
<1>4. QED BY <1>2, <1>3

LEMMA StartInvariance == Spec => []StartInv
BY StartInvInit, StartInvStep, PTL DEF Spec

\* Whatever returns early from startNewRequest(), a request that waits with no
\* active one before it has a start posted.
THEOREM NoLostStartHolds == Spec => []NoLostStart
<1>1. StartInv => NoLostStart
  BY DEF StartInv
<1>2. QED BY <1>1, StartInvariance, PTL

\* The timer never finds a session that refuses to be destroyed.
THEOREM DestroyNeverRefusesHolds == Spec => []DestroyNeverRefuses
<1>1. StartInv => DestroyNeverRefuses
  BY DEF StartInv, UnusedPart, DestroyNeverRefuses
<1>2. QED BY <1>1, StartInvariance, PTL
=============================================================================
