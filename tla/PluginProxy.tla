---------------------------- MODULE PluginProxy ----------------------------
(* The daemon's end of the plugin process: src/signond/pluginproxy.cpp.      *)
(*                                                                           *)
(* The operators here are the proxy's half of a step: SessionCore conjoins   *)
(* each with the slot of its own that the proxy's signal is connected to     *)
(* (the connections are direct, so both halves are one step of the daemon).  *)
EXTENDS RemotePluginProcess

CONSTANT UiPolicyOf  \* the UiPolicy parameter each request carries

UiPolicies == {"default", "noUserInteraction", "validation"}

ASSUME PolicyAssumption == UiPolicyOf \in [Req -> UiPolicies]

VARIABLES isProcessing,     \* m_isProcessing
          isResultObtained, \* m_isResultObtained
          uiPolicy          \* m_uiPolicy

flags == <<isProcessing, isResultObtained, uiPolicy>>
proxyVars == <<procVars, flags>>

ProxyTypeOK ==
    /\ ProcTypeOK
    /\ isProcessing \in BOOLEAN
    /\ isResultObtained \in BOOLEAN
    /\ uiPolicy \in UiPolicies

\* m_uiPolicy is not initialised: process() sets it before anything reads it.
ProxyInit ==
    /\ ProcInit
    /\ isProcessing = FALSE
    /\ isResultObtained = FALSE
    /\ uiPolicy \in UiPolicies

-----------------------------------------------------------------------------
\* Bytes written to a process that has ended are lost.
Write(op, req) ==
    pipe' = IF procState = "running"
            THEN Append(pipe, [op |-> op, of |-> req])
            ELSE pipe

\* restartIfRequired(), then the operation is written.  A restart starts the
\* process and waits for the bytes it prints when it is up: `ok` is false when
\* it does not start, and also when it starts but onReadStandardOutput(), still
\* connected to readyRead(), takes those bytes first.
Send(op, req, ok) ==
    \/ /\ procState # "notRunning"
       /\ ok
       /\ Write(op, req)
       /\ UNCHANGED <<inFile, garbled, outFile, task, procState, faults>>
    \/ /\ procState = "notRunning"
       /\ procState' \in {"running", "notRunning"}
       /\ ok => procState' = "running"
       /\ pipe' = IF ok THEN <<[op |-> op, of |-> req]>> ELSE << >>
       /\ UNCHANGED <<inFile, garbled, outFile, task, faults>>

\* process()
SendProcess(req, ok) ==
    /\ Send("process", req, ok)
    /\ isResultObtained' = (isResultObtained /\ ~ok)
    /\ uiPolicy' = IF ok THEN UiPolicyOf[req] ELSE uiPolicy
    /\ isProcessing' = (isProcessing \/ ok)

\* processUi() and processRefresh()
SendUi(op, req, ok) ==
    /\ Send(op, req, ok)
    /\ isProcessing' = (isProcessing \/ ok)
    /\ UNCHANGED <<isResultObtained, uiPolicy>>

\* cancel(): no restart; the opcode goes to whatever process there is.
SendCancel(req) ==
    /\ Write("cancel", req)
    /\ UNCHANGED <<inFile, garbled, outFile, task, procState, faults>>
    /\ UNCHANGED flags

-----------------------------------------------------------------------------
\* onReadStandardOutput() takes the next response off the process's output.
Read(kinds) ==
    /\ outFile # << >>
    /\ Head(outFile).op \in kinds
    /\ outFile' = Tail(outFile)

\* handlePluginResponse() of RESULT and ERROR: a signal is emitted only for the
\* first of them after process().
ReadFinal(kind) ==
    /\ Read({kind})
    /\ isProcessing' = FALSE
    /\ isResultObtained' = TRUE
    /\ UNCHANGED <<pipe, inFile, garbled, task, procState, faults, uiPolicy>>

\* ... of STORE, SIGNAL, REFRESHED, and of UI when the dialog is allowed.
ReadOther(kinds) ==
    /\ Read(kinds)
    /\ UNCHANGED <<pipe, inFile, garbled, task, procState, faults>>
    /\ UNCHANGED flags

\* The ui policy decides on a dialog: none at all, or none that only asks for
\* credentials (a captcha is still shown).
UiAllowed(credentialsOnly) ==
    /\ uiPolicy # "noUserInteraction"
    /\ uiPolicy = "validation" => ~credentialsOnly

\* ... of UI when the policy forbids the dialog: the proxy answers the plugin
\* itself.  The process has not been seen to end, so nothing is restarted.
ReadForbiddenUi ==
    /\ Read({"ui"})
    /\ ~isResultObtained
    /\ \E credentialsOnly \in BOOLEAN : ~UiAllowed(credentialsOnly)
    /\ Write("processUi", Head(outFile).of)
    /\ isProcessing' = TRUE
    /\ UNCHANGED <<inFile, garbled, task, procState, faults>>
    /\ UNCHANGED <<isResultObtained, uiPolicy>>

\* blobIOError(): a response's data is incomplete; the process is told to stop.
\* What arrives of the data later is taken for an unknown opcode, and flushed
\* with the responses that have come by then.
ReadBrokenBlob ==
    /\ outFile # << >>
    /\ Head(outFile).op \notin {"error", "signal"}
    /\ \E n \in 1..Len(outFile) : outFile' = SubSeq(outFile, n + 1, Len(outFile))
    /\ Fault("brokenBlob")
    /\ Write("stop", NoReq)
    /\ UNCHANGED <<inFile, garbled, task, procState>>
    /\ UNCHANGED flags

\* onExit(): QProcess reports the end once the output has been read.
ProcessFinished ==
    /\ procState \in {"exited", "crashed"}
    /\ outFile = << >>
    /\ procState' = "notRunning"
    /\ pipe' = << >>
    /\ inFile' = << >>
    /\ garbled' = FALSE
    /\ isProcessing' = FALSE
    /\ UNCHANGED <<outFile, task, faults, isResultObtained, uiPolicy>>

\* Mutant: a crash is taken for an orderly end.
FinishIsExit == isProcessing /\ procState # "crashed"

\* When onExit() tells the session core that the plugin has crashed.
FinishIsError == isProcessing \/ procState = "crashed"
=============================================================================
