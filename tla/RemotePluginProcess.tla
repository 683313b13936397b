------------------------ MODULE RemotePluginProcess ------------------------
(* The signon plugin process: src/remotepluginprocess/remotepluginprocess.cpp *)
(* with its two threads, the two pipes that join it to signond, and the      *)
(* authentication plugin it hosts.                                           *)
(*                                                                           *)
(* The process reads operations from its standard input and writes responses *)
(* to its standard output.  The main thread reads through m_inFile, a QFile  *)
(* opened on the descriptor: it buffers whatever the (non blocking) pipe     *)
(* holds, so operations may have left the pipe and not yet been executed.    *)
(* While the plugin works, the main thread's read notifier is off and the    *)
(* cancel thread reads the raw pipe instead.                                 *)
(*                                                                           *)
(* What the plugin does with a request is its own business (any library that *)
(* implements AuthPluginInterface may be loaded): its signals are            *)
(* nondeterministic.                                                         *)
EXTENDS Naturals, Sequences

CONSTANTS Req,             \* the requests clients may send
          NoReq,           \* "no request"
          CancelReactions, \* how the plugin's cancel() behaves: "error", "silent"
          EndsDialogs,     \* may a plugin finish while its dialog is open
          FaultKinds,      \* faults that may happen: "crash", "brokenBlob"
          MaxOut,          \* a plugin reports progress only while less is unread
          MaxFault         \* bound on the faults of a behaviour

ASSUME ReqAssumption == NoReq \notin Req
ASSUME ReactionAssumption ==
    CancelReactions \subseteq {"error", "silent"} /\ CancelReactions # {}
ASSUME BoundAssumption ==
    EndsDialogs \in BOOLEAN /\ MaxOut \in Nat /\ MaxFault \in Nat

VARIABLES pipe,      \* operations in the pipe to the process
          inFile,    \* operations the main thread has buffered, unexecuted
          garbled,   \* the cancel thread took an opcode and left its payload
          outFile,   \* responses signond has not read
          task,      \* what the plugin is doing, and on whose data
          procState, \* the process, as QProcess has or has not yet noticed
          faults     \* the faults so far, oldest first

procVars == <<pipe, inFile, garbled, outFile, task, procState, faults>>

MaybeReq == Req \cup {NoReq}

\* An operation (ipc.h) with the request whose data it carries.
Ops == {"process", "processUi", "refresh", "cancel", "stop"}
Operation == [op : Ops, of : MaybeReq]

\* A response (ipc.h) with the request the plugin was working for.
Responses == {"result", "store", "error", "signal", "ui", "refreshed"}
Response == [op : Responses, of : MaybeReq]

Phases == {"idle", "working", "refreshing", "asking"}
Idle == [phase |-> "idle", req |-> NoReq]

\* "exited" and "crashed" are ends the daemon's QProcess has not reported yet.
ProcStates == {"running", "exited", "crashed", "notRunning"}

ProcTypeOK ==
    /\ pipe \in Seq(Operation)
    /\ inFile \in Seq(Operation)
    /\ garbled \in BOOLEAN
    /\ outFile \in Seq(Response)
    /\ task \in [phase : Phases, req : MaybeReq]
    /\ procState \in ProcStates
    /\ faults \in Seq(FaultKinds)

ProcInit ==
    /\ pipe = << >>
    /\ inFile = << >>
    /\ garbled = FALSE
    /\ outFile = << >>
    /\ task = Idle
    /\ procState = "running"
    /\ faults = << >>

-----------------------------------------------------------------------------
\* The cancel thread runs exactly while the plugin works: enableCancelThread()
\* before every call into the plugin, disableCancelThread() in result(),
\* error(), userActionRequired() and refreshed().
CancelThreadRunning == task.phase \in {"working", "refreshing"}

Respond(kind, req) == outFile' = Append(outFile, [op |-> kind, of |-> req])

\* The plugin signals result() or error(): at the end of its work, or while a
\* dialog it asked for is open (a time-out, an answer from the network; never
\* PasswordPlugin).
PluginCompletes ==
    /\ procState = "running"
    /\ task.phase # "idle"
    /\ task.phase = "asking" => EndsDialogs
    /\ \E kind \in {"result", "error"} :
          /\ kind = "result" => task.phase # "refreshing"
          /\ Respond(kind, task.req)
    /\ task' = Idle
    /\ UNCHANGED <<pipe, inFile, garbled, procState, faults>>

\* The plugin signals store() or statusChanged(): the cancel thread stays on.
PluginReports ==
    /\ procState = "running"
    /\ task.phase = "working"
    /\ Len(outFile) < MaxOut
    /\ \E kind \in {"store", "signal"} : Respond(kind, task.req)
    /\ UNCHANGED <<pipe, inFile, garbled, task, procState, faults>>

\* The plugin signals userActionRequired(), or refreshed() after a refresh().
PluginAsks ==
    /\ procState = "running"
    /\ \/ task.phase = "working" /\ Respond("ui", task.req)
       \/ task.phase = "refreshing" /\ Respond("refreshed", task.req)
    /\ task' = [task EXCEPT !.phase = "asking"]
    /\ UNCHANGED <<pipe, inFile, garbled, procState, faults>>

\* What the plugin's cancel() does: PasswordPlugin signals an error whatever it
\* is doing; ExamplePlugin, and the default of AuthPluginInterface, do nothing.
CancelPlugin(reaction, req) ==
    \/ /\ reaction = "error"
       /\ Respond("error", req)
       /\ task' = Idle
    \/ /\ reaction = "silent"
       /\ UNCHANGED <<outFile, task>>

\* One operation, executed by the main thread.
Execute(m) ==
    \/ /\ m.op \in {"process", "processUi"}
       /\ task' = [phase |-> "working", req |-> m.of]
       /\ UNCHANGED <<outFile, procState>>
    \/ /\ m.op = "refresh"
       /\ task' = [phase |-> "refreshing", req |-> m.of]
       /\ UNCHANGED <<outFile, procState>>
    \/ /\ m.op = "cancel"
       /\ \E reaction \in CancelReactions : CancelPlugin(reaction, m.of)
       /\ UNCHANGED procState
    \/ /\ m.op = "stop"
       /\ procState' = "exited"
       /\ task' = Idle
       /\ UNCHANGED outFile

\* startTask(): the notifier fires because the pipe holds bytes; reading the
\* opcode buffers the next n operations of the pipe, and one is executed.
StartTask ==
    /\ procState = "running"
    /\ ~CancelThreadRunning
    /\ pipe # << >> \/ garbled
    /\ \E n \in 0..Len(pipe) :
          LET buffered == inFile \o SubSeq(pipe, 1, n) IN
            /\ garbled => n = 0
            /\ buffered # << >>
            /\ Execute(Head(buffered))
            /\ inFile' = Tail(buffered)
            /\ pipe' = SubSeq(pipe, n + 1, Len(pipe))
    /\ UNCHANGED <<garbled, faults>>

\* The payload the cancel thread left behind is read as an opcode: unknown, so
\* abort() and processStopped().
StartTaskGarbled ==
    /\ procState = "running"
    /\ ~CancelThreadRunning
    /\ garbled
    /\ inFile = << >>
    /\ procState' = "exited"
    /\ task' = Idle
    /\ UNCHANGED <<pipe, inFile, garbled, outFile, faults>>

\* CancelEventThread::cancel(): four bytes are read from the raw pipe and the
\* plugin's cancel() is called, whatever they were.  When they were the opcode
\* of another operation its payload stays behind, unless the thread goes on
\* eating it before the main thread switches it off.
CancelThreadReads ==
    /\ procState = "running"
    /\ CancelThreadRunning
    /\ ~garbled
    /\ pipe # << >>
    /\ pipe' = Tail(pipe)
    /\ \E reaction \in CancelReactions, left \in BOOLEAN :
          /\ left => /\ reaction = "error"
                     /\ Head(pipe).op \in {"process", "processUi", "refresh"}
          /\ CancelPlugin(reaction, Head(pipe).of)
          /\ garbled' = left
    /\ UNCHANGED <<inFile, procState, faults>>

Fault(kind) ==
    /\ kind \in FaultKinds
    /\ Len(faults) < MaxFault
    /\ faults' = Append(faults, kind)

\* The plugin process dies of a signal; what it had written can still be read.
Crash ==
    /\ procState = "running"
    /\ Fault("crash")
    /\ procState' = "crashed"
    /\ task' = Idle
    /\ UNCHANGED <<pipe, inFile, garbled, outFile>>

ProcNext ==
    \/ PluginCompletes
    \/ PluginReports
    \/ PluginAsks
    \/ StartTask
    \/ StartTaskGarbled
    \/ CancelThreadReads
    \/ Crash
=============================================================================
