--------------------------- MODULE RequestService ---------------------------
(* What a session core promises to the clients of an identity and method:    *)
(* their requests are served one at a time, in the order they came, none is  *)
(* served twice, and none leaves without an answer.  It says nothing of      *)
(* plugins, dialogs or processes.                                            *)
EXTENDS SequencesExt, Naturals

CONSTANTS Req, NoReq

VARIABLES waiting,   \* the requests not yet begun, oldest first
          inService, \* the one that is being served
          answered   \* the requests whose caller has got an answer

svars == <<waiting, inService, answered>>

Known == ToSet(waiting) \cup {inService} \cup answered

SInit ==
    /\ waiting = << >>
    /\ inService = NoReq
    /\ answered = {}

\* A client sends a request.
Join(r) ==
    /\ r \notin Known
    /\ waiting' = Append(waiting, r)
    /\ UNCHANGED <<inService, answered>>

\* The oldest waiting request is begun, when none is in service.
Begin ==
    /\ inService = NoReq
    /\ waiting # << >>
    /\ inService' = Head(waiting)
    /\ waiting' = Tail(waiting)
    /\ UNCHANGED answered

\* The service ends, with an answer unless a cancel has given it before.
Finish ==
    /\ inService # NoReq
    /\ answered' = answered \cup {inService}
    /\ inService' = NoReq
    /\ UNCHANGED waiting

\* A canceled request is answered at once; one in service still has to finish.
CancelInService ==
    /\ inService # NoReq
    /\ answered' = answered \cup {inService}
    /\ UNCHANGED <<waiting, inService>>

\* A waiting request is canceled, or cannot be begun: it is answered.
Withdraw(i) ==
    /\ waiting' = RemoveAt(waiting, i)
    /\ answered' = answered \cup {waiting[i]}
    /\ UNCHANGED inService

SNext ==
    \/ \E r \in Req : Join(r)
    \/ Begin
    \/ Finish
    \/ CancelInService
    \/ \E i \in DOMAIN waiting : Withdraw(i)

SSpec == SInit /\ [][SNext]_svars
=============================================================================
