------------------------- MODULE SessionRefinement -------------------------
(* SessionCore implements RequestService: the head of m_listOfRequests is in *)
(* service while m_requestIsActive, the rest of the list waits.              *)
EXTENDS SessionCore

Waiting == IF requestIsActive THEN Tail(listOfRequests) ELSE listOfRequests
InService == IF requestIsActive THEN Current ELSE NoReq
Answered == {r \in Req : answers[r] # << >>}

Service == INSTANCE RequestService
           WITH waiting <- Waiting, inService <- InService, answered <- Answered

\* The queue, the posted starts, the cancellation flag and the late answers of
\* the plugin process together serve the requests one at a time, in order, and
\* let none go without an answer.
ImplementsService == Service!SSpec
=============================================================================
