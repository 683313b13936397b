-------------------------- MODULE ClientLibraryProofs --------------------------
(* Proofs about ClientLibrary: what holds of an application with any number  *)
(* of calls and registrations at one time, of every kind of object, over any *)
(* number of connections lost and remote objects destroyed.                  *)
(*                                                                           *)
(* The first sections say what each operator of the client's modules makes   *)
(* of the calls and proxies, as a relation between the client before and     *)
(* after (Carries, Registers, Finishes, ...); then each action is shown to   *)
(* keep the invariant by the relations of the operators it is built from.    *)
EXTENDS ClientLibrary, FiniteSetTheorems, SequenceTheorems, WellFoundedInduction, TLAPS

-----------------------------------------------------------------------------
\* Clients and their calls.

AnyCall == [st : {"free", "queued", "sent", "failing", "failed"}, op : Ops,
            watched : BOOLEAN, cut : BOOLEAN, lost : BOOLEAN, old : BOOLEAN,
            told : Nat, unnoticed : BOOLEAN]

AnyClient == [proxy : [Proxy -> ProxyState], call : [Call -> AnyCall],
              ended : SUBSET [told : Nat, unnoticed : BOOLEAN],
              link : {"none", "up", "dropped"},
              service : {"unknown", "activating", "activated"},
              starting : BOOLEAN,
              state : IdentityStates, info : Version, known : BOOLEAN,
              registering : BOOLEAN, process : Operation \cup {NoProcess},
              methods : Seq(Operation)]

\* What is not a matter of the proxies.
SameObject(r, q) ==
    /\ q.ended = r.ended /\ q.state = r.state /\ q.info = r.info /\ q.known = r.known
    /\ q.registering = r.registering /\ q.process = r.process /\ q.methods = r.methods

\* A call that waits may be sent; one that has been sent may be cut.
CallKeeps(a, b) ==
    /\ b.told = a.told /\ b.op = a.op /\ b.unnoticed = a.unnoticed
    /\ \/ /\ b.st = a.st /\ b.lost = a.lost /\ b.old = a.old /\ b.watched = a.watched
          /\ b.cut = a.cut \/ (a.st = "sent" /\ b.cut)
       \/ a.st = "queued" /\ b.st = "sent" /\ ~b.lost /\ ~b.old /\ b.watched

\* Or it may fail.
CallFails(a, b) ==
    /\ b.told = a.told /\ b.op = a.op
    /\ IF a.st = "queued" THEN b.st = "failed"
       ELSE /\ b.st = a.st /\ b.lost = a.lost /\ b.old = a.old /\ b.watched = a.watched
            /\ b.unnoticed = a.unnoticed
            /\ b.cut = a.cut \/ (a.st = "sent" /\ b.cut)

Calm(r, q) == SameObject(r, q) /\ \A c \in Call : CallKeeps(r.call[c], q.call[c])

UpdatedCall(call, status) ==
    [AtStatus(call, status) EXCEPT
        !.cut = @ \/ call.st = "sent",
        !.unnoticed = @ \/ (call.st = "queued" /\ status = "Invalid")]

Statuses == {"Incomplete", "Ready", "Invalid"}

LEMMA Slots ==
    /\ Main \in Proxy /\ Service \subseteq Proxy /\ Service \subseteq Call /\ Operation \subseteq Call
    /\ Main \notin Service /\ Main \notin Call /\ NoProcess \notin Operation
    /\ \A c \in Operation : c \notin Service /\ ProxyOf(c) = Main
    /\ \A s \in Service : s \notin Operation /\ ProxyOf(s) = s
    /\ \A c \in Call : ProxyOf(c) \in Proxy
    /\ \A p \in Proxy : p # Main => p \in Service
    /\ \A c \in Call : c \in Operation \/ c \in Service
  BY CallsAssumption, NoProcessAssumption DEF Proxy, Call, ProxyOf, Main, NoProcess

LEMMA FreeCallType == FreeCall \in AnyCall /\ FreeCall.st = "free" /\ FreeCall.told = 0
                      /\ ~FreeCall.unnoticed /\ FreeCall.op = "register"
  BY DEF FreeCall, AnyCall, Ops

LEMMA StatusOfType ==
  ASSUME NEW x \in ProxyState
  PROVE  /\ StatusOf(x) \in Statuses
         /\ StatusOf(x) = "Ready" => x.path /\ x.conn = "live"
         /\ StatusOf(x) = "Invalid" => x.path /\ x.conn = "dead"
         /\ x.conn = "live" /\ x.path => StatusOf(x) = "Ready"
  BY DEF StatusOf, ProxyState, Statuses

LEMMA UpdatedCallKeeps ==
  ASSUME NEW a \in AnyCall, NEW status \in Statuses
  PROVE  /\ UpdatedCall(a, status) \in AnyCall
         /\ status # "Invalid" => CallKeeps(a, UpdatedCall(a, status))
         /\ status = "Invalid" => CallFails(a, UpdatedCall(a, status))
         /\ a.st = "queued" /\ status = "Invalid" => UpdatedCall(a, status).unnoticed
         /\ a.st = "sent" => UpdatedCall(a, status).cut
         /\ status = "Incomplete" => UpdatedCall(a, status).st = a.st
  BY ZenonT(30) DEF UpdatedCall, AtStatus, Sent, AnyCall, CallKeeps, CallFails, Statuses

LEMMA KeepsSelf ==
  ASSUME NEW a \in AnyCall
  PROVE  CallKeeps(a, a)
  BY DEF CallKeeps

LEMMA KeepsTransitive ==
  ASSUME NEW a \in AnyCall, NEW b \in AnyCall, NEW d \in AnyCall, CallKeeps(a, b), CallKeeps(b, d)
  PROVE  CallKeeps(a, d)
  BY DEF CallKeeps, AnyCall

LEMMA KeepsFree ==
  ASSUME NEW a \in AnyCall, NEW b \in AnyCall, CallKeeps(a, b), a.st = "free"
  PROVE  b = a
  BY DEF CallKeeps, AnyCall

LEMMA CalmTransitive ==
  ASSUME NEW r \in AnyClient, NEW q \in AnyClient, NEW z \in AnyClient, Calm(r, q), Calm(q, z)
  PROVE  Calm(r, z)
  <1>1. \A c \in Call : r.call[c] \in AnyCall /\ q.call[c] \in AnyCall /\ z.call[c] \in AnyCall
    BY DEF AnyClient
  <1>2. SameObject(r, z)
    BY DEF Calm, SameObject
  <1> QED
    BY <1>1, <1>2, KeepsTransitive DEF Calm

\* update() of several proxies.
Updates(r, q, ps) ==
    /\ q \in AnyClient /\ SameObject(r, q)
    /\ q.link = r.link /\ q.service = r.service /\ q.starting = r.starting
    /\ \A p \in Proxy : q.proxy[p] =
           IF p \in ps THEN [r.proxy[p] EXCEPT !.status = StatusOf(r.proxy[p])] ELSE r.proxy[p]
    /\ \A c \in Call : q.call[c] =
           IF ProxyOf(c) \in ps THEN UpdatedCall(r.call[c], StatusOf(r.proxy[ProxyOf(c)]))
           ELSE r.call[c]

LEMMA UpdateIs ==
  ASSUME NEW r \in AnyClient, NEW ps
  PROVE  Updates(r, Update(r, ps), ps)
  <1> DEFINE px == [p \in Proxy |-> IF p \in ps THEN [r.proxy[p] EXCEPT !.status = StatusOf(r.proxy[p])]
                                    ELSE r.proxy[p]]
             cl == [c \in Call |-> IF ProxyOf(c) \in ps
                                   THEN UpdatedCall(r.call[c], StatusOf(r.proxy[ProxyOf(c)]))
                                   ELSE r.call[c]]
  <1>1. Update(r, ps) = [r EXCEPT !.proxy = px, !.call = cl]
    BY DEF Update, UpdatedCall, AnyClient
  <1>2. px \in [Proxy -> ProxyState]
    BY StatusOfType DEF AnyClient, ProxyState, Statuses
  <1>3. cl \in [Call -> AnyCall]
    BY StatusOfType, UpdatedCallKeeps, Slots DEF AnyClient
  <1> HIDE DEF px, cl
  <1>4. [r EXCEPT !.proxy = px, !.call = cl] \in AnyClient
    BY <1>2, <1>3 DEF AnyClient
  <1>5. [r EXCEPT !.proxy = px, !.call = cl].proxy = px /\ [r EXCEPT !.proxy = px, !.call = cl].call = cl
    BY DEF AnyClient
  <1>6. SameObject(r, [r EXCEPT !.proxy = px, !.call = cl])
    BY DEF AnyClient, SameObject
  <1>7. /\ [r EXCEPT !.proxy = px, !.call = cl].link = r.link
        /\ [r EXCEPT !.proxy = px, !.call = cl].service = r.service
        /\ [r EXCEPT !.proxy = px, !.call = cl].starting = r.starting
    BY DEF AnyClient
  <1> QED
    BY <1>1, <1>4, <1>5, <1>6, <1>7 DEF px, cl, Updates

LEMMA MinIn ==
  ASSUME NEW S, S \subseteq Nat, S # {}
  PROVE  Min(S) \in S
  <1>1. PICK x \in S : \A y \in S : ~(<<y, x>> \in OpToRel(<, Nat))
    BY NatLessThanWellFounded, WFMin
  <1>2. \A y \in S : ~(y < x)
    BY <1>1, Zenon DEF OpToRel
  <1>3. \A y \in S : x <= y
    <2> SUFFICES ASSUME NEW y \in S PROVE x <= y
      OBVIOUS
    <2>1. x \in Nat /\ y \in Nat /\ ~(y < x)
      BY <1>2
    <2> QED BY <2>1
  <1> QED
    BY <1>3 DEF Min

\* What holds of the client's calls and proxies also in the middle of a step.
Mid(r) ==
    /\ r \in AnyClient
    /\ \A c \in Call : /\ r.call[c].st = "free" => r.call[c] = FreeCall
                       /\ r.call[c].st = "failing" => c \in Operation /\ r.call[c].unnoticed
                       /\ r.call[c].st = "sent" => r.call[c].watched
    /\ \A s \in Service : /\ r.call[s].op = "register" /\ ~r.call[s].unnoticed
                          /\ r.call[s].st # "failed"
                          /\ ~r.proxy[s].used => r.call[s].st = "free" /\ r.proxy[s] = NoProxy
                          /\ r.proxy[s].status # "Invalid"
    /\ r.proxy[Main].used
    /\ r.proxy[Main].status = "Ready" => r.proxy[Main].path /\ r.proxy[Main].conn # "none"
    /\ ~r.proxy[Main].path => \A c \in Operation : r.call[c].st = "sent" => r.call[c].cut

SameMain(r, q) == q.proxy[Main].path = r.proxy[Main].path
SameUsed(r, q) == \A p \in Proxy : q.proxy[p].used = r.proxy[p].used

\* Without a path no call of the object is sent.
Unsent(r, q) == ~q.proxy[Main].path => \A c \in Operation : q.call[c].st = r.call[c].st

\* SetConnection, SetDisconnected.
LEMMA UpdatedMid ==
  ASSUME NEW r, Mid(r), NEW z \in AnyClient, SameObject(r, z), z.call = r.call,
         \A p \in Proxy : /\ z.proxy[p].used = r.proxy[p].used
                          /\ z.proxy[p].used => z.proxy[p].conn # "dead"
                          /\ ~z.proxy[p].used => z.proxy[p] = r.proxy[p]
  PROVE  LET q == Update(z, UsedProxies(z)) IN
         /\ Mid(q) /\ Calm(r, q) /\ SameUsed(r, q) /\ Unsent(r, q)
         /\ q.link = z.link /\ q.service = z.service /\ q.starting = z.starting
         /\ \A p \in Proxy : q.proxy[p].path = z.proxy[p].path /\ q.proxy[p].conn = z.proxy[p].conn
         /\ q.proxy[Main].status # "Invalid"
  <1> DEFINE q == Update(z, UsedProxies(z))
  <1>1. /\ q \in AnyClient /\ SameObject(z, q)
        /\ q.link = z.link /\ q.service = z.service /\ q.starting = z.starting
        /\ \A p \in Proxy : q.proxy[p] =
               IF z.proxy[p].used THEN [z.proxy[p] EXCEPT !.status = StatusOf(z.proxy[p])] ELSE z.proxy[p]
        /\ \A c \in Call : q.call[c] =
               IF z.proxy[ProxyOf(c)].used THEN UpdatedCall(z.call[c], StatusOf(z.proxy[ProxyOf(c)]))
               ELSE z.call[c]
    BY UpdateIs, Slots DEF UsedProxies, Updates
  <1> HIDE DEF q
  <1>2. \A p \in Proxy : z.proxy[p] \in ProxyState /\ r.proxy[p] \in ProxyState
    BY DEF Mid, AnyClient
  <1>3. \A p \in Proxy : /\ q.proxy[p].used = r.proxy[p].used
                         /\ q.proxy[p].path = z.proxy[p].path /\ q.proxy[p].conn = z.proxy[p].conn
                         /\ r.proxy[p].used => q.proxy[p].status = StatusOf(z.proxy[p])
                         /\ ~r.proxy[p].used => q.proxy[p] = r.proxy[p]
    <2> SUFFICES ASSUME NEW p \in Proxy
                 PROVE  /\ q.proxy[p].used = r.proxy[p].used
                        /\ q.proxy[p].path = z.proxy[p].path /\ q.proxy[p].conn = z.proxy[p].conn
                        /\ r.proxy[p].used => q.proxy[p].status = StatusOf(z.proxy[p])
                        /\ ~r.proxy[p].used => q.proxy[p] = r.proxy[p]
      OBVIOUS
    <2>1. CASE z.proxy[p].used
      <3>1. q.proxy[p] = [z.proxy[p] EXCEPT !.status = StatusOf(z.proxy[p])]
        BY <1>1, <2>1
      <3>2. z.proxy[p] \in ProxyState
        BY <1>2
      <3>3. /\ q.proxy[p].used = z.proxy[p].used
            /\ q.proxy[p].path = z.proxy[p].path /\ q.proxy[p].conn = z.proxy[p].conn
            /\ q.proxy[p].status = StatusOf(z.proxy[p])
        BY <3>1, <3>2 DEF ProxyState
      <3> QED
        BY <2>1, <3>3
    <2>2. CASE ~z.proxy[p].used
      BY <1>1, <2>2
    <2> QED
      BY <2>1, <2>2
  <1>4. \A p \in Proxy : z.proxy[p].used => StatusOf(z.proxy[p]) \in {"Incomplete", "Ready"}
    BY <1>2, StatusOfType DEF Statuses
  <1>5. \A c \in Call : r.call[c] \in AnyCall /\ q.call[c] \in AnyCall
    BY <1>1 DEF Mid, AnyClient
  <1>6. \A c \in Call : CallKeeps(r.call[c], q.call[c])
    BY <1>1, <1>4, <1>5, Slots, UpdatedCallKeeps, KeepsSelf DEF Statuses
  <1>7. r.proxy[Main].used
    BY DEF Mid
  <1>8. \A c \in Operation : /\ q.call[c] = UpdatedCall(r.call[c], StatusOf(z.proxy[Main]))
    BY <1>1, <1>7, Slots
  <1>9. ~q.proxy[Main].path => \A c \in Operation : /\ q.call[c].st = "sent" => q.call[c].cut
                                                    /\ q.call[c].st = r.call[c].st
    <2> SUFFICES ASSUME ~q.proxy[Main].path, NEW c \in Operation
                 PROVE  (q.call[c].st = "sent" => q.call[c].cut) /\ q.call[c].st = r.call[c].st
      OBVIOUS
    <2>1. ~z.proxy[Main].path
      BY <1>3, Slots
    <2>2. StatusOf(z.proxy[Main]) = "Incomplete"
      BY <2>1, <1>4, <1>2, <1>7, Slots, StatusOfType
    <2>3. q.call[c].st = r.call[c].st
      BY <1>8, <2>2, <1>5, Slots, UpdatedCallKeeps DEF Statuses
    <2> QED
      BY <1>8, <2>2, <2>3, <1>5, Slots, UpdatedCallKeeps DEF Statuses
  <1>10. q.proxy[Main].status # "Invalid"
    BY <1>3, <1>4, <1>7, Slots
  <1>11. \A s \in Service : q.proxy[s].status # "Invalid"
    BY <1>3, <1>4, Slots DEF Mid
  <1>12. \A c \in Call : /\ q.call[c].st = "free" => q.call[c] = FreeCall
                         /\ q.call[c].st = "failing" => c \in Operation /\ q.call[c].unnoticed
                         /\ q.call[c].st = "sent" => q.call[c].watched
    BY SMTT(20), <1>5, <1>6 DEF Mid, CallKeeps, AnyCall
  <1>13. \A s \in Service : /\ q.call[s].op = "register" /\ ~q.call[s].unnoticed
                            /\ q.call[s].st # "failed"
    BY <1>5, <1>6, Slots DEF Mid, CallKeeps, AnyCall
  <1>14. \A s \in Service : ~q.proxy[s].used => q.call[s].st = "free" /\ q.proxy[s] = NoProxy
    BY <1>3, <1>6, Slots DEF Mid, CallKeeps
  <1>15. q.proxy[Main].used /\ (q.proxy[Main].status = "Ready" => q.proxy[Main].path /\ q.proxy[Main].conn # "none")
    BY <1>2, <1>3, <1>7, Slots, StatusOfType
  <1>16. Mid(q)
    BY <1>1, <1>9, <1>11, <1>12, <1>13, <1>14, <1>15 DEF Mid
  <1>17. SameObject(r, q)
    BY <1>1 DEF SameObject
  <1> QED
    BY <1>1, <1>3, <1>6, <1>9, <1>10, <1>16, <1>17 DEF Calm, SameUsed, Unsent, q

\* Only connections have changed, and what follows from that.
Carries(r, q) == Mid(q) /\ Calm(r, q) /\ SameMain(r, q) /\ SameUsed(r, q) /\ Unsent(r, q)

LEMMA CarriesSelf ==
  ASSUME NEW r, Mid(r)
  PROVE  Carries(r, r)
  BY KeepsSelf DEF Carries, Calm, SameMain, SameUsed, Unsent, SameObject, Mid, AnyClient

LEMMA CarriesTransitive ==
  ASSUME NEW r, NEW q, NEW z, Mid(r), Carries(r, q), Carries(q, z)
  PROVE  Carries(r, z)
  <1>1. r \in AnyClient /\ q \in AnyClient /\ z \in AnyClient
    BY DEF Carries, Mid
  <1>2. Calm(r, z)
    BY <1>1, CalmTransitive DEF Carries
  <1> QED
    BY <1>2 DEF Carries, SameMain, SameUsed, Unsent

LEMMA SetConnectionCarries ==
  ASSUME NEW r, Mid(r)
  PROVE  /\ Carries(r, SetConnection(r))
         /\ SetConnection(r).link = r.link
         /\ SetConnection(r).proxy[Main].conn = "live"
         /\ SetConnection(r).proxy[Main].status # "Invalid"
  <1> DEFINE z == [r EXCEPT !.proxy = [p \in Proxy |-> IF @[p].used THEN [@[p] EXCEPT !.conn = "live"]
                                                      ELSE @[p]]]
  <1>1. r \in AnyClient /\ r.proxy[Main].used /\ \A p \in Proxy : r.proxy[p] \in ProxyState
    BY DEF Mid, AnyClient
  <1>2. \A p \in Proxy : (IF r.proxy[p].used THEN [r.proxy[p] EXCEPT !.conn = "live"] ELSE r.proxy[p])
                            \in ProxyState
    BY <1>1 DEF ProxyState
  <1>3. z \in AnyClient
    BY <1>1, <1>2 DEF AnyClient
  <1>4. SameObject(r, z) /\ z.call = r.call /\ z.link = r.link
    BY <1>1 DEF AnyClient, SameObject
  <1>5. \A p \in Proxy : z.proxy[p] = IF r.proxy[p].used THEN [r.proxy[p] EXCEPT !.conn = "live"]
                                      ELSE r.proxy[p]
    BY <1>1 DEF AnyClient
  <1> HIDE DEF z
  <1>6. \A p \in Proxy : r.proxy[p].used => /\ z.proxy[p].used = r.proxy[p].used
                                            /\ z.proxy[p].conn = "live"
                                            /\ z.proxy[p].path = r.proxy[p].path
    BY ZenonT(30), <1>1, <1>5 DEF ProxyState
  <1>7. \A p \in Proxy : ~r.proxy[p].used => z.proxy[p] = r.proxy[p]
    BY <1>5
  <1>8. \A p \in Proxy : /\ z.proxy[p].used = r.proxy[p].used
                         /\ z.proxy[p].used => z.proxy[p].conn # "dead"
                         /\ ~z.proxy[p].used => z.proxy[p] = r.proxy[p]
    BY <1>6, <1>7
  <1>9. SetConnection(r) = Update(z, UsedProxies(z))
    BY <1>8 DEF SetConnection, z, UsedProxies
  <1> DEFINE q == Update(z, UsedProxies(z))
  <1>10. /\ Mid(q) /\ Calm(r, q) /\ SameUsed(r, q) /\ Unsent(r, q) /\ q.link = z.link
         /\ \A p \in Proxy : q.proxy[p].path = z.proxy[p].path /\ q.proxy[p].conn = z.proxy[p].conn
         /\ q.proxy[Main].status # "Invalid"
    BY <1>3, <1>4, <1>8, UpdatedMid
  <1>11. q.proxy[Main].path = r.proxy[Main].path /\ q.proxy[Main].conn = "live"
    BY <1>1, <1>6, <1>10, Slots
  <1> HIDE DEF q
  <1> QED
    BY <1>4, <1>9, <1>10, <1>11 DEF Carries, SameMain, q

LEMMA ProxyDisconnected ==
  ASSUME NEW x \in ProxyState, NEW y, y = [x EXCEPT !.conn = "none", !.path = FALSE]
  PROVE  /\ y \in ProxyState /\ y.used = x.used /\ y.conn = "none" /\ y.path = FALSE
         /\ x = NoProxy => y = x
  <1>1. y \in ProxyState /\ y.used = x.used /\ y.conn = "none" /\ y.path = FALSE /\ y.status = x.status
    BY DEF ProxyState
  <1>2. ASSUME x = NoProxy
        PROVE  y = x
    BY ZenonT(30), <1>1, <1>2 DEF NoProxy, ProxyState
  <1> QED
    BY <1>1, <1>2

LEMMA SetDisconnectedMid ==
  ASSUME NEW r, Mid(r)
  PROVE  /\ Mid(SetDisconnected(r)) /\ Calm(r, SetDisconnected(r)) /\ SameUsed(r, SetDisconnected(r))
         /\ Unsent(r, SetDisconnected(r)) /\ SetDisconnected(r).link = r.link
         /\ ~SetDisconnected(r).proxy[Main].path /\ SetDisconnected(r).proxy[Main].conn = "none"
         /\ SetDisconnected(r).proxy[Main].status # "Invalid"
  <1> DEFINE z == [r EXCEPT !.proxy = [p \in Proxy |-> [@[p] EXCEPT !.conn = "none", !.path = FALSE]]]
  <1>1. r \in AnyClient /\ r.proxy[Main].used /\ \A p \in Proxy : r.proxy[p] \in ProxyState
    BY DEF Mid, AnyClient
  <1>2. \A p \in Proxy : [r.proxy[p] EXCEPT !.conn = "none", !.path = FALSE] \in ProxyState
    BY ZenonT(30), <1>1 DEF ProxyState
  <1>3. z \in AnyClient
    BY <1>1, <1>2 DEF AnyClient
  <1>4. SameObject(r, z) /\ z.call = r.call /\ z.link = r.link
    BY <1>1 DEF AnyClient, SameObject
  <1>5. \A p \in Proxy : z.proxy[p] = [r.proxy[p] EXCEPT !.conn = "none", !.path = FALSE]
    BY <1>1 DEF AnyClient
  <1> HIDE DEF z
  <1>6. \A p \in Proxy : /\ z.proxy[p].used = r.proxy[p].used
                         /\ z.proxy[p].conn = "none"
                         /\ ~z.proxy[p].path
    <2> SUFFICES ASSUME NEW p \in Proxy
                 PROVE  /\ z.proxy[p].used = r.proxy[p].used
                        /\ z.proxy[p].conn = "none"
                        /\ z.proxy[p].path = FALSE
      OBVIOUS
    <2>1. r.proxy[p] \in ProxyState /\ z.proxy[p] = [r.proxy[p] EXCEPT !.conn = "none", !.path = FALSE]
      BY <1>1, <1>5
    <2> QED
      BY ZenonT(30), <2>1, ProxyDisconnected
  <1>7. \A p \in Proxy : ~r.proxy[p].used => z.proxy[p] = r.proxy[p]
    <2> SUFFICES ASSUME NEW p \in Proxy, ~r.proxy[p].used
                 PROVE  z.proxy[p] = r.proxy[p]
      OBVIOUS
    <2>1. r.proxy[p] = NoProxy
      BY <1>1, Slots DEF Mid
    <2> QED
      BY <1>1, <1>5, <2>1, ProxyDisconnected
  <1>8. \A p \in Proxy : /\ z.proxy[p].used = r.proxy[p].used
                         /\ z.proxy[p].used => z.proxy[p].conn # "dead"
                         /\ ~z.proxy[p].used => z.proxy[p] = r.proxy[p]
    BY <1>6, <1>7
  <1>9. SetDisconnected(r) = Update(z, UsedProxies(z))
    BY <1>6 DEF SetDisconnected, z, UsedProxies
  <1> DEFINE q == Update(z, UsedProxies(z))
  <1>10. /\ Mid(q) /\ Calm(r, q) /\ SameUsed(r, q) /\ Unsent(r, q) /\ q.link = z.link
         /\ \A p \in Proxy : q.proxy[p].path = z.proxy[p].path /\ q.proxy[p].conn = z.proxy[p].conn
         /\ q.proxy[Main].status # "Invalid"
    BY <1>3, <1>4, <1>8, UpdatedMid
  <1>11. ~q.proxy[Main].path /\ q.proxy[Main].conn = "none"
    BY <1>6, <1>10, Slots
  <1> HIDE DEF q
  <1> QED
    BY <1>4, <1>9, <1>10, <1>11 DEF q

LEMMA ManagerCarries ==
  ASSUME NEW r, Mid(r), NEW q \in AnyClient, SameObject(r, q), q.call = r.call, q.proxy = r.proxy
  PROVE  Carries(r, q)
  <1>1. Mid(q)
    BY DEF Mid
  <1>2. Calm(r, q)
    BY KeepsSelf DEF Calm, Mid, AnyClient
  <1> QED
    BY <1>1, <1>2 DEF Carries, SameMain, SameUsed, Unsent

\* A new connection, or none.
Conn(r, q) ==
    /\ q.proxy[Main].status = "Invalid" => r.proxy[Main].status = "Invalid"
    /\ \/ q.proxy[Main].conn = r.proxy[Main].conn /\ q.link = r.link
       \/ q.proxy[Main].conn = "live" /\ q.link = "up"

Connects(r, q) == Carries(r, q) /\ Conn(r, q)

LEMMA UpConnects ==
  ASSUME NEW r, Mid(r)
  PROVE  Connects(r, SetConnection([r EXCEPT !.link = "up"]))
  <1> DEFINE z == [r EXCEPT !.link = "up"]
  <1>1. z \in AnyClient /\ SameObject(r, z) /\ z.call = r.call /\ z.proxy = r.proxy /\ z.link = "up"
    BY DEF Mid, AnyClient, SameObject
  <1> HIDE DEF z
  <1>2. Carries(r, z) /\ Mid(z)
    BY <1>1, ManagerCarries DEF Carries
  <1>3. Carries(r, SetConnection(z))
    BY <1>2, SetConnectionCarries, CarriesTransitive
  <1>4. Connects(r, SetConnection(z))
    BY <1>1, <1>2, <1>3, SetConnectionCarries DEF Connects, Conn
  <1> QED
    BY <1>4 DEF z

LEMMA InitConnectionConnects ==
  ASSUME NEW r, Mid(r), NEW d \in BOOLEAN
  PROVE  Connects(r, InitConnection(r, d))
  <1>1. CASE r.service = "activating"
    BY <1>1, CarriesSelf DEF InitConnection, Connects, Conn
  <1>2. CASE r.service # "activating" /\ d
    BY <1>2, UpConnects DEF InitConnection
  <1>3. CASE r.service # "activating" /\ ~d
    <2> DEFINE z == [r EXCEPT !.service = "activating", !.starting = TRUE]
    <2>1. /\ z \in AnyClient /\ SameObject(r, z) /\ z.call = r.call /\ z.proxy = r.proxy
          /\ z.link = r.link
      BY DEF Mid, AnyClient, SameObject
    <2>2. InitConnection(r, d) = z
      BY <1>3 DEF InitConnection
    <2> HIDE DEF z
    <2> QED
      BY <2>1, <2>2, ManagerCarries DEF Connects, Conn
  <1> QED
    BY <1>1, <1>2, <1>3

LEMMA ConnectConnects ==
  ASSUME NEW r, Mid(r), NEW d \in BOOLEAN
  PROVE  Connects(r, Connect(r, d))
  <1>1. CASE r.link = "up"
    BY <1>1, SetConnectionCarries DEF Connect, Connects, Conn
  <1>2. CASE r.link # "up"
    BY <1>2, InitConnectionConnects DEF Connect
  <1> QED
    BY <1>1, <1>2

LEMMA OnActivationDoneConnects ==
  ASSUME NEW r, Mid(r), NEW ok \in BOOLEAN
  PROVE  Connects(r, OnActivationDone(r, ok))
  <1> DEFINE done == [r EXCEPT !.starting = FALSE]
             act == [done EXCEPT !.service = "activated"]
  <1>1. /\ done \in AnyClient /\ SameObject(r, done) /\ done.call = r.call /\ done.proxy = r.proxy
        /\ done.link = r.link
    BY DEF Mid, AnyClient, SameObject
  <1>2. /\ act \in AnyClient /\ SameObject(r, act) /\ act.call = r.call /\ act.proxy = r.proxy
        /\ act.link = r.link /\ act.service = "activated"
    BY DEF Mid, AnyClient, SameObject
  <1>3. OnActivationDone(r, ok) = IF ok THEN InitConnection(act, TRUE) ELSE done
    BY DEF OnActivationDone
  <1> HIDE DEF done, act
  <1>4. CASE ~ok
    BY <1>1, <1>3, <1>4, ManagerCarries DEF Connects, Conn
  <1>5. CASE ok
    <2>1. Carries(r, act) /\ Mid(act)
      BY <1>2, ManagerCarries DEF Carries
    <2>2. Connects(act, InitConnection(act, TRUE))
      BY <2>1, InitConnectionConnects
    <2>3. Carries(r, InitConnection(act, TRUE))
      BY <2>1, <2>2, CarriesTransitive DEF Connects
    <2> QED
      BY <1>2, <1>3, <1>5, <2>2, <2>3 DEF Connects, Conn
  <1> QED
    BY <1>4, <1>5

\* OnDisconnected: everything is known to be lost.
Loses(r, q) ==
    /\ Mid(q) /\ Calm(r, q) /\ SameUsed(r, q) /\ Unsent(r, q) /\ q.link = r.link
    /\ ~q.proxy[Main].path /\ q.proxy[Main].status # "Invalid"

LEMMA OnDisconnectedLoses ==
  ASSUME NEW r, Mid(r)
  PROVE  Loses(r, OnDisconnected(r))
  <1> DEFINE z == [r EXCEPT !.service = "unknown"]
  <1>1. /\ z \in AnyClient /\ SameObject(r, z) /\ z.call = r.call /\ z.proxy = r.proxy
        /\ z.link = r.link
    BY DEF Mid, AnyClient, SameObject
  <1>2. OnDisconnected(r) = SetDisconnected(z)
    BY DEF OnDisconnected
  <1> HIDE DEF z
  <1>3. Carries(r, z) /\ Mid(z)
    BY <1>1, ManagerCarries DEF Carries
  <1>4. /\ Mid(SetDisconnected(z)) /\ Calm(z, SetDisconnected(z)) /\ SameUsed(z, SetDisconnected(z))
        /\ Unsent(z, SetDisconnected(z)) /\ SetDisconnected(z).link = z.link
        /\ ~SetDisconnected(z).proxy[Main].path
        /\ SetDisconnected(z).proxy[Main].status # "Invalid"
    BY <1>3, SetDisconnectedMid
  <1>5. Calm(r, SetDisconnected(z))
    BY <1>3, <1>4, CalmTransitive DEF Carries, Mid
  <1> QED
    BY <1>1, <1>2, <1>3, <1>4, <1>5 DEF Loses, Carries, SameUsed, Unsent

-----------------------------------------------------------------------------
\* Calls that are made.

Puttable(r, c, x) ==
    /\ x \in AnyCall /\ x.st # "free"
    /\ x.st = "failing" => c \in Operation /\ x.unnoticed
    /\ x.st = "sent" => x.watched
    /\ c \in Service => /\ x.op = "register" /\ ~x.unnoticed /\ x.st # "failed"
                        /\ r.proxy[c].used
    /\ c \in Operation /\ x.st = "sent" /\ ~r.proxy[Main].path => x.cut

WithCall(r, c, x) == [r EXCEPT !.call[c] = x]

HasPut(r, q, c, x) ==
    /\ Mid(q) /\ SameObject(r, q) /\ q.proxy = r.proxy /\ q.link = r.link /\ q.call[c] = x
    /\ \A e \in Call : e # c => q.call[e] = r.call[e]

LEMMA PutCall ==
  ASSUME NEW r, Mid(r), NEW c \in Call, NEW x, Puttable(r, c, x)
  PROVE  HasPut(r, WithCall(r, c, x), c, x)
  <1> DEFINE q == WithCall(r, c, x)
  <1>1. r \in AnyClient
    BY DEF Mid, Puttable
  <1>2. /\ q \in AnyClient /\ SameObject(r, q) /\ q.proxy = r.proxy /\ q.link = r.link
        /\ q.call[c] = x /\ \A e \in Call : e # c => q.call[e] = r.call[e]
    BY <1>1 DEF AnyClient, SameObject, Puttable, WithCall
  <1>3. \A e \in Call : /\ q.call[e].st = "free" => q.call[e] = FreeCall
                        /\ q.call[e].st = "failing" => e \in Operation /\ q.call[e].unnoticed
                        /\ q.call[e].st = "sent" => q.call[e].watched
    BY <1>2 DEF Mid, Puttable
  <1>4. \A s \in Service : /\ q.call[s].op = "register" /\ ~q.call[s].unnoticed
                           /\ q.call[s].st # "failed"
    BY <1>2, Slots DEF Mid, Puttable
  <1>5. \A s \in Service : ~q.proxy[s].used => q.call[s].st = "free" /\ q.proxy[s] = NoProxy
    BY <1>2, Slots DEF Mid, Puttable
  <1>6. ~q.proxy[Main].path => \A e \in Operation : q.call[e].st = "sent" => q.call[e].cut
    BY <1>2, Slots DEF Mid, Puttable
  <1>7. \A s \in Service : q.proxy[s].status # "Invalid"
    BY <1>2 DEF Mid, Puttable
  <1>8. q.proxy[Main].used /\ (q.proxy[Main].status = "Ready" => q.proxy[Main].path /\ q.proxy[Main].conn # "none")
    BY <1>2 DEF Mid, Puttable
  <1>9. Mid(q)
    BY <1>2, <1>3, <1>4, <1>5, <1>6, <1>7, <1>8 DEF Mid, Puttable
  <1> QED
    BY <1>2, <1>9 DEF HasPut

QueuedIn(r, c) == [r EXCEPT !.call[c].st = "queued"]

LEMMA EnqueueConnects ==
  ASSUME NEW r, NEW c \in Call, NEW d \in BOOLEAN, NEW z, z = QueuedIn(r, c), Mid(z)
  PROVE  Connects(z, Enqueue(r, c, d))
  <1>1. CASE z.proxy[ProxyOf(c)].conn = "none"
    BY <1>1, ConnectConnects DEF Enqueue, QueuedIn
  <1>2. CASE z.proxy[ProxyOf(c)].conn # "none"
    BY <1>2, CarriesSelf DEF Enqueue, QueuedIn, Connects, Conn
  <1> QED
    BY <1>1, <1>2

\* A call is made; the others are carried on.
Makes(r, q, c, op) ==
    /\ Mid(q) /\ SameObject(r, q) /\ SameMain(r, q) /\ SameUsed(r, q) /\ Conn(r, q)
    /\ q.call[c].op = op /\ q.call[c].told = 0 /\ q.call[c].st \in {"queued", "sent", "failing"}
    /\ q.call[c].unnoticed <=> q.call[c].st = "failing"
    /\ q.call[c].st = "failing" => r.proxy[Main].status = "Invalid"
    /\ q.call[c].st = "sent" => ~q.call[c].old /\ (q.call[c].lost => r.proxy[ProxyOf(c)].conn = "dead")
    /\ \A e \in Call : e # c => CallKeeps(r.call[e], q.call[e])

LEMMA PutMakes ==
  ASSUME NEW r, Mid(r), NEW c \in Call, NEW op \in Ops, NEW x \in AnyCall,
         x.op = op, x.told = 0, x.st \in {"sent", "failing"},
         x.unnoticed <=> x.st = "failing",
         x.st = "failing" => r.proxy[ProxyOf(c)].status = "Invalid",
         x.st = "sent" => /\ r.proxy[ProxyOf(c)].status = "Ready" /\ ~x.old /\ x.watched
                          /\ x.lost => r.proxy[ProxyOf(c)].conn = "dead",
         c \in Service => op = "register" /\ r.proxy[c].used,
         NEW q, q = WithCall(r, c, x)
  PROVE  Makes(r, q, c, op)
  <1>1. x.st = "failing" => c \in Operation /\ r.proxy[Main].status = "Invalid"
    BY Slots DEF Mid
  <1>2. c \in Operation /\ x.st = "sent" => r.proxy[Main].path
    BY Slots DEF Mid
  <1>3. c \in Service => ~x.unnoticed /\ x.st # "failed"
    BY <1>1, Slots
  <1>4. x.st # "free" /\ (x.st = "failing" => c \in Operation /\ x.unnoticed)
    BY <1>1
  <1>5. c \in Operation /\ x.st = "sent" /\ ~r.proxy[Main].path => x.cut
    BY <1>2
  <1>6. c \in Service => x.op = "register" /\ ~x.unnoticed /\ x.st # "failed" /\ r.proxy[c].used
    BY <1>3
  <1>7. /\ Mid(q) /\ SameObject(r, q) /\ q.proxy = r.proxy /\ q.link = r.link /\ q.call[c] = x
        /\ \A e \in Call : e # c => q.call[e] = r.call[e]
    <2>1. Puttable(r, c, x)
      BY <1>4, <1>5, <1>6 DEF Puttable
    <2> QED
      BY <2>1, PutCall DEF HasPut
  <1>8. \A e \in Call : e # c => CallKeeps(r.call[e], q.call[e])
    BY <1>7, KeepsSelf DEF Mid, AnyClient
  <1>9. SameMain(r, q) /\ SameUsed(r, q) /\ Conn(r, q)
    BY <1>7 DEF SameMain, SameUsed, Conn
  <1> QED
    BY <1>1, <1>7, <1>8, <1>9 DEF Makes

LEMMA EnqueueMakes ==
  ASSUME NEW r, Mid(r), NEW c \in Call, NEW op \in Ops, NEW d \in BOOLEAN, NEW x \in AnyCall,
         x.op = op, x.told = 0, x.st = "queued", ~x.unnoticed,
         c \in Service => op = "register" /\ r.proxy[c].used,
         NEW new, NEW z, z = WithCall(r, c, x), z = QueuedIn(new, c)
  PROVE  Makes(r, Enqueue(new, c, d), c, op)
  <1> DEFINE q == Enqueue(new, c, d)
  <1>1. /\ Mid(z) /\ SameObject(r, z) /\ z.proxy = r.proxy /\ z.link = r.link /\ z.call[c] = x
        /\ \A e \in Call : e # c => z.call[e] = r.call[e]
    <2>1. Puttable(r, c, x)
      BY Slots DEF Puttable
    <2>2. HasPut(r, WithCall(r, c, x), c, x)
      BY <2>1, PutCall
    <2>3. HasPut(r, z, c, x)
      BY <2>2
    <2> QED
      BY <2>3 DEF HasPut
  <1>2. Connects(z, q)
    BY <1>1, EnqueueConnects
  <1> HIDE DEF q
  <1>3. /\ CallKeeps(x, q.call[c])
        /\ \A e \in Call : e # c => CallKeeps(r.call[e], q.call[e])
    BY <1>1, <1>2 DEF Connects, Carries, Calm
  <1>4. /\ q.call[c].op = op /\ q.call[c].told = 0 /\ q.call[c].st \in {"queued", "sent"}
        /\ q.call[c].unnoticed = x.unnoticed
        /\ q.call[c].st = "sent" => ~q.call[c].old /\ ~q.call[c].lost
    BY <1>3 DEF CallKeeps
  <1>5. Mid(q) /\ SameObject(r, q) /\ SameMain(r, q) /\ SameUsed(r, q) /\ Conn(r, q)
    BY <1>1, <1>2 DEF Connects, Carries, Calm, SameObject, SameMain, SameUsed, Conn
  <1> QED
    BY <1>3, <1>4, <1>5 DEF Makes, q

LEMMA QueueCallMakes ==
  ASSUME NEW r, Mid(r), NEW c \in Call, NEW op \in Ops, NEW d \in BOOLEAN,
         c \in Service => op = "register" /\ r.proxy[c].used
  PROVE  Makes(r, QueueCall(r, c, op, d), c, op)
  <1> DEFINE call == [FreeCall EXCEPT !.op = op, !.unnoticed = r.proxy[ProxyOf(c)].status = "Invalid"]
             new == [r EXCEPT !.call[c] = call]
             q == QueueCall(r, c, op, d)
  <1>1. /\ r \in AnyClient /\ ProxyOf(c) \in Proxy /\ r.proxy[ProxyOf(c)] \in ProxyState
        /\ \A e \in Call : r.call[e] \in AnyCall
    BY Slots DEF Mid, AnyClient
  <1>2. /\ call \in AnyCall /\ call.op = op /\ call.told = 0
        /\ call.unnoticed <=> r.proxy[ProxyOf(c)].status = "Invalid"
    BY DEF FreeCall, AnyCall
  <1>3. new.proxy = r.proxy /\ new.call[c] = call
    BY <1>1 DEF AnyClient
  <1>4. \A x : [new EXCEPT !.call[c] = x] = [r EXCEPT !.call[c] = x]
    BY <1>1 DEF AnyClient
  <1>5. NewCall(r, c, op) = new
    BY DEF NewCall
  <1> HIDE DEF call, new
  <1>6. CASE r.proxy[ProxyOf(c)].status = "Ready"
    <2>1. PICK x : x = Sent(call, r.proxy[ProxyOf(c)].conn = "dead")
      OBVIOUS
    <2>2. q = WithCall(r, c, x)
      BY <1>3, <1>4, <1>5, <1>6, <2>1 DEF QueueCall, DoCall, WithCall
    <2>3. /\ x \in AnyCall /\ x.op = op /\ x.told = 0 /\ x.st = "sent"
          /\ x.unnoticed <=> call.unnoticed
          /\ ~x.old /\ x.watched /\ (x.lost => r.proxy[ProxyOf(c)].conn = "dead")
      BY <1>2, <2>1 DEF Sent, AnyCall
    <2> QED
      BY <1>2, <1>6, <2>2, <2>3, PutMakes
  <1>7. CASE r.proxy[ProxyOf(c)].status = "Incomplete"
    <2>1. PICK x : x = [call EXCEPT !.st = "queued"]
      OBVIOUS
    <2>2. PICK z : z = WithCall(r, c, x)
      OBVIOUS
    <2>3. z = QueuedIn(new, c)
      BY <1>3, <1>4, <2>1, <2>2 DEF WithCall, QueuedIn
    <2>4. q = Enqueue(new, c, d)
      BY <1>5, <1>7 DEF QueueCall
    <2>5. x \in AnyCall /\ x.op = op /\ x.told = 0 /\ x.st = "queued" /\ ~x.unnoticed
      BY <1>2, <1>7, <2>1 DEF AnyCall
    <2> HIDE DEF q
    <2>6. Makes(r, Enqueue(new, c, d), c, op)
      BY <2>2, <2>3, <2>5, EnqueueMakes
    <2> QED
      BY <2>4, <2>6 DEF q
  <1>8. CASE r.proxy[ProxyOf(c)].status = "Invalid"
    <2>1. PICK x : x = [call EXCEPT !.st = "failing"]
      OBVIOUS
    <2>2. q = WithCall(r, c, x)
      BY <1>3, <1>4, <1>5, <1>8, <2>1 DEF QueueCall, WithCall
    <2>3. x \in AnyCall /\ x.op = op /\ x.told = 0 /\ x.st = "failing" /\ x.unnoticed
      BY <1>2, <1>8, <2>1 DEF AnyCall
    <2> QED
      BY <1>8, <2>2, <2>3, PutMakes
  <1> QED
    BY <1>1, <1>6, <1>7, <1>8 DEF ProxyState

\* A call that has been sent waits again.
Requeues(r, q, c) ==
    /\ Mid(q) /\ SameObject(r, q) /\ SameMain(r, q) /\ SameUsed(r, q) /\ Conn(r, q)
    /\ q.call[c].op = r.call[c].op /\ q.call[c].told = r.call[c].told
    /\ q.call[c].unnoticed = r.call[c].unnoticed /\ q.call[c].st \in {"queued", "sent"}
    /\ q.call[c].st = "sent" => ~q.call[c].old /\ ~q.call[c].lost
    /\ \A e \in Call : e # c => CallKeeps(r.call[e], q.call[e])

LEMMA EnqueueRequeues ==
  ASSUME NEW r, Mid(r), NEW c \in Call, r.call[c].st = "sent", NEW d \in BOOLEAN
  PROVE  Requeues(r, Enqueue(r, c, d), c)
  <1> DEFINE q == Enqueue(r, c, d)
  <1>1. r.call[c] \in AnyCall
    BY DEF Mid, AnyClient
  <1>2. PICK x : x = [r.call[c] EXCEPT !.st = "queued"]
    OBVIOUS
  <1>3. /\ x \in AnyCall /\ x.op = r.call[c].op /\ x.told = r.call[c].told /\ x.st = "queued"
        /\ x.unnoticed = r.call[c].unnoticed
    BY <1>1, <1>2 DEF AnyCall
  <1>4. PICK z : z = WithCall(r, c, x)
    OBVIOUS
  <1>5. z = QueuedIn(r, c)
    BY <1>2, <1>4 DEF WithCall, QueuedIn
  <1>6. c \in Service => x.op = "register" /\ ~x.unnoticed /\ r.proxy[c].used
    BY <1>3 DEF Mid
  <1>7. Puttable(r, c, x)
    BY <1>3, <1>6 DEF Puttable
  <1>8. HasPut(r, z, c, x)
    <2>1. HasPut(r, WithCall(r, c, x), c, x)
      BY <1>7, PutCall
    <2> QED
      BY <1>4, <2>1
  <1>9. Connects(z, q)
    <2>1. Mid(z)
      BY <1>8 DEF HasPut
    <2> QED
      BY <1>5, <2>1, EnqueueConnects
  <1> HIDE DEF q
  <1>10. /\ CallKeeps(x, q.call[c])
         /\ \A e \in Call : e # c => CallKeeps(r.call[e], q.call[e])
    BY <1>8, <1>9 DEF Connects, Carries, Calm, HasPut
  <1>11. /\ q.call[c].op = x.op /\ q.call[c].told = x.told /\ q.call[c].st \in {"queued", "sent"}
         /\ q.call[c].unnoticed = x.unnoticed
         /\ q.call[c].st = "sent" => ~q.call[c].old /\ ~q.call[c].lost
    BY <1>3, <1>10 DEF CallKeeps
  <1>12. Mid(q) /\ SameObject(r, q) /\ SameMain(r, q) /\ SameUsed(r, q) /\ Conn(r, q)
    BY <1>8, <1>9 DEF HasPut, Connects, Carries, Calm, SameObject, SameMain, SameUsed, Conn
  <1> QED
    BY <1>3, <1>10, <1>11, <1>12 DEF Requeues, q

-----------------------------------------------------------------------------
\* Registrations.

LEMMA NewServiceMid ==
  ASSUME NEW r, Mid(r), NEW s \in Service, ~r.proxy[s].used
  PROVE  LET q == NewService(r, s) IN
         /\ Mid(q) /\ SameObject(r, q) /\ SameMain(r, q) /\ Conn(r, q) /\ q.proxy[s].used
         /\ \A c \in Call : CallKeeps(r.call[c], q.call[c])
  <1>1. PICK new : new = [NoProxy EXCEPT !.used = TRUE, !.path = TRUE,
                               !.conn = IF r.link = "up" THEN "live" ELSE "none"]
    OBVIOUS
  <1>2. new \in ProxyState /\ new.used /\ new.conn \in {"live", "none"}
    BY <1>1 DEF NoProxy, ProxyState
  <1>3. PICK z : z = [r EXCEPT !.proxy[s] = new]
    OBVIOUS
  <1>4. r \in AnyClient /\ s \in Proxy /\ s # Main
    BY Slots DEF Mid
  <1>5. /\ z \in AnyClient /\ SameObject(r, z) /\ z.call = r.call /\ z.link = r.link
        /\ z.proxy[s] = new /\ \A p \in Proxy : p # s => z.proxy[p] = r.proxy[p]
    BY <1>2, <1>3, <1>4 DEF AnyClient, SameObject
  <1>6. NewService(r, s) = Update(z, {s})
    BY <1>1, <1>3 DEF NewService
  <1>7. PICK q : q = Update(z, {s})
    OBVIOUS
  <1>8. /\ q \in AnyClient /\ SameObject(z, q) /\ q.link = z.link
        /\ q.proxy[s] = [new EXCEPT !.status = StatusOf(new)]
        /\ \A p \in Proxy : p # s => q.proxy[p] = z.proxy[p]
        /\ \A c \in Call : ProxyOf(c) # s => q.call[c] = z.call[c]
        /\ q.call[s] = UpdatedCall(z.call[s], StatusOf(new))
    <2>1. Updates(z, q, {s})
      BY <1>5, <1>7, UpdateIs
    <2>2. s \in Call /\ ProxyOf(s) = s /\ s \in Proxy
      BY Slots
    <2>3. q \in AnyClient /\ SameObject(z, q) /\ q.link = z.link
      BY <2>1 DEF Updates
    <2>4. q.proxy[s] = [new EXCEPT !.status = StatusOf(new)]
      BY <1>5, <2>1, <2>2 DEF Updates
    <2>5. \A p \in Proxy : p # s => q.proxy[p] = z.proxy[p]
      BY <2>1 DEF Updates
    <2>6. \A c \in Call : ProxyOf(c) # s => q.call[c] = z.call[c]
      BY <2>1 DEF Updates
    <2>7. q.call[s] = UpdatedCall(z.call[s], StatusOf(new))
      BY <1>5, <2>1, <2>2 DEF Updates
    <2> QED
      BY <2>3, <2>4, <2>5, <2>6, <2>7
  <1>9. StatusOf(new) \in {"Ready", "Incomplete"}
    BY <1>2, StatusOfType DEF Statuses
  <1>10. q.proxy[s].used /\ q.proxy[s].status # "Invalid"
    BY <1>2, <1>8, <1>9 DEF ProxyState
  <1>11. r.call[s] = FreeCall
    BY Slots DEF Mid
  <1>12. q.call[s] = FreeCall
    <2>1. q.call[s] = UpdatedCall(FreeCall, StatusOf(new))
      BY <1>5, <1>8, <1>11
    <2> QED
      BY <1>9, <2>1, FreeCallType, UpdatedCallKeeps, KeepsFree DEF Statuses
  <1>13. \A c \in Call : q.call[c] = r.call[c]
    BY <1>5, <1>8, <1>11, <1>12, Slots
  <1>14. q.proxy[Main] = r.proxy[Main]
    BY <1>4, <1>5, <1>8, Slots
  <1>15. \A t \in Service : /\ ~q.proxy[t].used => q.call[t].st = "free" /\ q.proxy[t] = NoProxy
                            /\ q.proxy[t].status # "Invalid"
    <2> SUFFICES ASSUME NEW t \in Service
                 PROVE  /\ ~q.proxy[t].used => q.call[t].st = "free" /\ q.proxy[t] = NoProxy
                        /\ q.proxy[t].status # "Invalid"
      OBVIOUS
    <2>1. CASE t = s
      BY <1>10, <2>1
    <2>2. CASE t # s
      <3>1. q.proxy[t] = r.proxy[t] /\ q.call[t] = r.call[t]
        BY <1>5, <1>8, <1>13, <2>2, Slots
      <3> QED
        BY <3>1 DEF Mid
    <2> QED
      BY <2>1, <2>2
  <1>16. Mid(q)
    BY <1>8, <1>13, <1>14, <1>15, Slots DEF Mid
  <1>17. \A c \in Call : CallKeeps(r.call[c], q.call[c])
    BY <1>13, KeepsSelf DEF Mid, AnyClient
  <1>18. SameObject(r, q) /\ SameMain(r, q) /\ Conn(r, q)
    BY <1>5, <1>8, <1>14 DEF SameObject, SameMain, Conn
  <1> QED
    BY <1>6, <1>7, <1>10, <1>16, <1>17, <1>18

ServicesGo(r, q) ==
    \A s \in Service :
        \/ CallKeeps(r.call[s], q.call[s])
        \/ r.call[s].st = "free" /\ q.call[s].told = 0 /\ q.call[s].st \in {"queued", "sent"}

Registers(r, q) ==
    /\ Mid(q) /\ SameObject(r, q) /\ SameMain(r, q) /\ Conn(r, q)
    /\ \A c \in Operation : CallKeeps(r.call[c], q.call[c])
    /\ ServicesGo(r, q)

LEMMA CallRegisterRegisters ==
  ASSUME NEW r, Mid(r), NEW d \in BOOLEAN, \E s \in Service : ~r.proxy[s].used
  PROVE  Registers(r, CallRegister(r, d))
  <1>1. PICK s : s = Min({t \in Service : ~r.proxy[t].used})
    OBVIOUS
  <1>2. s \in Service /\ ~r.proxy[s].used
    <2>1. {t \in Service : ~r.proxy[t].used} \subseteq Nat
      BY CallsAssumption
    <2>2. Min({t \in Service : ~r.proxy[t].used}) \in {t \in Service : ~r.proxy[t].used}
      BY <2>1, MinIn
    <2> QED
      BY <1>1, <2>2
  <1>3. PICK z : z = NewService(r, s)
    OBVIOUS
  <1>4. /\ Mid(z) /\ SameObject(r, z) /\ SameMain(r, z) /\ Conn(r, z) /\ z.proxy[s].used
        /\ \A c \in Call : CallKeeps(r.call[c], z.call[c])
    BY <1>2, <1>3, NewServiceMid
  <1>5. PICK q : q = QueueCall(z, s, "register", d)
    OBVIOUS
  <1>6. CallRegister(r, d) = q
    BY <1>1, <1>3, <1>5 DEF CallRegister
  <1>7. Makes(z, q, s, "register")
    BY <1>2, <1>4, <1>5, Slots, QueueCallMakes DEF Ops
  <1>8. /\ Mid(q) /\ SameObject(z, q) /\ SameMain(z, q) /\ Conn(z, q)
        /\ q.call[s].told = 0 /\ q.call[s].st \in {"queued", "sent"}
        /\ \A e \in Call : e # s => CallKeeps(z.call[e], q.call[e])
    BY <1>2, <1>7, Slots DEF Makes, Mid
  <1>9. \A c \in Call : r.call[c] \in AnyCall /\ z.call[c] \in AnyCall /\ q.call[c] \in AnyCall
    BY <1>4, <1>8 DEF Mid, AnyClient
  <1>10. \A e \in Call : e # s => CallKeeps(r.call[e], q.call[e])
    BY <1>4, <1>8, <1>9, KeepsTransitive
  <1>11. r.call[s].st = "free"
    BY <1>2 DEF Mid
  <1>12. ServicesGo(r, q) /\ \A c \in Operation : CallKeeps(r.call[c], q.call[c])
    BY <1>2, <1>8, <1>10, <1>11, Slots DEF ServicesGo
  <1>13. SameObject(r, q) /\ SameMain(r, q) /\ Conn(r, q)
    BY <1>4, <1>8 DEF SameObject, SameMain, Conn
  <1> QED
    BY <1>6, <1>8, <1>12, <1>13 DEF Registers

-----------------------------------------------------------------------------
\* The path of the remote object, and calls that fail with it.

\* A call that waits has failed.
FailsAs(a, b) == a.st = "queued" /\ b.st = "failed" /\ b.told = a.told /\ b.op = a.op

\* The proxy of the object has changed; the calls that wait for it may have failed.
MainSet(r, q) ==
    /\ Mid(q) /\ SameObject(r, q) /\ q.link = r.link /\ SameUsed(r, q)
    /\ q.proxy[Main].conn = r.proxy[Main].conn
    /\ \A s \in Service : CallKeeps(r.call[s], q.call[s])
    /\ \A c \in Operation : CallKeeps(r.call[c], q.call[c]) \/ FailsAs(r.call[c], q.call[c])

\* What makes a client of which only this proxy and the calls on it differ.
LEMMA MainSetMid ==
  ASSUME NEW r, Mid(r), NEW q \in AnyClient, SameObject(r, q), q.link = r.link,
         \A s \in Service : q.proxy[s] = r.proxy[s] /\ q.call[s] = r.call[s],
         q.proxy[Main].used, q.proxy[Main].conn = r.proxy[Main].conn,
         q.proxy[Main].status = "Ready" => q.proxy[Main].path /\ q.proxy[Main].conn # "none",
         \A c \in Operation : CallKeeps(r.call[c], q.call[c]) \/ FailsAs(r.call[c], q.call[c]),
         ~q.proxy[Main].path => \A c \in Operation : q.call[c].st = "sent" => q.call[c].cut
  PROVE  MainSet(r, q)
  <1>1. \A c \in Call : r.call[c] \in AnyCall /\ q.call[c] \in AnyCall
    BY DEF Mid, AnyClient
  <1>2. \A s \in Service : CallKeeps(r.call[s], q.call[s])
    BY <1>1, Slots, KeepsSelf
  <1>3. \A c \in Operation : /\ q.call[c].st = "free" => q.call[c] = FreeCall
                             /\ q.call[c].st = "failing" => c \in Operation /\ q.call[c].unnoticed
                             /\ q.call[c].st = "sent" => q.call[c].watched
    BY SMTT(20), <1>1, Slots DEF Mid, CallKeeps, FailsAs, AnyCall
  <1>4. \A c \in Call : /\ q.call[c].st = "free" => q.call[c] = FreeCall
                        /\ q.call[c].st = "failing" => c \in Operation /\ q.call[c].unnoticed
                        /\ q.call[c].st = "sent" => q.call[c].watched
    BY <1>3, Slots DEF Mid
  <1>5. \A s \in Service : /\ q.call[s].op = "register" /\ ~q.call[s].unnoticed
                           /\ q.call[s].st # "failed"
                           /\ ~q.proxy[s].used => q.call[s].st = "free" /\ q.proxy[s] = NoProxy
                           /\ q.proxy[s].status # "Invalid"
    BY DEF Mid
  <1>6. Mid(q)
    BY <1>4, <1>5 DEF Mid
  <1>7. SameUsed(r, q)
    <2>1. q.proxy[Main] \in ProxyState /\ r.proxy[Main] \in ProxyState /\ r.proxy[Main].used
      BY Slots DEF Mid, AnyClient
    <2>2. q.proxy[Main].used = r.proxy[Main].used
      BY <2>1 DEF ProxyState
    <2> QED
      BY <2>2, Slots DEF SameUsed
  <1> QED
    BY <1>2, <1>6, <1>7 DEF MainSet

LEMMA SetObjectPathSets ==
  ASSUME NEW r, Mid(r), NEW path \in BOOLEAN
  PROVE  LET q == SetObjectPath(r, Main, path) IN
         /\ MainSet(r, q)
         /\ q.proxy[Main].path <=> path
         /\ q.proxy[Main].status = "Invalid" => path /\ r.proxy[Main].conn = "dead"
         /\ path /\ r.proxy[Main].conn = "live" => q.proxy[Main].status = "Ready"
         /\ ~path => \A c \in Operation : CallKeeps(r.call[c], q.call[c]) /\ q.call[c].st = r.call[c].st
         /\ \A c \in Operation : FailsAs(r.call[c], q.call[c]) => q.call[c].unnoticed
  <1> DEFINE x == [r.proxy[Main] EXCEPT !.path = path]
             z == [r EXCEPT !.proxy[Main].path = path]
  <1>1. r \in AnyClient /\ r.proxy[Main] \in ProxyState /\ r.proxy[Main].used
    BY Slots DEF Mid, AnyClient
  <1>2. x \in ProxyState /\ x.used /\ x.path = path /\ x.conn = r.proxy[Main].conn
    BY <1>1 DEF ProxyState
  <1>3. z = [r EXCEPT !.proxy[Main] = x]
    BY <1>1, Slots DEF AnyClient
  <1> HIDE DEF x, z
  <1>4. /\ z \in AnyClient /\ SameObject(r, z) /\ z.call = r.call /\ z.link = r.link
        /\ z.proxy[Main] = x /\ \A s \in Service : z.proxy[s] = r.proxy[s]
    BY ZenonT(30), <1>1, <1>2, <1>3, Slots DEF AnyClient, SameObject
  <1>5. PICK q : q = Update(z, {Main})
    OBVIOUS
  <1>6. SetObjectPath(r, Main, path) = q
    BY <1>5 DEF SetObjectPath, z
  <1>7. Updates(z, q, {Main})
    BY <1>4, <1>5, UpdateIs
  <1>8. q \in AnyClient /\ SameObject(r, q) /\ q.link = r.link
    BY <1>4, <1>7 DEF Updates, SameObject
  <1>9. q.proxy[Main] = [x EXCEPT !.status = StatusOf(x)]
    BY <1>4, <1>7, Slots DEF Updates
  <1>10. \A s \in Service : q.proxy[s] = r.proxy[s] /\ q.call[s] = r.call[s]
    BY ZenonT(30), <1>4, <1>7, Slots DEF Updates
  <1>11. \A c \in Operation : q.call[c] = UpdatedCall(r.call[c], StatusOf(x))
    BY <1>4, <1>7, Slots DEF Updates
  <1>12. /\ q.proxy[Main].used /\ q.proxy[Main].path = path
         /\ q.proxy[Main].conn = r.proxy[Main].conn /\ q.proxy[Main].status = StatusOf(x)
    BY <1>2, <1>9 DEF ProxyState
  <1>13. /\ StatusOf(x) \in Statuses
         /\ StatusOf(x) = "Ready" => path /\ r.proxy[Main].conn = "live"
         /\ StatusOf(x) = "Invalid" => path /\ r.proxy[Main].conn = "dead"
         /\ r.proxy[Main].conn = "live" /\ path => StatusOf(x) = "Ready"
    BY <1>2, StatusOfType
  <1>14. \A c \in Operation : r.call[c] \in AnyCall /\ q.call[c] \in AnyCall
    BY <1>1, <1>8, Slots DEF AnyClient
  <1>15. \A c \in Operation : /\ StatusOf(x) # "Invalid" => CallKeeps(r.call[c], q.call[c])
                              /\ StatusOf(x) = "Invalid" => CallFails(r.call[c], q.call[c])
                              /\ r.call[c].st = "queued" /\ StatusOf(x) = "Invalid" => q.call[c].unnoticed
                              /\ r.call[c].st = "sent" => q.call[c].cut
                              /\ StatusOf(x) = "Incomplete" => q.call[c].st = r.call[c].st
    BY <1>11, <1>13, <1>14, UpdatedCallKeeps
  <1>16. \A c \in Operation :
            /\ CallKeeps(r.call[c], q.call[c]) \/ FailsAs(r.call[c], q.call[c])
            /\ FailsAs(r.call[c], q.call[c]) => q.call[c].unnoticed
    BY <1>15 DEF CallKeeps, CallFails, FailsAs
  <1>17. ~path => \A c \in Operation : CallKeeps(r.call[c], q.call[c]) /\ q.call[c].st = r.call[c].st
    BY <1>13, <1>15 DEF Statuses
  <1>18. ~q.proxy[Main].path => \A c \in Operation : q.call[c].st = "sent" => q.call[c].cut
    BY <1>12, <1>15, <1>17
  <1>19. MainSet(r, q)
    BY <1>8, <1>10, <1>12, <1>13, <1>16, <1>18, MainSetMid
  <1> QED
    BY <1>6, <1>12, <1>13, <1>16, <1>17, <1>19

LEMMA SetErrorSets ==
  ASSUME NEW r, Mid(r)
  PROVE  LET q == SetError(r, Main) IN
         /\ MainSet(r, q) /\ SameMain(r, q)
         /\ \A c \in Operation : q.call[c].st # "queued"
  <1> DEFINE x == [r.proxy[Main] EXCEPT !.status = "Invalid"]
             cl == [c \in Call |-> IF ProxyOf(c) = Main THEN AtStatus(r.call[c], "Invalid") ELSE r.call[c]]
             q == [r EXCEPT !.proxy[Main] = x, !.call = cl]
  <1>1. r \in AnyClient /\ r.proxy[Main] \in ProxyState /\ r.proxy[Main].used
    BY Slots DEF Mid, AnyClient
  <1>2. x \in ProxyState /\ x.used /\ x.path = r.proxy[Main].path /\ x.conn = r.proxy[Main].conn
        /\ x.status = "Invalid"
    BY <1>1 DEF ProxyState
  <1>3. SetError(r, Main) = q
    BY <1>1, Slots DEF AnyClient, SetError
  <1>4. \A c \in Call : r.call[c] \in AnyCall
    BY <1>1 DEF AnyClient
  <1>5. \A c \in Call : /\ AtStatus(r.call[c], "Invalid") \in AnyCall
                        /\ AtStatus(r.call[c], "Invalid").st # "queued"
                        /\ \/ CallKeeps(r.call[c], AtStatus(r.call[c], "Invalid"))
                           \/ FailsAs(r.call[c], AtStatus(r.call[c], "Invalid"))
                        /\ AtStatus(r.call[c], "Invalid").st = "sent" => AtStatus(r.call[c], "Invalid") = r.call[c]
    BY <1>4 DEF AtStatus, AnyCall, CallKeeps, FailsAs
  <1>6. cl \in [Call -> AnyCall]
    BY <1>4, <1>5
  <1>7. /\ \A c \in Operation : cl[c] = AtStatus(r.call[c], "Invalid")
        /\ \A s \in Service : cl[s] = r.call[s]
    BY Slots
  <1> HIDE DEF x, cl
  <1>8. /\ q \in AnyClient /\ SameObject(r, q) /\ q.link = r.link /\ q.call = cl
        /\ q.proxy[Main] = x /\ \A s \in Service : q.proxy[s] = r.proxy[s]
    BY ZenonT(30), <1>1, <1>2, <1>6, Slots DEF AnyClient, SameObject
  <1> HIDE DEF q
  <1>9. \A c \in Operation : CallKeeps(r.call[c], q.call[c]) \/ FailsAs(r.call[c], q.call[c])
    BY <1>5, <1>7, <1>8, Slots
  <1>10. ~q.proxy[Main].path => \A c \in Operation : q.call[c].st = "sent" => q.call[c].cut
    BY <1>2, <1>5, <1>7, <1>8, Slots DEF Mid
  <1>11. MainSet(r, q)
    BY <1>2, <1>7, <1>8, <1>9, <1>10, MainSetMid
  <1> QED
    BY <1>2, <1>3, <1>5, <1>7, <1>8, <1>11, Slots DEF SameMain

-----------------------------------------------------------------------------
\* Calls that are told, and that end.

LEMMA TellTells ==
  ASSUME NEW r, Mid(r), NEW cs, \A c \in cs : c \in Call /\ r.call[c].st # "free"
  PROVE  LET q == Tell(r, cs) IN
         /\ Mid(q) /\ SameObject(r, q) /\ q.proxy = r.proxy /\ q.link = r.link
         /\ \A c \in cs : q.call[c] = [r.call[c] EXCEPT !.told = @ + 1]
         /\ \A c \in Call : c \notin cs => q.call[c] = r.call[c]
  <1> DEFINE cl == [c \in Call |-> IF c \in cs THEN [r.call[c] EXCEPT !.told = @ + 1] ELSE r.call[c]]
             q == [r EXCEPT !.call = cl]
  <1>1. r \in AnyClient /\ \A c \in Call : r.call[c] \in AnyCall
    BY DEF Mid, AnyClient
  <1>2. Tell(r, cs) = q
    BY <1>1 DEF Tell, AnyClient
  <1>3. \A c \in Call : /\ [r.call[c] EXCEPT !.told = @ + 1] \in AnyCall
                        /\ [r.call[c] EXCEPT !.told = @ + 1].st = r.call[c].st
                        /\ [r.call[c] EXCEPT !.told = @ + 1].op = r.call[c].op
                        /\ [r.call[c] EXCEPT !.told = @ + 1].cut = r.call[c].cut
                        /\ [r.call[c] EXCEPT !.told = @ + 1].watched = r.call[c].watched
                        /\ [r.call[c] EXCEPT !.told = @ + 1].unnoticed = r.call[c].unnoticed
    BY <1>1 DEF AnyCall
  <1>4. cl \in [Call -> AnyCall]
    BY <1>1, <1>3
  <1>5. /\ \A c \in cs : cl[c] = [r.call[c] EXCEPT !.told = @ + 1]
        /\ \A c \in Call : c \notin cs => cl[c] = r.call[c]
    OBVIOUS
  <1> HIDE DEF cl
  <1>6. /\ q \in AnyClient /\ SameObject(r, q) /\ q.proxy = r.proxy /\ q.link = r.link
        /\ q.call = cl
    BY <1>1, <1>4 DEF AnyClient, SameObject
  <1> HIDE DEF q
  <1>7. \A c \in Call : /\ q.call[c].st = r.call[c].st /\ q.call[c].op = r.call[c].op
                        /\ q.call[c].cut = r.call[c].cut /\ q.call[c].watched = r.call[c].watched
                        /\ q.call[c].unnoticed = r.call[c].unnoticed
                        /\ r.call[c].st = "free" => q.call[c] = r.call[c]
    BY ZenonT(30), <1>3, <1>5, <1>6
  <1>8. Mid(q)
    BY <1>6, <1>7, Slots DEF Mid
  <1> QED
    BY <1>2, <1>5, <1>6, <1>8

\* The object is the same, but for what has ended.
SameButEnded(r, q) ==
    /\ q.state = r.state /\ q.info = r.info /\ q.known = r.known
    /\ q.registering = r.registering /\ q.process = r.process /\ q.methods = r.methods

LEMMA EndCallsEnds ==
  ASSUME NEW r, Mid(r), NEW cs, cs \subseteq Call
  PROVE  LET q == EndCalls(r, cs) IN
         /\ Mid(q) /\ SameButEnded(r, q) /\ q.link = r.link /\ q.proxy[Main] = r.proxy[Main]
         /\ q.ended = r.ended \cup {[told |-> r.call[c].told, unnoticed |-> r.call[c].unnoticed]
                                    : c \in cs \cap Operation}
         /\ \A c \in cs : q.call[c] = FreeCall
         /\ \A c \in Call : c \notin cs => q.call[c] = r.call[c]
         /\ \A p \in Proxy : p \notin cs => q.proxy[p] = r.proxy[p]
  <1> DEFINE cl == [c \in Call |-> IF c \in cs THEN FreeCall ELSE r.call[c]]
             px == [p \in Proxy |-> IF p \in cs THEN NoProxy ELSE r.proxy[p]]
             en == r.ended \cup {[told |-> r.call[c].told, unnoticed |-> r.call[c].unnoticed]
                                 : c \in cs \cap Operation}
             q == [r EXCEPT !.call = cl, !.proxy = px, !.ended = en]
  <1>1. /\ r \in AnyClient /\ \A c \in Call : r.call[c] \in AnyCall
        /\ \A p \in Proxy : r.proxy[p] \in ProxyState
    BY DEF Mid, AnyClient
  <1>2. EndCalls(r, cs) = q
    BY <1>1 DEF EndCalls, AnyClient
  <1>3. cl \in [Call -> AnyCall]
    BY <1>1, FreeCallType
  <1>4. px \in [Proxy -> ProxyState]
    BY <1>1 DEF NoProxy, ProxyState
  <1>5. en \subseteq [told : Nat, unnoticed : BOOLEAN]
    <2>1. \A c \in Operation : r.call[c].told \in Nat /\ r.call[c].unnoticed \in BOOLEAN
      BY <1>1, Slots DEF AnyCall
    <2>2. r.ended \subseteq [told : Nat, unnoticed : BOOLEAN]
      BY <1>1 DEF AnyClient
    <2> QED
      BY <2>1, <2>2
  <1>6. /\ \A c \in cs : cl[c] = FreeCall
        /\ \A c \in Call : c \notin cs => cl[c] = r.call[c]
        /\ px[Main] = r.proxy[Main]
        /\ \A s \in Service : px[s] = IF s \in cs THEN NoProxy ELSE r.proxy[s]
        /\ \A p \in Proxy : p \notin cs => px[p] = r.proxy[p]
    BY Slots
  <1> HIDE DEF cl, px, en
  <1>7. /\ q \in AnyClient /\ SameButEnded(r, q) /\ q.link = r.link
        /\ q.proxy = px /\ q.call = cl /\ q.ended = en
    BY <1>1, <1>3, <1>4, <1>5 DEF AnyClient, SameButEnded
  <1> HIDE DEF q
  <1>8. \A c \in Call : /\ q.call[c].st = "free" => q.call[c] = FreeCall
                        /\ q.call[c].st = "failing" => c \in Operation /\ q.call[c].unnoticed
                        /\ q.call[c].st = "sent" => q.call[c].watched
    BY <1>6, <1>7, FreeCallType DEF Mid
  <1>9. \A s \in Service : /\ q.call[s].op = "register" /\ ~q.call[s].unnoticed
                           /\ q.call[s].st # "failed"
                           /\ ~q.proxy[s].used => q.call[s].st = "free" /\ q.proxy[s] = NoProxy
                           /\ q.proxy[s].status # "Invalid"
    <2>1. NoProxy.status # "Invalid"
      BY DEF NoProxy
    <2> SUFFICES ASSUME NEW s \in Service
                 PROVE  /\ q.call[s].op = "register" /\ ~q.call[s].unnoticed
                        /\ q.call[s].st # "failed"
                        /\ ~q.proxy[s].used => q.call[s].st = "free" /\ q.proxy[s] = NoProxy
                        /\ q.proxy[s].status # "Invalid"
      OBVIOUS
    <2>2. CASE s \in cs
      BY <1>6, <1>7, <2>1, <2>2, FreeCallType
    <2>3. CASE s \notin cs
      <3>1. q.call[s] = r.call[s] /\ q.proxy[s] = r.proxy[s]
        BY <1>6, <1>7, <2>3, Slots
      <3> QED
        BY <3>1 DEF Mid
    <2> QED
      BY <2>2, <2>3
  <1>10. q.proxy[Main] = r.proxy[Main]
    BY <1>6, <1>7
  <1>11. ~q.proxy[Main].path => \A c \in Operation : q.call[c].st = "sent" => q.call[c].cut
    BY <1>6, <1>7, <1>10, FreeCallType, Slots DEF Mid
  <1>12. Mid(q)
    BY <1>7, <1>8, <1>9, <1>10, <1>11 DEF Mid
  <1> QED
    BY <1>2, <1>6, <1>7, <1>10, <1>12 DEF en

-----------------------------------------------------------------------------
\* Calls that fail end, and their failure is told.

\* A call that waits may have failed, and ended.
Moves(a, b) == CallKeeps(a, b) \/ (a.st = "queued" /\ b = FreeCall)

EndedWell(x) == x.told <= 2 /\ (x.unnoticed \/ x.told = 1)

Quiet(r) == \A c \in Call : /\ r.call[c].st # "failed"
                            /\ r.call[c].st = "queued" => r.call[c].told = 0

Settles(r, q) ==
    /\ Mid(q) /\ Quiet(q) /\ q.link = r.link /\ q.methods = r.methods
    /\ q.proxy[Main].conn = r.proxy[Main].conn
    /\ \A s \in Service : CallKeeps(r.call[s], q.call[s])
    /\ \A c \in Operation : Moves(r.call[c], q.call[c])
    /\ \A x \in q.ended : x \in r.ended \/ EndedWell(x)

\* From the calls that a change of the object's proxy has failed to their end.
LEMMA FailedSettle ==
  ASSUME NEW r, Mid(r), Quiet(r), NEW z, MainSet(r, z), NEW q, Mid(q),
         q.link = z.link, q.methods = z.methods, q.proxy[Main].conn = z.proxy[Main].conn,
         \A c \in Call : q.call[c] = IF z.call[c].st = "failed" THEN FreeCall ELSE z.call[c],
         \A x \in q.ended : x \in z.ended \/ EndedWell(x)
  PROVE  Settles(r, q)
  <1>1. \A c \in Call : r.call[c] \in AnyCall /\ z.call[c] \in AnyCall
    BY DEF MainSet, Mid, AnyClient
  <1>2. \A c \in Operation : Moves(r.call[c], q.call[c])
    <2> SUFFICES ASSUME NEW c \in Operation PROVE Moves(r.call[c], q.call[c])
      OBVIOUS
    <2>1. r.call[c].st # "failed" /\ q.call[c] = IF z.call[c].st = "failed" THEN FreeCall ELSE z.call[c]
      BY Slots DEF Quiet
    <2>2. CASE FailsAs(r.call[c], z.call[c])
      BY <2>1, <2>2 DEF FailsAs, Moves
    <2>3. CASE CallKeeps(r.call[c], z.call[c])
      BY <1>1, <2>1, <2>3, Slots DEF CallKeeps, Moves
    <2> QED
      BY <2>2, <2>3 DEF MainSet
  <1>3. \A s \in Service : CallKeeps(r.call[s], q.call[s])
    BY Slots DEF MainSet, Mid
  <1>4. Quiet(q)
    <2> SUFFICES ASSUME NEW c \in Call
                 PROVE  q.call[c].st # "failed" /\ (q.call[c].st = "queued" => q.call[c].told = 0)
      BY DEF Quiet
    <2>1. CallKeeps(r.call[c], q.call[c]) \/ q.call[c] = FreeCall
      BY <1>2, <1>3, Slots DEF Moves
    <2> QED
      BY <2>1, FreeCallType DEF CallKeeps, Quiet
  <1>5. \A x \in q.ended : x \in r.ended \/ EndedWell(x)
    BY DEF MainSet, SameObject
  <1>6. q.link = r.link /\ q.methods = r.methods /\ q.proxy[Main].conn = r.proxy[Main].conn
    BY DEF MainSet, SameObject
  <1> QED
    BY <1>2, <1>3, <1>4, <1>5, <1>6 DEF Settles

\* Failed calls are told once, and end.
LEMMA FailedEnd ==
  ASSUME NEW r, Mid(r), \A c \in Call : r.call[c].st = "failed" => r.call[c].told \in {0, 1}
                                           /\ (r.call[c].unnoticed \/ r.call[c].told = 0)
  PROVE  LET q == EndCalls(Tell(r, Failed(r)), Failed(r)) IN
         /\ Mid(q) /\ SameButEnded(r, q) /\ q.link = r.link /\ q.proxy[Main] = r.proxy[Main]
         /\ \A c \in Call : q.call[c] = IF r.call[c].st = "failed" THEN FreeCall ELSE r.call[c]
         /\ \A x \in q.ended : x \in r.ended \/ EndedWell(x)
  <1> DEFINE z == Tell(r, Failed(r))
             q == EndCalls(z, Failed(r))
  <1>1. \A c \in Failed(r) : c \in Call /\ r.call[c].st = "failed"
    BY DEF Failed
  <1>2. /\ Mid(z) /\ SameObject(r, z) /\ z.proxy = r.proxy /\ z.link = r.link
        /\ \A c \in Failed(r) : z.call[c] = [r.call[c] EXCEPT !.told = @ + 1]
        /\ \A c \in Call : c \notin Failed(r) => z.call[c] = r.call[c]
    BY <1>1, TellTells
  <1>3. Failed(r) \subseteq Call
    BY <1>1
  <1> HIDE DEF z
  <1>4. /\ Mid(q) /\ SameButEnded(z, q) /\ q.link = z.link /\ q.proxy[Main] = z.proxy[Main]
        /\ q.ended = z.ended \cup {[told |-> z.call[c].told, unnoticed |-> z.call[c].unnoticed]
                                   : c \in Failed(r) \cap Operation}
        /\ \A c \in Failed(r) : q.call[c] = FreeCall
        /\ \A c \in Call : c \notin Failed(r) => q.call[c] = z.call[c]
    BY <1>2, <1>3, EndCallsEnds
  <1>5. \A c \in Failed(r) : /\ z.call[c].told \in {1, 2} /\ z.call[c].unnoticed = r.call[c].unnoticed
                             /\ z.call[c].unnoticed \/ z.call[c].told = 1
    <2> SUFFICES ASSUME NEW c \in Failed(r)
                 PROVE  /\ z.call[c].told \in {1, 2} /\ z.call[c].unnoticed = r.call[c].unnoticed
                        /\ z.call[c].unnoticed \/ z.call[c].told = 1
      OBVIOUS
    <2>1. r.call[c] \in AnyCall /\ z.call[c] = [r.call[c] EXCEPT !.told = @ + 1]
      BY <1>1, <1>2 DEF Mid, AnyClient
    <2>2. r.call[c].told \in {0, 1} /\ (r.call[c].unnoticed \/ r.call[c].told = 0)
      BY <1>1
    <2>3. z.call[c].told = r.call[c].told + 1 /\ z.call[c].unnoticed = r.call[c].unnoticed
      BY <2>1 DEF AnyCall
    <2> QED
      BY <2>2, <2>3
  <1>6. \A x \in q.ended : x \in z.ended \/ EndedWell(x)
    <2> SUFFICES ASSUME NEW x \in q.ended, x \notin z.ended
                 PROVE  EndedWell(x)
      OBVIOUS
    <2>1. PICK c \in Failed(r) : x = [told |-> z.call[c].told, unnoticed |-> z.call[c].unnoticed]
      BY <1>4
    <2> QED
      BY <1>5, <2>1 DEF EndedWell
  <1>7. \A c \in Call : q.call[c] = IF r.call[c].st = "failed" THEN FreeCall ELSE r.call[c]
    BY <1>2, <1>4 DEF Failed
  <1> HIDE DEF q
  <1>8. SameButEnded(r, q) /\ z.ended = r.ended
    BY <1>2, <1>4 DEF SameButEnded, SameObject
  <1> QED
    BY <1>2, <1>4, <1>6, <1>7, <1>8 DEF q, z

-----------------------------------------------------------------------------
\* The identity.

\* All but its state and its information.
SameIdentity(r, q) ==
    q.known = r.known /\ q.registering = r.registering /\ q.process = r.process

LEMMA StateSet ==
  ASSUME NEW r, Mid(r), NEW state \in IdentityStates, NEW q, q = [r EXCEPT !.state = state]
  PROVE  /\ Mid(q) /\ q.state = state /\ q.call = r.call /\ q.proxy = r.proxy /\ q.link = r.link
         /\ q.ended = r.ended /\ q.info = r.info /\ q.known = r.known /\ q.methods = r.methods
         /\ q.registering = r.registering /\ q.process = r.process
  <1>1. /\ q \in AnyClient /\ q.state = state /\ q.call = r.call /\ q.proxy = r.proxy /\ q.link = r.link
        /\ q.ended = r.ended /\ q.info = r.info /\ q.known = r.known /\ q.methods = r.methods
        /\ q.registering = r.registering /\ q.process = r.process
    BY DEF Mid, AnyClient
  <1>2. Mid(q)
    BY <1>1 DEF Mid
  <1> QED
    BY <1>1, <1>2

LEMMA ErrorReplyTells ==
  ASSUME NEW r, Mid(r), NEW cs, NEW result
  PROVE  LET q == ErrorReply(r, cs, result)
             z == Tell(r, cs) IN
         q = z \/ (r.state = "PendingRegistration" /\ q = [z EXCEPT !.state = "NeedsRegistration"])
  <1>1. r.state = Tell(r, cs).state
    BY DEF Tell, Mid, AnyClient
  <1> QED
    BY DEF ErrorReply

LEMMA IdentityCallsFailedEnds ==
  ASSUME NEW r, Mid(r), \A c \in Call : r.call[c].st = "failed" => r.call[c].told = 0
  PROVE  LET q == IdentityCallsFailed(r) IN
         /\ Mid(q) /\ SameIdentity(r, q) /\ q.info = r.info /\ q.methods = r.methods
         /\ q.link = r.link /\ q.proxy[Main] = r.proxy[Main]
         /\ \A c \in Call : q.call[c] = IF r.call[c].st = "failed" THEN FreeCall ELSE r.call[c]
         /\ \A x \in q.ended : x \in r.ended \/ EndedWell(x)
  <1> DEFINE y == EndCalls(Tell(r, Failed(r)), Failed(r))
             q == IdentityCallsFailed(r)
  <1>1. /\ Mid(y) /\ SameButEnded(r, y) /\ y.link = r.link /\ y.proxy[Main] = r.proxy[Main]
        /\ \A c \in Call : y.call[c] = IF r.call[c].st = "failed" THEN FreeCall ELSE r.call[c]
        /\ \A x \in y.ended : x \in r.ended \/ EndedWell(x)
    BY FailedEnd
  <1>2. q = y \/ q = [y EXCEPT !.state = "NeedsRegistration"]
    <2> DEFINE z == Tell(r, Failed(r))
               w == ErrorReply(r, Failed(r), "disconnected")
    <2>1. w = z \/ w = [z EXCEPT !.state = "NeedsRegistration"]
      BY ErrorReplyTells
    <2>2. z \in AnyClient
      BY TellTells DEF Failed, Mid
    <2>3. EndCalls([z EXCEPT !.state = "NeedsRegistration"], Failed(r)) =
              [EndCalls(z, Failed(r)) EXCEPT !.state = "NeedsRegistration"]
      BY ZenonT(30), <2>2 DEF EndCalls, AnyClient
    <2> HIDE DEF w, z
    <2>4. q = EndCalls(w, Failed(r)) /\ y = EndCalls(z, Failed(r))
      BY DEF IdentityCallsFailed, w, z
    <2> QED
      BY <2>1, <2>3, <2>4
  <1> HIDE DEF y, q
  <1>3. "NeedsRegistration" \in IdentityStates
    BY DEF IdentityStates
  <1>4. /\ Mid(q) /\ q.call = y.call /\ q.proxy = y.proxy /\ q.link = y.link /\ q.ended = y.ended
        /\ q.info = y.info /\ q.known = y.known /\ q.methods = y.methods
        /\ q.registering = y.registering /\ q.process = y.process
    BY <1>1, <1>2, <1>3, StateSet
  <1> QED
    BY <1>1, <1>4 DEF SameIdentity, SameButEnded, q

LEMMA RegisterReplySettles ==
  ASSUME NEW r, Mid(r), Quiet(r), NEW info \in Version
  PROVE  LET q == RegisterReply(r, info) IN
         /\ Settles(r, q) /\ SameIdentity(r, q) /\ q.proxy[Main].path
         /\ q.state = "Ready" /\ q.info = IF r.known THEN info ELSE r.info
  <1>1. PICK cached : cached = [r EXCEPT !.info = IF r.known THEN info ELSE r.info]
    OBVIOUS
  <1>2. /\ cached \in AnyClient /\ cached.call = r.call /\ cached.proxy = r.proxy
        /\ cached.link = r.link /\ cached.ended = r.ended /\ cached.methods = r.methods
        /\ cached.info = (IF r.known THEN info ELSE r.info) /\ SameIdentity(r, cached)
    BY <1>1 DEF Mid, AnyClient, SameIdentity
  <1>3. Mid(cached) /\ Quiet(cached)
    BY <1>2 DEF Mid, Quiet
  <1>4. PICK z : z = SetObjectPath(cached, Main, TRUE)
    OBVIOUS
  <1>5. MainSet(cached, z) /\ z.proxy[Main].path
    BY <1>3, <1>4, SetObjectPathSets
  <1>6. \A c \in Call : z.call[c].st = "failed" => z.call[c].told = 0
    BY <1>3, <1>5, Slots DEF MainSet, Quiet, CallKeeps, FailsAs
  <1>7. PICK y : y = IdentityCallsFailed(z)
    OBVIOUS
  <1>8. /\ Mid(y) /\ SameIdentity(z, y) /\ y.info = z.info /\ y.methods = z.methods
        /\ y.link = z.link /\ y.proxy[Main] = z.proxy[Main]
        /\ \A c \in Call : y.call[c] = IF z.call[c].st = "failed" THEN FreeCall ELSE z.call[c]
        /\ \A x \in y.ended : x \in z.ended \/ EndedWell(x)
    BY <1>5, <1>6, <1>7, IdentityCallsFailedEnds DEF MainSet
  <1>9. PICK q : q = [y EXCEPT !.state = "Ready"]
    OBVIOUS
  <1>10. RegisterReply(r, info) = q
    BY <1>1, <1>4, <1>7, <1>9 DEF RegisterReply
  <1>11. /\ Mid(q) /\ q.state = "Ready" /\ q.call = y.call /\ q.proxy = y.proxy /\ q.link = y.link
         /\ q.ended = y.ended /\ q.info = y.info /\ q.methods = y.methods /\ SameIdentity(y, q)
    BY <1>8, <1>9, StateSet DEF IdentityStates, SameIdentity
  <1>12. Settles(cached, q)
    BY <1>3, <1>5, <1>8, <1>11, FailedSettle
  <1>13. Settles(r, q)
    BY <1>2, <1>12 DEF Settles
  <1>14. SameIdentity(r, q) /\ q.info = cached.info
    BY <1>2, <1>5, <1>8, <1>11 DEF SameIdentity, MainSet, SameObject
  <1> QED
    BY <1>2, <1>5, <1>8, <1>10, <1>11, <1>13, <1>14

\* A call is over.
Finishes(r, q, c) ==
    /\ Mid(q) /\ Quiet(q) /\ q.link = r.link /\ q.proxy[Main].conn = r.proxy[Main].conn
    /\ q.call[c] = FreeCall
    /\ \A s \in Service : s # c => CallKeeps(r.call[s], q.call[s])
    /\ \A e \in Operation : e # c => Moves(r.call[e], q.call[e])

LEMMA SettlesSelf ==
  ASSUME NEW r, Mid(r), Quiet(r)
  PROVE  Settles(r, r)
  BY KeepsSelf, Slots DEF Settles, Moves, Mid, AnyClient

\* The other calls and proxies are left alone.
Aside(r, q, c) ==
    /\ \A e \in Call : e # c => q.call[e] = r.call[e]
    /\ \A p \in Proxy : p # c => q.proxy[p] = r.proxy[p]

Closes(r, z, q, c) ==
    /\ Finishes(r, q, c) /\ SameButEnded(z, q) /\ q.proxy[Main] = z.proxy[Main] /\ Aside(z, q, c)
    /\ \A x \in q.ended : x \in z.ended \/ (c \in Operation /\ x.told = z.call[c].told
                                            /\ x.unnoticed = z.call[c].unnoticed)

\* A call has been told, what follows has happened, and it ends.
LEMMA SettledEnds ==
  ASSUME NEW r, NEW c \in Call, NEW t, NEW z, Settles(t, z), Mid(r),
         \A e \in Call : e # c => t.call[e] = r.call[e],
         t.link = r.link, t.proxy[Main].conn = r.proxy[Main].conn
  PROVE  Closes(r, z, EndCalls(z, {c}), c)
  <1>1. PICK q : q = EndCalls(z, {c})
    OBVIOUS
  <1>2. /\ Mid(q) /\ SameButEnded(z, q) /\ q.link = z.link /\ q.proxy[Main] = z.proxy[Main]
        /\ q.ended = z.ended \cup {[told |-> z.call[e].told, unnoticed |-> z.call[e].unnoticed]
                                   : e \in {c} \cap Operation}
        /\ \A e \in {c} : q.call[e] = FreeCall
        /\ \A e \in Call : e \notin {c} => q.call[e] = z.call[e]
        /\ \A p \in Proxy : p \notin {c} => q.proxy[p] = z.proxy[p]
    BY <1>1, EndCallsEnds DEF Settles
  <1>3. q.call[c] = FreeCall /\ \A e \in Call : e # c => q.call[e] = z.call[e]
    BY <1>2
  <1>4. Quiet(q)
    BY <1>3, FreeCallType DEF Quiet, Settles
  <1>5. /\ \A s \in Service : s # c => CallKeeps(r.call[s], q.call[s])
        /\ \A e \in Operation : e # c => Moves(r.call[e], q.call[e])
    BY <1>3, Slots DEF Settles
  <1>6. Finishes(r, q, c)
    BY <1>2, <1>3, <1>4, <1>5 DEF Finishes, Settles
  <1>7. \A x \in q.ended : x \in z.ended \/ (c \in Operation /\ x.told = z.call[c].told
                                              /\ x.unnoticed = z.call[c].unnoticed)
    BY <1>2
  <1> QED
    BY <1>1, <1>2, <1>3, <1>6, <1>7 DEF Closes, Aside

\* A call before it is told, and after that.
Tells1(r, t, c) ==
    /\ Mid(t) /\ Quiet(t) /\ SameObject(r, t) /\ t.proxy = r.proxy /\ t.link = r.link
    /\ \A e \in Call : e # c => t.call[e] = r.call[e]
    /\ t.call[c].told = r.call[c].told + 1 /\ t.call[c].unnoticed = r.call[c].unnoticed
    /\ t.call[c].op = r.call[c].op /\ t.call[c].st = r.call[c].st

LEMMA ToldOne ==
  ASSUME NEW r, Mid(r), Quiet(r), NEW c \in Call, r.call[c].st \in {"sent", "failing"}
  PROVE  Tells1(r, Tell(r, {c}), c)
  <1>1. PICK t : t = Tell(r, {c})
    OBVIOUS
  <1>2. /\ Mid(t) /\ SameObject(r, t) /\ t.proxy = r.proxy /\ t.link = r.link
        /\ \A e \in {c} : t.call[e] = [r.call[e] EXCEPT !.told = @ + 1]
        /\ \A e \in Call : e \notin {c} => t.call[e] = r.call[e]
    BY <1>1, TellTells
  <1>3. /\ t.call[c].told = r.call[c].told + 1 /\ t.call[c].unnoticed = r.call[c].unnoticed
        /\ t.call[c].op = r.call[c].op /\ t.call[c].st = r.call[c].st
    BY <1>2 DEF Mid, AnyClient, AnyCall
  <1>4. Quiet(t)
    BY <1>2, <1>3 DEF Quiet
  <1> QED
    BY <1>1, <1>2, <1>3, <1>4 DEF Tells1

\* What the reply to c makes of the identity.
Learns(r, q, op, info) ==
    /\ q.registering = r.registering /\ q.process = r.process
    /\ q.known = (IF op = "store" THEN TRUE ELSE IF op = "remove" THEN FALSE ELSE r.known)
    /\ q.info = (IF (op = "register" /\ r.known) \/ op = "getInfo" THEN info
                 ELSE IF op = "remove" THEN NoVersion ELSE r.info)
    /\ q.state = (IF op \in {"register", "getInfo"} THEN "Ready"
                  ELSE IF op = "remove" THEN "Removed" ELSE r.state)

EndsWell(r, q) == \A x \in q.ended : x \in r.ended \/ EndedWell(x)

WithFields(t, info, known, state) == [t EXCEPT !.info = info, !.known = known, !.state = state]

LEMMA IdentityFieldsSet ==
  ASSUME NEW t, Mid(t), Quiet(t), NEW info \in Version, NEW known \in BOOLEAN,
         NEW state \in IdentityStates, NEW z,
         z = WithFields(t, info, known, state)
  PROVE  /\ Settles(t, z) /\ z.info = info /\ z.known = known /\ z.state = state
         /\ z.registering = t.registering /\ z.process = t.process
         /\ z.call = t.call
  <1>1. /\ z \in AnyClient /\ z.call = t.call /\ z.proxy = t.proxy /\ z.link = t.link
        /\ z.ended = t.ended /\ z.methods = t.methods
        /\ z.info = info /\ z.known = known /\ z.state = state
        /\ z.registering = t.registering /\ z.process = t.process
    BY DEF Mid, AnyClient, WithFields
  <1>2. Mid(z) /\ Quiet(z)
    BY <1>1 DEF Mid, Quiet
  <1>3. Settles(t, z)
    BY <1>1, <1>2, SettlesSelf DEF Settles
  <1> QED
    BY <1>1, <1>3

LEMMA IdentityReplyFinishes ==
  ASSUME NEW r, Mid(r), Quiet(r), NEW c \in Call, r.call[c].st = "sent", r.call[c].told = 0,
         NEW info \in Version
  PROVE  LET q == EndCalls(IdentityReply(r, c, info), {c}) IN
         Finishes(r, q, c) /\ EndsWell(r, q) /\ Learns(r, q, r.call[c].op, info)
  <1>1. PICK t : t = Tell(r, {c})
    OBVIOUS
  <1>2. /\ Mid(t) /\ Quiet(t) /\ SameObject(r, t) /\ t.proxy = r.proxy /\ t.link = r.link
        /\ \A e \in Call : e # c => t.call[e] = r.call[e]
        /\ t.call[c].told = 1 /\ t.call[c].st = "sent"
    <2>1. Tells1(r, t, c)
      BY <1>1, ToldOne
    <2> QED
      BY <2>1 DEF Tells1
  <1>3. PICK z : z = IdentityReply(r, c, info)
    OBVIOUS
  <1>4. t \in AnyClient /\ t.info \in Version /\ t.known \in BOOLEAN /\ t.state \in IdentityStates
        /\ NoVersion \in Version
    BY <1>2, MaxVersionAssumption DEF Mid, AnyClient, NoVersion, Version
  <1>5. Settles(t, z) /\ Learns(t, z, r.call[c].op, info)
    <2>1. CASE r.call[c].op = "register"
      <3>1. z = RegisterReply(t, info)
        BY <1>1, <1>3, <2>1 DEF IdentityReply
      <3> QED
        BY <1>2, <2>1, <3>1, RegisterReplySettles DEF Learns, SameIdentity
    <2>2. CASE r.call[c].op = "getInfo"
      <3>1. z = WithFields(t, info, t.known, "Ready")
        BY <1>1, <1>3, <1>4, <2>2 DEF IdentityReply, GetInfoReply, AnyClient, WithFields
      <3>2. "Ready" \in IdentityStates
        BY DEF IdentityStates
      <3>3. /\ Settles(t, z) /\ z.info = info /\ z.known = t.known /\ z.state = "Ready"
            /\ z.registering = t.registering /\ z.process = t.process
        BY <1>2, <1>4, <3>1, <3>2, IdentityFieldsSet
      <3> QED
        BY <2>2, <3>3 DEF Learns
    <2>3. CASE r.call[c].op = "store"
      <3>0. PICK kn \in BOOLEAN : kn = TRUE
        OBVIOUS
      <3>1. z = WithFields(t, t.info, kn, t.state)
        BY <3>0, <1>1, <1>3, <1>4, <2>3 DEF IdentityReply, StoreCredentialsReply, AnyClient, WithFields
      <3>2. /\ Settles(t, z) /\ z.info = t.info /\ z.known = kn /\ z.state = t.state
            /\ z.registering = t.registering /\ z.process = t.process
        BY <1>2, <1>4, <3>1, IdentityFieldsSet
      <3> QED
        BY <2>3, <3>0, <3>2 DEF Learns
    <2>4. CASE r.call[c].op = "remove"
      <3>0. PICK kn \in BOOLEAN : kn = FALSE
        OBVIOUS
      <3>1. z = WithFields(t, NoVersion, kn, "Removed")
        BY <3>0, <1>1, <1>3, <1>4, <2>4 DEF IdentityReply, RemoveReply, AnyClient, WithFields
      <3>2. "Removed" \in IdentityStates
        BY DEF IdentityStates
      <3>3. /\ Settles(t, z) /\ z.info = NoVersion /\ z.known = kn /\ z.state = "Removed"
            /\ z.registering = t.registering /\ z.process = t.process
        BY <1>2, <1>4, <3>1, <3>2, IdentityFieldsSet
      <3> QED
        BY <2>4, <3>0, <3>3 DEF Learns
    <2>5. CASE r.call[c].op \notin {"register", "getInfo", "store", "remove"}
      <3>1. z = t
        BY <1>1, <1>3, <2>5 DEF IdentityReply
      <3> QED
        BY <1>2, <2>5, <3>1, SettlesSelf DEF Learns
    <2> QED
      BY <2>1, <2>2, <2>3, <2>4, <2>5
  <1>6. PICK q : q = EndCalls(z, {c})
    OBVIOUS
  <1>7. Closes(r, z, q, c)
    <2>1. Settles(t, z) /\ t.proxy[Main].conn = r.proxy[Main].conn
      BY <1>2, <1>5
    <2> QED
      BY <1>2, <1>6, <2>1, SettledEnds
  <1>8. z.call[c].told = 1
    BY <1>2, <1>5, Slots DEF Settles, Moves, CallKeeps
  <1>9. EndsWell(r, q)
    BY <1>2, <1>5, <1>7, <1>8 DEF Closes, EndsWell, EndedWell, Settles, SameObject
  <1>10. Learns(r, q, r.call[c].op, info)
    BY <1>2, <1>5, <1>7 DEF Closes, Learns, SameButEnded, SameObject
  <1> QED
    BY <1>3, <1>6, <1>7, <1>9, <1>10 DEF Closes

\* What an error makes of it.
Errs(r, q) ==
    /\ q.info = r.info /\ q.known = r.known
    /\ q.registering = r.registering /\ q.process = r.process
    /\ q.state = r.state \/ (r.state = "PendingRegistration" /\ q.state = "NeedsRegistration")

LEMMA IdentityErrorFinishes ==
  ASSUME NEW r, Mid(r), Quiet(r), NEW c \in Call, r.call[c].st \in {"sent", "failing"},
         r.call[c].told = 0, NEW result
  PROVE  LET q == EndCalls(ErrorReply(r, {c}, result), {c}) IN
         Finishes(r, q, c) /\ EndsWell(r, q) /\ Errs(r, q)
  <1>1. PICK t : t = Tell(r, {c})
    OBVIOUS
  <1>2. /\ Mid(t) /\ Quiet(t) /\ SameObject(r, t) /\ t.proxy = r.proxy /\ t.link = r.link
        /\ \A e \in Call : e # c => t.call[e] = r.call[e]
        /\ t.call[c].told = 1
    <2>1. Tells1(r, t, c)
      BY <1>1, ToldOne
    <2> QED
      BY <2>1 DEF Tells1
  <1>3. PICK z : z = ErrorReply(r, {c}, result)
    OBVIOUS
  <1>4. z = t \/ (r.state = "PendingRegistration" /\ z = [t EXCEPT !.state = "NeedsRegistration"])
    BY <1>1, <1>3, ErrorReplyTells
  <1>5. /\ Mid(z) /\ z.call = t.call /\ z.proxy = t.proxy /\ z.link = t.link
        /\ z.ended = t.ended /\ z.info = t.info /\ z.known = t.known /\ z.methods = t.methods
        /\ z.registering = t.registering /\ z.process = t.process
        /\ z.state = t.state \/ (r.state = "PendingRegistration" /\ z.state = "NeedsRegistration")
    <2>1. CASE z = t
      BY <1>2, <2>1
    <2>2. CASE r.state = "PendingRegistration" /\ z = [t EXCEPT !.state = "NeedsRegistration"]
      <3>1. "NeedsRegistration" \in IdentityStates
        BY DEF IdentityStates
      <3> QED
        BY <1>2, <2>2, <3>1, StateSet
    <2> QED
      BY <1>4, <2>1, <2>2
  <1>6. Settles(t, z) /\ t.proxy[Main].conn = r.proxy[Main].conn
    <2>1. Quiet(z)
      BY <1>2, <1>5 DEF Quiet
    <2> QED
      BY <1>2, <1>5, <2>1, SettlesSelf DEF Settles
  <1>7. PICK q : q = EndCalls(z, {c})
    OBVIOUS
  <1>8. Closes(r, z, q, c)
    BY <1>2, <1>6, <1>7, SettledEnds
  <1>9. EndsWell(r, q)
    BY <1>2, <1>5, <1>8 DEF Closes, EndsWell, EndedWell, SameObject
  <1>10. Errs(r, q)
    BY <1>2, <1>5, <1>8 DEF Closes, Errs, SameButEnded, SameObject
  <1> QED
    BY <1>3, <1>7, <1>8, <1>9, <1>10 DEF Closes

-----------------------------------------------------------------------------
\* The service.

\* What the reply to c, or its error, makes of it: the call has been told, unless
\* the reply is taken for another's.
Serves(r, q, c, told) ==
    /\ Finishes(r, q, c) /\ Aside(r, q, c)
    /\ \A x \in q.ended : \/ x \in r.ended
                          \/ (c \in Operation /\ x.told = told /\ x.unnoticed = r.call[c].unnoticed)
    /\ q.methods = IF r.call[c].op = "mechanisms" /\ r.methods # << >> THEN Tail(r.methods) ELSE r.methods
    /\ q.process = r.process /\ q.registering = r.registering /\ q.state = r.state

LEMMA DequeuedMid ==
  ASSUME NEW r, Mid(r), Quiet(r)
  PROVE  LET d == IF r.methods = << >> THEN r ELSE [r EXCEPT !.methods = Tail(@)] IN
         /\ Mid(d) /\ Quiet(d) /\ d.call = r.call /\ d.proxy = r.proxy /\ d.link = r.link
         /\ d.ended = r.ended /\ d.process = r.process /\ d.registering = r.registering /\ d.state = r.state
         /\ d.methods = IF r.methods # << >> THEN Tail(r.methods) ELSE r.methods
         /\ Dequeued(r) = d
  <1>1. r \in AnyClient /\ r.methods \in Seq(Operation)
    BY DEF Mid, AnyClient
  <1>2. r.methods # << >> => Tail(r.methods) \in Seq(Operation)
    BY <1>1
  <1>3. PICK d : d = IF r.methods = << >> THEN r ELSE [r EXCEPT !.methods = Tail(@)]
    OBVIOUS
  <1>4. /\ d \in AnyClient /\ d.call = r.call /\ d.proxy = r.proxy /\ d.link = r.link
        /\ d.ended = r.ended /\ d.process = r.process /\ d.registering = r.registering /\ d.state = r.state
        /\ d.methods = IF r.methods # << >> THEN Tail(r.methods) ELSE r.methods
    <2>1. CASE r.methods = << >>
      BY <1>1, <1>3, <2>1
    <2>2. CASE r.methods # << >>
      BY <1>1, <1>2, <1>3, <2>2 DEF AnyClient
    <2> QED
      BY <2>1, <2>2
  <1>5. Mid(d) /\ Quiet(d)
    BY <1>4 DEF Mid, Quiet
  <1>6. Dequeued(r) = d
    BY <1>1, <1>3 DEF Dequeued, AnyClient
  <1> QED
    BY <1>3, <1>4, <1>5, <1>6

LEMMA ServiceFinishes ==
  ASSUME NEW r, Mid(r), Quiet(r), NEW c \in Call, r.call[c].st \in {"sent", "failing"},
         r.call[c].told = 0
  PROVE  /\ Serves(r, EndCalls(ServiceReply(r, c), {c}), c,
                   IF r.call[c].op = "mechanisms" /\ ~(r.methods # << >> /\ Head(r.methods) = c)
                   THEN 0 ELSE 1)
         /\ Serves(r, EndCalls(ServiceErrorReply(r, c), {c}), c, 1)
  <1>1. PICK d : d = IF r.call[c].op = "mechanisms" THEN Dequeued(r) ELSE r
    OBVIOUS
  <1>2. /\ Mid(d) /\ Quiet(d) /\ d.call = r.call /\ d.proxy = r.proxy /\ d.link = r.link
        /\ d.ended = r.ended /\ d.process = r.process /\ d.registering = r.registering /\ d.state = r.state
        /\ d.methods = IF r.call[c].op = "mechanisms" /\ r.methods # << >>
                       THEN Tail(r.methods) ELSE r.methods
    BY ZenonT(30), <1>1, DequeuedMid
  <1>3. PICK t : t = Tell(d, {c})
    OBVIOUS
  <1>4. /\ Mid(t) /\ Quiet(t) /\ SameObject(d, t) /\ t.proxy = r.proxy /\ t.link = r.link
        /\ \A e \in Call : e # c => t.call[e] = r.call[e]
        /\ t.call[c].told = 1 /\ t.call[c].unnoticed = r.call[c].unnoticed
    <2>1. Tells1(d, t, c)
      BY <1>2, <1>3, ToldOne
    <2> QED
      BY <1>2, <2>1 DEF Tells1
  <1>5. PICK u : u = Tell(d, {})
    OBVIOUS
  <1>6. /\ Mid(u) /\ SameObject(d, u) /\ u.proxy = r.proxy /\ u.link = r.link
        /\ \A e \in Call : u.call[e] = r.call[e]
    <2>1. /\ Mid(u) /\ SameObject(d, u) /\ u.proxy = d.proxy /\ u.link = d.link
          /\ \A e \in Call : e \notin {} => u.call[e] = d.call[e]
      <3>1. PICK cs : cs = {}
        OBVIOUS
      <3>2. \A e \in cs : e \in Call /\ d.call[e].st # "free"
        BY <3>1
      <3>3. /\ Mid(Tell(d, cs)) /\ SameObject(d, Tell(d, cs)) /\ Tell(d, cs).proxy = d.proxy
            /\ Tell(d, cs).link = d.link
            /\ \A e \in Call : e \notin cs => Tell(d, cs).call[e] = d.call[e]
        BY <1>2, <3>2, TellTells
      <3> QED
        BY <1>5, <3>1, <3>3
    <2> QED
      BY <1>2, <2>1
  <1>7. Quiet(u)
    BY <1>6 DEF Quiet
  <1>8. PICK z : z = ServiceErrorReply(r, c)
    OBVIOUS
  <1>9. z = t
    BY <1>1, <1>3, <1>8 DEF ServiceErrorReply
  <1>10. PICK w : w = ServiceReply(r, c)
    OBVIOUS
  <1>11. w = IF r.call[c].op = "mechanisms" /\ ~(r.methods # << >> /\ Head(r.methods) = c) THEN u ELSE t
    BY <1>1, <1>3, <1>5, <1>10 DEF ServiceReply
  <1>12. ASSUME NEW y, y = t \/ y = u
         PROVE  Serves(r, EndCalls(y, {c}), c, IF y = t THEN 1 ELSE 0)
    <2>1. /\ Mid(y) /\ Quiet(y) /\ y.proxy = r.proxy /\ y.link = r.link
          /\ \A e \in Call : e # c => y.call[e] = r.call[e]
          /\ y.call[c].told = (IF y = t THEN 1 ELSE 0) /\ y.call[c].unnoticed = r.call[c].unnoticed
          /\ y.methods = d.methods /\ y.ended = r.ended
          /\ y.process = r.process /\ y.registering = r.registering /\ y.state = r.state
      BY <1>2, <1>4, <1>6, <1>7, <1>12 DEF SameObject
    <2>2. PICK q : q = EndCalls(y, {c})
      OBVIOUS
    <2>3. Settles(y, y) /\ y.proxy[Main].conn = r.proxy[Main].conn
      BY <2>1, SettlesSelf
    <2>4. Closes(r, y, q, c)
      BY <2>1, <2>2, <2>3, SettledEnds
    <2> QED
      BY ZenonT(30), <1>2, <2>1, <2>2, <2>4 DEF Closes, Serves, SameButEnded, Aside
  <1>13. u # t
    BY <1>4, <1>6
  <1>14. Serves(r, EndCalls(z, {c}), c, 1)
    BY <1>9, <1>12
  <1>15. Serves(r, EndCalls(w, {c}), c,
                IF r.call[c].op = "mechanisms" /\ ~(r.methods # << >> /\ Head(r.methods) = c) THEN 0 ELSE 1)
    BY <1>11, <1>12, <1>13
  <1> QED
    BY <1>8, <1>10, <1>14, <1>15

-----------------------------------------------------------------------------
\* The session.

LEMMA SettlesTransitive ==
  ASSUME NEW r, NEW q, NEW z, Mid(r), Settles(r, q), Settles(q, z)
  PROVE  Settles(r, z)
  <1>1. \A c \in Call : r.call[c] \in AnyCall /\ q.call[c] \in AnyCall /\ z.call[c] \in AnyCall
    BY DEF Settles, Mid, AnyClient
  <1>2. \A s \in Service : CallKeeps(r.call[s], z.call[s])
    BY <1>1, Slots, KeepsTransitive DEF Settles
  <1>3. \A c \in Operation : Moves(r.call[c], z.call[c])
    <2> SUFFICES ASSUME NEW c \in Operation PROVE Moves(r.call[c], z.call[c])
      OBVIOUS
    <2>1. Moves(r.call[c], q.call[c]) /\ Moves(q.call[c], z.call[c]) /\ c \in Call
      BY Slots DEF Settles
    <2>2. CASE CallKeeps(r.call[c], q.call[c]) /\ CallKeeps(q.call[c], z.call[c])
      BY <1>1, <2>1, <2>2, KeepsTransitive DEF Moves
    <2>3. CASE CallKeeps(r.call[c], q.call[c]) /\ q.call[c].st = "queued" /\ z.call[c] = FreeCall
      BY <2>3 DEF CallKeeps, Moves
    <2>4. CASE r.call[c].st = "queued" /\ q.call[c] = FreeCall
      <3>1. z.call[c] = FreeCall
        BY <1>1, <2>1, <2>4, FreeCallType, KeepsFree DEF Moves
      <3> QED
        BY <2>4, <3>1 DEF Moves
    <2> QED
      BY <2>1, <2>2, <2>3, <2>4 DEF Moves
  <1> QED
    BY <1>2, <1>3 DEF Settles

\* The proxy of the object has changed, and no call has failed for that.
LEMMA SetSettles ==
  ASSUME NEW r, Mid(r), Quiet(r), NEW q, MainSet(r, q), \A c \in Operation : q.call[c].st # "failed"
  PROVE  Settles(r, q)
  <1>1. \A c \in Operation : CallKeeps(r.call[c], q.call[c])
    BY DEF MainSet, FailsAs
  <1>2. Quiet(q)
    BY <1>1, Slots DEF MainSet, Quiet, CallKeeps, Mid
  <1> QED
    BY <1>1, <1>2 DEF MainSet, Settles, Moves, SameObject

WithSession(r, registering, process) == [r EXCEPT !.registering = registering, !.process = process]

LEMMA SessionSet ==
  ASSUME NEW r, Mid(r), NEW registering \in BOOLEAN, NEW process \in Operation \cup {NoProcess},
         NEW q, q = WithSession(r, registering, process)
  PROVE  /\ Mid(q) /\ q.registering = registering /\ q.process = process
         /\ q.call = r.call /\ q.proxy = r.proxy /\ q.link = r.link
         /\ q.ended = r.ended /\ q.methods = r.methods
  <1>1. /\ q \in AnyClient /\ q.registering = registering /\ q.process = process
        /\ q.call = r.call /\ q.proxy = r.proxy /\ q.link = r.link
        /\ q.ended = r.ended /\ q.methods = r.methods
    BY DEF Mid, AnyClient, WithSession
  <1>2. Mid(q)
    BY <1>1 DEF Mid
  <1> QED
    BY <1>1, <1>2

\* errorSlot() for what a change of the proxy has failed.
LEMMA SessionCallsFailedEnds ==
  ASSUME NEW r, Mid(r), \A c \in Call : r.call[c].st = "failed" => r.call[c].told \in {0, 1}
                                           /\ (r.call[c].unnoticed \/ r.call[c].told = 0)
  PROVE  LET q == SessionCallsFailed(r) IN
         /\ Mid(q) /\ q.registering = r.registering /\ q.process \in {r.process, NoProcess}
         /\ q.methods = r.methods /\ q.link = r.link /\ q.proxy[Main] = r.proxy[Main]
         /\ \A c \in Call : q.call[c] = IF r.call[c].st = "failed" THEN FreeCall ELSE r.call[c]
         /\ EndsWell(r, q)
  <1>1. PICK y : y = EndCalls(Tell(r, Failed(r)), Failed(r))
    OBVIOUS
  <1>2. /\ Mid(y) /\ SameButEnded(r, y) /\ y.link = r.link /\ y.proxy[Main] = r.proxy[Main]
        /\ \A c \in Call : y.call[c] = IF r.call[c].st = "failed" THEN FreeCall ELSE r.call[c]
        /\ \A x \in y.ended : x \in r.ended \/ EndedWell(x)
    BY <1>1, FailedEnd
  <1>3. PICK p : p = IF Failed(r) = {} THEN y.process ELSE NoProcess
    OBVIOUS
  <1>4. PICK q : q = WithSession(y, y.registering, p)
    OBVIOUS
  <1>5. SessionCallsFailed(r) = q
    BY <1>1, <1>2, <1>3, <1>4 DEF SessionCallsFailed, WithSession, Mid, AnyClient
  <1>6. y.registering \in BOOLEAN /\ y.process \in Operation \cup {NoProcess}
    BY <1>2 DEF Mid, AnyClient
  <1>7. p \in Operation \cup {NoProcess} /\ p \in {r.process, NoProcess}
    BY <1>2, <1>3, <1>6 DEF SameButEnded
  <1>8. /\ Mid(q) /\ q.registering = y.registering /\ q.process = p
        /\ q.call = y.call /\ q.proxy = y.proxy /\ q.link = y.link
        /\ q.ended = y.ended /\ q.methods = y.methods
    BY <1>2, <1>4, <1>6, <1>7, SessionSet
  <1>9. EndsWell(r, q)
    BY <1>2, <1>8 DEF EndsWell
  <1> QED
    BY <1>2, <1>5, <1>7, <1>8, <1>9 DEF SameButEnded

\* All that waits has failed, and the object is to be registered anew.
Reset(r, q) ==
    /\ Settles(r, q)
    /\ ~q.registering /\ q.process = NoProcess /\ ~q.proxy[Main].path

LEMMA RegistrationFailedResets ==
  ASSUME NEW r, Mid(r), Quiet(r)
  PROVE  Reset(r, RegistrationFailed(r))
  <1>1. PICK over : over = WithSession(r, FALSE, NoProcess)
    OBVIOUS
  <1>2. /\ Mid(over) /\ over.registering = FALSE /\ over.process = NoProcess
        /\ over.call = r.call /\ over.proxy = r.proxy /\ over.link = r.link
        /\ over.ended = r.ended /\ over.methods = r.methods
    <2>1. PICK b \in BOOLEAN : b = FALSE
      OBVIOUS
    <2>2. PICK p \in Operation \cup {NoProcess} : p = NoProcess
      OBVIOUS
    <2>3. over = WithSession(r, b, p)
      BY <1>1, <2>1, <2>2
    <2> QED
      BY <2>1, <2>2, <2>3, SessionSet
  <1>3. Quiet(over)
    BY <1>2 DEF Quiet
  <1>4. PICK z : z = SetError(over, Main)
    OBVIOUS
  <1>5. MainSet(over, z) /\ \A c \in Operation : z.call[c].st # "queued"
    BY <1>2, <1>4, SetErrorSets
  <1>6. \A c \in Call : z.call[c].st = "failed" => z.call[c].told = 0
    BY <1>3, <1>5, Slots DEF MainSet, Quiet, CallKeeps, FailsAs
  <1>7. PICK y : y = SessionCallsFailed(z)
    OBVIOUS
  <1>8. /\ Mid(y) /\ y.registering = z.registering /\ y.process \in {z.process, NoProcess}
        /\ y.methods = z.methods /\ y.link = z.link /\ y.proxy[Main] = z.proxy[Main]
        /\ \A c \in Call : y.call[c] = IF z.call[c].st = "failed" THEN FreeCall ELSE z.call[c]
        /\ EndsWell(z, y)
    BY <1>5, <1>6, <1>7, SessionCallsFailedEnds DEF MainSet
  <1>9. Settles(over, y)
    BY <1>2, <1>3, <1>5, <1>8, FailedSettle DEF EndsWell
  <1>10. PICK q : q = SetObjectPath(y, Main, FALSE)
    OBVIOUS
  <1>11. /\ MainSet(y, q) /\ ~q.proxy[Main].path
         /\ \A c \in Operation : q.call[c].st = y.call[c].st
    <2>1. PICK b \in BOOLEAN : b = FALSE
      OBVIOUS
    <2>2. q = SetObjectPath(y, Main, b)
      BY <1>10, <2>1
    <2> QED
      BY <1>8, <2>1, <2>2, SetObjectPathSets
  <1>12. Settles(y, q)
    BY <1>9, <1>11, Slots, SetSettles DEF Settles, Quiet
  <1>13. Settles(over, q)
    BY <1>2, <1>9, <1>12, SettlesTransitive
  <1>14. Settles(r, q)
    BY <1>2, <1>13 DEF Settles
  <1>15. ~q.registering /\ q.process = NoProcess
    BY <1>2, <1>5, <1>8, <1>11 DEF MainSet, SameObject
  <1>16. RegistrationFailed(r) = q
    BY <1>1, <1>4, <1>7, <1>10 DEF RegistrationFailed, WithSession
  <1> QED
    BY <1>11, <1>14, <1>15, <1>16 DEF Reset

\* Something has been registered, or not.
Settled(r, q) ==
    /\ Settles(r, q)
    /\ ~q.registering /\ q.process \in {r.process, NoProcess}

LEMMA AuthenticationSlotSettles ==
  ASSUME NEW r, Mid(r), Quiet(r)
  PROVE  Settled(r, AuthenticationSlot(r))
  <1>1. PICK set : set = SetObjectPath(r, Main, TRUE)
    OBVIOUS
  <1>2. MainSet(r, set) /\ \A c \in Operation : FailsAs(r.call[c], set.call[c]) => set.call[c].unnoticed
    <2>1. PICK b \in BOOLEAN : b = TRUE
      OBVIOUS
    <2>2. set = SetObjectPath(r, Main, b)
      BY <1>1, <2>1
    <2> QED
      BY <2>2, SetObjectPathSets
  <1>3. Mid(set) /\ set.process = r.process
    BY <1>2 DEF MainSet, SameObject
  <1>4. set.process \in Operation \cup {NoProcess}
    BY <1>3 DEF Mid, AnyClient
  <1>5. CASE Failed(set) = {}
    <2>1. PICK q : q = WithSession(set, FALSE, set.process)
      OBVIOUS
    <2>2. AuthenticationSlot(r) = q
      <3>1. AuthenticationSlot(r) = [set EXCEPT !.registering = FALSE]
        BY <1>1, <1>5 DEF AuthenticationSlot
      <3>2. set \in AnyClient
        BY <1>3 DEF Mid
      <3>3. [set EXCEPT !.registering = FALSE] = WithSession(set, FALSE, set.process)
        BY <3>2 DEF WithSession, AnyClient
      <3> QED
        BY <2>1, <3>1, <3>3
    <2>3. /\ Mid(q) /\ ~q.registering /\ q.process = set.process
          /\ q.call = set.call /\ q.proxy = set.proxy /\ q.link = set.link
          /\ q.ended = set.ended /\ q.methods = set.methods
      <3>1. PICK b \in BOOLEAN : b = FALSE
        OBVIOUS
      <3>2. q = WithSession(set, b, set.process)
        BY <2>1, <3>1
      <3> QED
        BY <1>3, <1>4, <3>1, <3>2, SessionSet
    <2>4. Settles(r, set)
      BY <1>2, <1>5, Slots, SetSettles DEF Failed
    <2>5. Settles(r, q)
      BY <2>3, <2>4 DEF Settles, Quiet
    <2> QED
      BY <1>3, <2>2, <2>3, <2>5 DEF Settled
  <1>6. CASE Failed(set) # {}
    <2>1. PICK cs : cs = Failed(set) \ {Min(Failed(set))}
      OBVIOUS
    <2>2. PICK t : t = Tell(set, cs)
      OBVIOUS
    <2>3. \A c \in cs : c \in Call /\ set.call[c].st = "failed"
      BY <2>1 DEF Failed
    <2>4. /\ Mid(t) /\ SameObject(set, t) /\ t.proxy = set.proxy /\ t.link = set.link
          /\ \A c \in cs : t.call[c] = [set.call[c] EXCEPT !.told = @ + 1]
          /\ \A c \in Call : c \notin cs => t.call[c] = set.call[c]
      BY <1>3, <2>2, <2>3, TellTells
    <2>5. \A c \in Call : set.call[c].st = "failed" => set.call[c].told = 0 /\ set.call[c].unnoticed
      <3> SUFFICES ASSUME NEW c \in Call, set.call[c].st = "failed"
                   PROVE  set.call[c].told = 0 /\ set.call[c].unnoticed
        OBVIOUS
      <3>1. c \in Operation
        BY <1>3, Slots DEF Mid
      <3>2. FailsAs(r.call[c], set.call[c])
        BY <1>2, <3>1, Slots DEF MainSet, CallKeeps, Quiet
      <3> QED
        BY <1>2, <3>1, <3>2, Slots DEF FailsAs, Quiet
    <2>6. \A c \in Call : /\ t.call[c].st = set.call[c].st
                          /\ t.call[c].st = "failed" => t.call[c].told \in {0, 1} /\ t.call[c].unnoticed
                          /\ t.call[c].st # "failed" => t.call[c] = set.call[c]
      <3> SUFFICES ASSUME NEW c \in Call
                   PROVE  /\ t.call[c].st = set.call[c].st
                          /\ t.call[c].st = "failed" => t.call[c].told \in {0, 1} /\ t.call[c].unnoticed
                          /\ t.call[c].st # "failed" => t.call[c] = set.call[c]
        OBVIOUS
      <3>1. CASE c \notin cs
        BY <2>4, <2>5, <3>1
      <3>2. CASE c \in cs
        <4>1. set.call[c] \in AnyCall /\ t.call[c] = [set.call[c] EXCEPT !.told = @ + 1]
          BY <1>3, <2>4, <3>2 DEF Mid, AnyClient
        <4>2. set.call[c].st = "failed" /\ set.call[c].told = 0 /\ set.call[c].unnoticed
          BY <2>3, <2>5, <3>2
        <4>3. t.call[c].st = set.call[c].st /\ t.call[c].told = set.call[c].told + 1
              /\ t.call[c].unnoticed = set.call[c].unnoticed
          BY <4>1 DEF AnyCall
        <4> QED
          BY <4>2, <4>3
      <3> QED
        BY <3>1, <3>2
    <2>7. PICK y : y = SessionCallsFailed(t)
      OBVIOUS
    <2>8. /\ Mid(y) /\ y.methods = t.methods /\ y.link = t.link /\ y.proxy[Main] = t.proxy[Main]
          /\ \A c \in Call : y.call[c] = IF t.call[c].st = "failed" THEN FreeCall ELSE t.call[c]
          /\ EndsWell(t, y)
      BY <2>4, <2>6, <2>7, SessionCallsFailedEnds
    <2>9. \A c \in Call : y.call[c] = IF set.call[c].st = "failed" THEN FreeCall ELSE set.call[c]
      BY <2>6, <2>8
    <2>10. y.methods = set.methods /\ y.link = set.link /\ y.proxy[Main].conn = set.proxy[Main].conn
      BY <2>4, <2>8 DEF SameObject
    <2>11. \A x \in y.ended : x \in set.ended \/ EndedWell(x)
      BY <2>4, <2>8 DEF SameObject, EndsWell
    <2>12. Settles(r, y)
      BY <1>2, <2>8, <2>9, <2>10, <2>11, FailedSettle
    <2>13. PICK q : q = RegistrationFailed(y)
      OBVIOUS
    <2>14. Reset(y, q)
      BY <2>12, <2>13, RegistrationFailedResets DEF Settles
    <2>15. AuthenticationSlot(r) = q
      BY <1>1, <1>6, <2>1, <2>2, <2>7, <2>13 DEF AuthenticationSlot
    <2> QED
      BY <2>12, <2>14, <2>15, SettlesTransitive DEF Reset, Settled
  <1> QED
    BY <1>5, <1>6

\* A reply has come, or an error that no other is taken for.
SessionEnds(r, q, c) ==
    /\ Finishes(r, q, c) /\ q.process \in {r.process, NoProcess}
    /\ q.registering => r.registering /\ q.proxy[Main].path = r.proxy[Main].path

\* A request is told its end; the session goes on.
SessionToldEnds(r, q, c, p) ==
    /\ SessionEnds(r, q, c) /\ q.registering = r.registering /\ q.process = p
    /\ \A x \in q.ended : x \in r.ended \/ (c \in Operation /\ x.told = r.call[c].told + 1
                                            /\ x.unnoticed = r.call[c].unnoticed)

LEMMA SessionTold ==
  ASSUME NEW r, Mid(r), Quiet(r), NEW c \in Call, r.call[c].st \in {"sent", "failing"},
         NEW p \in {r.process, NoProcess},
         NEW z, z = Tell(WithSession(r, r.registering, p), {c})
  PROVE  SessionToldEnds(r, EndCalls(z, {c}), c, p)
  <1>1. r.registering \in BOOLEAN /\ p \in Operation \cup {NoProcess}
    BY DEF Mid, AnyClient
  <1>2. PICK w : w = WithSession(r, r.registering, p)
    OBVIOUS
  <1>3. /\ Mid(w) /\ w.registering = r.registering /\ w.process = p
        /\ w.call = r.call /\ w.proxy = r.proxy /\ w.link = r.link
        /\ w.ended = r.ended /\ w.methods = r.methods
    BY <1>1, <1>2, SessionSet
  <1>4. Quiet(w)
    BY <1>3 DEF Quiet
  <1>5. Tells1(w, z, c)
    BY <1>2, <1>3, <1>4, ToldOne
  <1>6. /\ Mid(z) /\ Quiet(z) /\ SameObject(w, z) /\ z.proxy = r.proxy /\ z.link = r.link
        /\ \A e \in Call : e # c => z.call[e] = r.call[e]
        /\ z.call[c].told = r.call[c].told + 1 /\ z.call[c].unnoticed = r.call[c].unnoticed
    BY <1>3, <1>5 DEF Tells1
  <1>7. Settles(z, z) /\ z.proxy[Main].conn = r.proxy[Main].conn
    BY <1>6, SettlesSelf
  <1>8. PICK q : q = EndCalls(z, {c})
    OBVIOUS
  <1>9. Closes(r, z, q, c)
    BY <1>6, <1>7, <1>8, SettledEnds
  <1>10. q.process = p /\ q.registering = r.registering /\ q.proxy[Main] = r.proxy[Main]
    BY <1>3, <1>6, <1>9 DEF Closes, SameButEnded, SameObject
  <1>11. \A x \in q.ended : x \in r.ended \/ (c \in Operation /\ x.told = r.call[c].told + 1
                                              /\ x.unnoticed = r.call[c].unnoticed)
    BY ZenonT(30), <1>3, <1>6, <1>9 DEF Closes, SameObject
  <1> QED
    BY <1>8, <1>9, <1>10, <1>11 DEF SessionToldEnds, SessionEnds, Closes

\* Nothing is being registered any more.
LEMMA SessionSettledEnds ==
  ASSUME NEW r, Mid(r), NEW c \in Call, NEW z, Settled(r, z)
  PROVE  LET q == EndCalls(z, {c}) IN
         /\ SessionEnds(r, q, c) /\ ~q.registering
         /\ \A x \in q.ended : \/ x \in r.ended \/ EndedWell(x)
                               \/ /\ c \in Operation /\ x.told = z.call[c].told
                                  /\ x.unnoticed = z.call[c].unnoticed
  <1>1. PICK q : q = EndCalls(z, {c})
    OBVIOUS
  <1>2. Settles(r, z)
    BY DEF Settled
  <1>3. Closes(r, z, q, c)
    BY <1>1, <1>2, SettledEnds
  <1>4. ~q.registering /\ q.process \in {r.process, NoProcess}
    BY <1>3 DEF Closes, SameButEnded, Settled
  <1> QED
    BY <1>1, <1>2, <1>3, <1>4 DEF Closes, SessionEnds, Settles

LEMMA SameSession ==
  ASSUME NEW r, Mid(r)
  PROVE  /\ [r EXCEPT !.process = NoProcess] = WithSession(r, r.registering, NoProcess)
         /\ r = WithSession(r, r.registering, r.process)
  BY ZenonT(30) DEF WithSession, Mid, AnyClient

LEMMA SessionReplyFinishes ==
  ASSUME NEW r, Mid(r), Quiet(r), NEW c \in Call, r.call[c].st = "sent", r.call[c].told = 0,
         c \in Operation => r.call[c].op # "register"
  PROVE  LET q == EndCalls(SessionReply(r, c), {c}) IN
         SessionEnds(r, q, c) /\ EndsWell(r, q)
  <1>1. PICK z : z = SessionReply(r, c)
    OBVIOUS
  <1>2. PICK q : q = EndCalls(z, {c})
    OBVIOUS
  <1>3. CASE r.call[c].op = "register"
    <2>1. Settled(r, z)
      BY <1>1, <1>3, AuthenticationSlotSettles DEF SessionReply
    <2>2. SessionEnds(r, q, c) /\ \A x \in q.ended : x \in r.ended \/ EndedWell(x)
      BY <1>2, <1>3, <2>1, SessionSettledEnds
    <2> QED
      BY <1>1, <1>2, <2>2 DEF EndsWell
  <1>4. CASE r.call[c].op # "register"
    <2>1. PICK p \in {r.process, NoProcess} : z = Tell(WithSession(r, r.registering, p), {c})
      <3>1. CASE r.call[c].op = "process"
        BY <1>1, <3>1, SameSession DEF SessionReply
      <3>2. CASE r.call[c].op # "process"
        <4>1. z = Tell(WithSession(r, r.registering, r.process), {c})
          BY <1>1, <1>4, <3>2, SameSession DEF SessionReply
        <4> QED
          BY <4>1
      <3> QED
        BY <3>1, <3>2
    <2>2. /\ SessionEnds(r, q, c)
          /\ \A x \in q.ended : x \in r.ended \/ (c \in Operation /\ x.told = r.call[c].told + 1
                                                  /\ x.unnoticed = r.call[c].unnoticed)
      <3>1. SessionToldEnds(r, q, c, p)
        BY <1>2, <2>1, SessionTold
      <3> QED
        BY <3>1 DEF SessionToldEnds
    <2>3. EndsWell(r, q)
      BY <2>2 DEF EndsWell, EndedWell
    <2> QED
      BY <1>1, <1>2, <2>2, <2>3
  <1> QED
    BY <1>3, <1>4

\* An error is taken for the registration's while something is being registered.
LEMMA ErrorSlotFinishes ==
  ASSUME NEW r, Mid(r), Quiet(r), NEW c \in Call, r.call[c].st \in {"sent", "failing"}
  PROVE  LET q == EndCalls(ErrorSlot(r, c), {c}) IN
         /\ SessionEnds(r, q, c)
         /\ \A x \in q.ended : \/ x \in r.ended \/ EndedWell(x)
                               \/ /\ c \in Operation /\ x.unnoticed = r.call[c].unnoticed
                                  /\ x.told = IF r.registering THEN r.call[c].told ELSE r.call[c].told + 1
  <1>1. PICK z : z = ErrorSlot(r, c)
    OBVIOUS
  <1>2. PICK q : q = EndCalls(z, {c})
    OBVIOUS
  <1>3. CASE r.registering
    <2>1. Reset(r, z)
      BY <1>1, <1>3, RegistrationFailedResets DEF ErrorSlot
    <2>2. Settled(r, z)
      BY <2>1 DEF Reset, Settled
    <2>3. /\ SessionEnds(r, q, c)
          /\ \A x \in q.ended : \/ x \in r.ended \/ EndedWell(x)
                                \/ /\ c \in Operation /\ x.told = z.call[c].told
                                   /\ x.unnoticed = z.call[c].unnoticed
      BY ZenonT(30), <1>2, <2>2, SessionSettledEnds
    <2>4. c \in Operation => z.call[c].told = r.call[c].told /\ z.call[c].unnoticed = r.call[c].unnoticed
      BY <2>1 DEF Reset, Settles, Moves, CallKeeps
    <2> QED
      BY <1>1, <1>2, <1>3, <2>3, <2>4
  <1>4. CASE ~r.registering
    <2>1. PICK p : p = NoProcess
      OBVIOUS
    <2>2. z = Tell(WithSession(r, r.registering, p), {c})
      BY <1>1, <1>4, <2>1, SameSession DEF ErrorSlot
    <2>3. /\ SessionEnds(r, q, c)
          /\ \A x \in q.ended : x \in r.ended \/ (c \in Operation /\ x.told = r.call[c].told + 1
                                                  /\ x.unnoticed = r.call[c].unnoticed)
      <3>1. SessionToldEnds(r, q, c, p)
        BY <1>2, <2>1, <2>2, SessionTold
      <3> QED
        BY <3>1 DEF SessionToldEnds
    <2> QED
      BY <1>1, <1>2, <1>4, <2>3
  <1> QED
    BY <1>3, <1>4

-----------------------------------------------------------------------------
\* Calls that ask for a registration.

\* A registration goes on, or begins.
GoesOn(a, b) == CallKeeps(a, b) \/ (a.st = "free" /\ b.told = 0 /\ b.st \in {"queued", "sent"})

\* What the other calls, and the object, see of it.
Others(r, q, c) ==
    /\ Mid(q) /\ q.ended = r.ended /\ q.info = r.info /\ q.known = r.known
    /\ q.process = r.process /\ q.methods = r.methods
    /\ SameMain(r, q) /\ Conn(r, q)
    /\ \A e \in Operation : e # c => CallKeeps(r.call[e], q.call[e])
    /\ \A s \in Service : s # c => GoesOn(r.call[s], q.call[s])

IdentityAsks(r, q) ==
    /\ q.registering = r.registering
    /\ q.state = r.state \/ (q.state = "PendingRegistration" /\ ~r.proxy[Main].path)

SessionAsks(r, q) ==
    /\ q.state = r.state
    /\ q.registering = r.registering \/ (q.registering /\ ~r.proxy[Main].path)

HasService(r) == \E s \in Service : ~r.proxy[s].used

LEMMA RegistersOthers ==
  ASSUME NEW r, Mid(r), HasService(r), NEW d \in BOOLEAN
  PROVE  LET q == CallRegister(r, d) IN
         /\ Mid(q) /\ SameObject(r, q) /\ SameMain(r, q) /\ Conn(r, q)
         /\ \A e \in Operation : CallKeeps(r.call[e], q.call[e])
         /\ \A s \in Service : GoesOn(r.call[s], q.call[s])
  <1>1. Registers(r, CallRegister(r, d))
    BY CallRegisterRegisters DEF HasService
  <1> QED
    BY <1>1 DEF Registers, ServicesGo, GoesOn

Asked(r, q) ==
    /\ Mid(q) /\ q.ended = r.ended /\ q.info = r.info /\ q.known = r.known
    /\ q.process = r.process /\ q.methods = r.methods
    /\ SameMain(r, q) /\ Conn(r, q)
    /\ \A e \in Operation : CallKeeps(r.call[e], q.call[e])
    /\ \A s \in Service : GoesOn(r.call[s], q.call[s])

LEMMA AskedSelf ==
  ASSUME NEW r, Mid(r)
  PROVE  Asked(r, r)
  BY KeepsSelf, Slots DEF Asked, SameMain, Conn, GoesOn, Mid, AnyClient

LEMMA RegisterIdentityAsks ==
  ASSUME NEW r, Mid(r), r.state = "PendingRegistration" \/ HasService(r), NEW d \in BOOLEAN
  PROVE  LET q == RegisterIdentity(r, d) IN
         Asked(r, q) /\ q.registering = r.registering /\ q.state = "PendingRegistration"
  <1>1. CASE r.state = "PendingRegistration"
    BY <1>1, AskedSelf DEF RegisterIdentity
  <1>2. CASE r.state # "PendingRegistration"
    <2>1. PICK z : z = CallRegister(r, d)
      OBVIOUS
    <2>2. PICK q : q = [z EXCEPT !.state = "PendingRegistration"]
      OBVIOUS
    <2>3. RegisterIdentity(r, d) = q
      BY <1>2, <2>1, <2>2 DEF RegisterIdentity
    <2>4. /\ Mid(z) /\ SameObject(r, z) /\ SameMain(r, z) /\ Conn(r, z)
          /\ \A e \in Operation : CallKeeps(r.call[e], z.call[e])
          /\ \A s \in Service : GoesOn(r.call[s], z.call[s])
      BY <1>2, <2>1, RegistersOthers
    <2>5. "PendingRegistration" \in IdentityStates
      BY DEF IdentityStates
    <2>6. /\ Mid(q) /\ q.state = "PendingRegistration" /\ q.call = z.call /\ q.proxy = z.proxy
          /\ q.link = z.link /\ q.ended = z.ended /\ q.info = z.info /\ q.known = z.known
          /\ q.methods = z.methods /\ q.registering = z.registering /\ q.process = z.process
      BY <2>2, <2>4, <2>5, StateSet
    <2>7. Asked(r, q) /\ q.registering = r.registering
      BY <2>4, <2>6 DEF Asked, SameObject, SameMain, Conn
    <2> QED
      BY <2>3, <2>6, <2>7
  <1> QED
    BY <1>1, <1>2

LEMMA InitInterfaceAsks ==
  ASSUME NEW r, Mid(r), r.registering \/ HasService(r), NEW d \in BOOLEAN
  PROVE  LET q == InitInterface(r, d) IN
         Asked(r, q) /\ q.state = r.state /\ q.registering
  <1>1. CASE r.registering
    BY <1>1, AskedSelf DEF InitInterface
  <1>2. CASE ~r.registering
    <2>1. PICK z : z = [r EXCEPT !.registering = TRUE]
      OBVIOUS
    <2>2. PICK q : q = CallRegister(z, d)
      OBVIOUS
    <2>3. InitInterface(r, d) = q
      BY <1>2, <2>1, <2>2 DEF InitInterface
    <2>4. /\ z \in AnyClient /\ z.registering /\ z.call = r.call /\ z.proxy = r.proxy
          /\ z.link = r.link /\ z.ended = r.ended /\ z.info = r.info /\ z.known = r.known
          /\ z.methods = r.methods /\ z.state = r.state /\ z.process = r.process
      BY <2>1 DEF Mid, AnyClient
    <2>5. Mid(z) /\ HasService(z)
      BY <1>2, <2>4 DEF Mid, HasService
    <2>6. /\ Mid(q) /\ SameObject(z, q) /\ SameMain(z, q) /\ Conn(z, q)
          /\ \A e \in Operation : CallKeeps(z.call[e], q.call[e])
          /\ \A s \in Service : GoesOn(z.call[s], q.call[s])
      BY <2>2, <2>5, RegistersOthers
    <2>7. Asked(r, q) /\ q.registering /\ q.state = r.state
      BY <2>4, <2>6 DEF Asked, SameObject, SameMain, Conn
    <2> QED
      BY <2>3, <2>7
  <1> QED
    BY <1>1, <1>2

\* A new call, and one that is tried again.
IsNew(r, x, op) ==
    /\ x.op = op /\ x.told = 0 /\ x.st \in {"queued", "sent", "failing"}
    /\ x.unnoticed <=> x.st = "failing"
    /\ x.st = "failing" => r.proxy[Main].status = "Invalid"
    /\ x.st = "sent" => ~x.old /\ (x.lost => r.proxy[Main].conn = "dead")

IsRetried(a, x) ==
    /\ x.op = a.op /\ x.told = a.told /\ x.unnoticed = a.unnoticed /\ x.st \in {"queued", "sent"}
    /\ x.st = "sent" => ~x.old /\ ~x.lost

LEMMA QueuedThenAsked ==
  ASSUME NEW r, Mid(r), NEW c \in Call, NEW z, NEW q, Asked(z, q),
         Mid(z), SameObject(r, z), SameMain(r, z), Conn(r, z),
         \A e \in Call : e # c => CallKeeps(r.call[e], z.call[e])
  PROVE  Others(r, q, c)
  <1>1. \A e \in Call : r.call[e] \in AnyCall /\ z.call[e] \in AnyCall /\ q.call[e] \in AnyCall
    BY DEF Asked, Mid, AnyClient
  <1>2. \A e \in Operation : e # c => CallKeeps(r.call[e], q.call[e])
    BY <1>1, Slots, KeepsTransitive DEF Asked
  <1>3. \A s \in Service : s # c => GoesOn(r.call[s], q.call[s])
    <2> SUFFICES ASSUME NEW s \in Service, s # c PROVE GoesOn(r.call[s], q.call[s])
      OBVIOUS
    <2>1. CallKeeps(r.call[s], z.call[s]) /\ GoesOn(z.call[s], q.call[s]) /\ s \in Call
      BY Slots DEF Asked
    <2>2. CASE CallKeeps(z.call[s], q.call[s])
      BY <1>1, <2>1, <2>2, KeepsTransitive DEF GoesOn
    <2>3. CASE z.call[s].st = "free" /\ q.call[s].told = 0 /\ q.call[s].st \in {"queued", "sent"}
      BY <2>1, <2>3 DEF CallKeeps, GoesOn
    <2> QED
      BY <2>1, <2>2, <2>3 DEF GoesOn
  <1>4. SameMain(r, q) /\ Conn(r, q)
    BY DEF Asked, SameMain, Conn
  <1> QED
    BY <1>2, <1>3, <1>4 DEF Asked, Others, SameObject

LEMMA NewKeeps ==
  ASSUME NEW r, NEW x, NEW y, NEW op, IsNew(r, x, op), CallKeeps(x, y)
  PROVE  IsNew(r, y, op)
  BY DEF IsNew, CallKeeps

LEMMA RetriedKeeps ==
  ASSUME NEW a, NEW x, NEW y, IsRetried(a, x), CallKeeps(x, y)
  PROVE  IsRetried(a, y)
  BY DEF IsRetried, CallKeeps

CanRegister(r, registering) == r.proxy[Main].path \/ registering \/ HasService(r)

LEMMA IfNeededAsks ==
  ASSUME NEW z, Mid(z), NEW c \in Call, NEW d \in BOOLEAN
  PROVE  /\ CanRegister(z, z.state = "PendingRegistration") =>
               Asked(z, RegisterIfNeeded(z, c, d)) /\ IdentityAsks(z, RegisterIfNeeded(z, c, d))
         /\ CanRegister(z, z.registering) =>
               Asked(z, InitIfNeeded(z, c, d)) /\ SessionAsks(z, InitIfNeeded(z, c, d))
  <1>1. CASE ~PathNeeded(z, c)
    BY <1>1, AskedSelf DEF RegisterIfNeeded, InitIfNeeded, IdentityAsks, SessionAsks
  <1>2. CASE PathNeeded(z, c)
    <2>1. ~z.proxy[Main].path
      BY <1>2 DEF PathNeeded
    <2> QED
      BY <1>2, <2>1, RegisterIdentityAsks, InitInterfaceAsks
         DEF CanRegister, RegisterIfNeeded, InitIfNeeded, IdentityAsks, SessionAsks
  <1> QED
    BY <1>1, <1>2

CallAsked(r, q, c, op) == Others(r, q, c) /\ IsNew(r, q.call[c], op)

LEMMA MakesThenAsked ==
  ASSUME NEW r, Mid(r), NEW c \in Operation, NEW op, NEW z, Makes(r, z, c, op), NEW q, Asked(z, q)
  PROVE  CallAsked(r, q, c, op)
  <1>1. IsNew(r, z.call[c], op)
    BY Slots DEF Makes, IsNew
  <1>2. IsNew(r, q.call[c], op)
    BY <1>1, NewKeeps DEF Asked
  <1>3. Others(r, q, c)
    BY Slots, QueuedThenAsked DEF Makes
  <1> QED
    BY <1>2, <1>3 DEF CallAsked

LEMMA MakesCanRegister ==
  ASSUME NEW r, NEW z, SameObject(r, z), SameMain(r, z), SameUsed(r, z), NEW b, CanRegister(r, b)
  PROVE  CanRegister(z, b)
  BY Slots DEF SameMain, SameUsed, CanRegister, HasService

LEMMA CallIdentityAsks ==
  ASSUME NEW r, Mid(r), NEW c \in Operation, NEW op \in Ops, NEW d \in BOOLEAN,
         CanRegister(r, r.state = "PendingRegistration")
  PROVE  CallAsked(r, CallIdentity(r, c, op, d), c, op) /\ IdentityAsks(r, CallIdentity(r, c, op, d))
  <1>1. PICK z : z = QueueCall(r, c, op, d)
    OBVIOUS
  <1>2. Makes(r, z, c, op)
    BY <1>1, Slots, QueueCallMakes
  <1>3. Mid(z) /\ SameObject(r, z) /\ SameMain(r, z) /\ SameUsed(r, z)
    BY <1>2 DEF Makes
  <1>4. CanRegister(z, z.state = "PendingRegistration")
    BY <1>3, MakesCanRegister DEF SameObject
  <1>5. PICK q : q = RegisterIfNeeded(z, c, d)
    OBVIOUS
  <1>6. Asked(z, q) /\ IdentityAsks(z, q)
    BY <1>3, <1>4, <1>5, Slots, IfNeededAsks
  <1>7. CallAsked(r, q, c, op)
    BY <1>2, <1>6, MakesThenAsked
  <1>8. IdentityAsks(r, q)
    BY <1>3, <1>6 DEF IdentityAsks, SameObject, SameMain
  <1> QED
    BY <1>1, <1>5, <1>7, <1>8 DEF CallIdentity

LEMMA Send2InterfaceAsks ==
  ASSUME NEW r, Mid(r), NEW c \in Operation, NEW op \in Ops, NEW d \in BOOLEAN,
         CanRegister(r, r.registering)
  PROVE  CallAsked(r, Send2Interface(r, c, op, d), c, op) /\ SessionAsks(r, Send2Interface(r, c, op, d))
  <1>1. PICK z : z = QueueCall(r, c, op, d)
    OBVIOUS
  <1>2. Makes(r, z, c, op)
    BY <1>1, Slots, QueueCallMakes
  <1>3. Mid(z) /\ SameObject(r, z) /\ SameMain(r, z) /\ SameUsed(r, z)
    BY <1>2 DEF Makes
  <1>4. CanRegister(z, z.registering)
    BY <1>3, MakesCanRegister DEF SameObject
  <1>5. PICK q : q = InitIfNeeded(z, c, d)
    OBVIOUS
  <1>6. Asked(z, q) /\ SessionAsks(z, q)
    BY <1>3, <1>4, <1>5, Slots, IfNeededAsks
  <1>7. CallAsked(r, q, c, op)
    BY <1>2, <1>6, MakesThenAsked
  <1>8. SessionAsks(r, q)
    BY <1>3, <1>6 DEF SessionAsks, SameObject, SameMain
  <1> QED
    BY <1>1, <1>5, <1>7, <1>8 DEF Send2Interface

LEMMA SendRequestAsks ==
  ASSUME NEW r, Mid(r), NEW c \in Operation, NEW op \in Ops, NEW d \in BOOLEAN
  PROVE  LET q == SendRequest(r, c, op, d) IN
         /\ CallAsked(r, q, c, op) /\ q.state = r.state /\ q.registering = r.registering
         /\ SameUsed(r, q) /\ \A s \in Service : CallKeeps(r.call[s], q.call[s])
  <1>1. PICK q : q = QueueCall(r, c, op, d)
    OBVIOUS
  <1>2. Makes(r, q, c, op)
    BY <1>1, Slots, QueueCallMakes
  <1>3. CallAsked(r, q, c, op)
    BY <1>2, AskedSelf, MakesThenAsked DEF Makes
  <1> QED
    BY <1>1, <1>2, <1>3, Slots DEF SendRequest, Makes, SameObject

\* A call is tried again.
Retries(r, q, c) == Others(r, q, c) /\ IsRetried(r.call[c], q.call[c])

LEMMA RequeuesThenAsked ==
  ASSUME NEW r, Mid(r), NEW c \in Call, NEW z, Requeues(r, z, c), NEW q, Asked(z, q)
  PROVE  Retries(r, q, c)
  <1>1. IsRetried(r.call[c], z.call[c])
    BY DEF Requeues, IsRetried
  <1>2. CallKeeps(z.call[c], q.call[c])
    BY <1>1, Slots DEF Asked, GoesOn, IsRetried
  <1>3. IsRetried(r.call[c], q.call[c])
    BY <1>1, <1>2, RetriedKeeps
  <1>4. Others(r, q, c)
    BY QueuedThenAsked DEF Requeues
  <1> QED
    BY <1>3, <1>4 DEF Retries

LEMMA RequeueRetries ==
  ASSUME NEW r, Mid(r), NEW c \in Call, r.call[c].st = "sent", NEW d \in BOOLEAN
  PROVE  /\ CanRegister(r, r.state = "PendingRegistration") \/ c \in Service =>
               Retries(r, RequeueIdentityCall(r, c, d), c) /\ IdentityAsks(r, RequeueIdentityCall(r, c, d))
         /\ CanRegister(r, r.registering) \/ c \in Service =>
               Retries(r, RequeueSessionCall(r, c, d), c) /\ SessionAsks(r, RequeueSessionCall(r, c, d))
         /\ Retries(r, RequeueServiceCall(r, c, d), c)
         /\ SameUsed(r, RequeueServiceCall(r, c, d))
         /\ \A s \in Service : s # c => CallKeeps(r.call[s], RequeueServiceCall(r, c, d).call[s])
  <1>1. PICK z : z = Enqueue(r, c, d)
    OBVIOUS
  <1>2. Requeues(r, z, c)
    BY <1>1, EnqueueRequeues
  <1>3. Mid(z) /\ SameObject(r, z) /\ SameMain(r, z) /\ SameUsed(r, z)
    BY <1>2 DEF Requeues
  <1>4. c \in Service => RegisterIfNeeded(z, c, d) = z /\ InitIfNeeded(z, c, d) = z
    BY Slots DEF RegisterIfNeeded, InitIfNeeded, PathNeeded
  <1>5. ASSUME CanRegister(r, r.state = "PendingRegistration") \/ c \in Service
        PROVE  Retries(r, RequeueIdentityCall(r, c, d), c) /\ IdentityAsks(r, RequeueIdentityCall(r, c, d))
    <2>1. PICK q : q = RegisterIfNeeded(z, c, d)
      OBVIOUS
    <2>2. Asked(z, q) /\ IdentityAsks(z, q)
      <3>1. CASE c \in Service
        BY <1>3, <1>4, <2>1, <3>1, AskedSelf DEF IdentityAsks
      <3>2. CASE c \notin Service
        <4>1. CanRegister(z, z.state = "PendingRegistration")
          BY <1>3, <1>5, <3>2, MakesCanRegister DEF SameObject
        <4> QED
          BY <1>3, <2>1, <4>1, IfNeededAsks
      <3> QED
        BY <3>1, <3>2
    <2>3. Retries(r, q, c)
      BY <1>2, <2>2, RequeuesThenAsked
    <2>4. IdentityAsks(r, q)
      BY <1>3, <2>2 DEF IdentityAsks, SameObject, SameMain
    <2> QED
      BY <1>1, <2>1, <2>3, <2>4 DEF RequeueIdentityCall
  <1>6. ASSUME CanRegister(r, r.registering) \/ c \in Service
        PROVE  Retries(r, RequeueSessionCall(r, c, d), c) /\ SessionAsks(r, RequeueSessionCall(r, c, d))
    <2>1. PICK q : q = InitIfNeeded(z, c, d)
      OBVIOUS
    <2>2. Asked(z, q) /\ SessionAsks(z, q)
      <3>1. CASE c \in Service
        BY <1>3, <1>4, <2>1, <3>1, AskedSelf DEF SessionAsks
      <3>2. CASE c \notin Service
        <4>1. CanRegister(z, z.registering)
          BY <1>3, <1>6, <3>2, MakesCanRegister DEF SameObject
        <4> QED
          BY <1>3, <2>1, <4>1, IfNeededAsks
      <3> QED
        BY <3>1, <3>2
    <2>3. Retries(r, q, c)
      BY <1>2, <2>2, RequeuesThenAsked
    <2>4. SessionAsks(r, q)
      BY <1>3, <2>2 DEF SessionAsks, SameObject, SameMain
    <2> QED
      BY <1>1, <2>1, <2>3, <2>4 DEF RequeueSessionCall
  <1>7. Retries(r, z, c)
    BY <1>2, <1>3, AskedSelf, RequeuesThenAsked
  <1> QED
    BY <1>1, <1>2, <1>3, <1>5, <1>6, <1>7, Slots DEF RequeueServiceCall, Requeues

-----------------------------------------------------------------------------
\* The inductive invariant.

\* A call between two steps.  A request that is cancelled while its failure is on
\* its way has been told of it.
Fit(call, session) ==
    /\ call.st # "failed" /\ (call.unnoticed => call.st = "failing")
    /\ call.told = 0 \/ (session /\ call.st = "failing" /\ call.told = 1)

Calls(r, session) ==
    \A c \in Call : /\ Fit(r.call[c], session)
                    /\ c \in Operation /\ r.call[c].st # "free" => r.call[c].op # "register"

ClientOk(r, session) ==
    /\ Mid(r) /\ Calls(r, session)
    /\ r.process # NoProcess => r.call[r.process].told = 0
    /\ session /\ r.registering => ~r.proxy[Main].path
    /\ \A x \in r.ended : x.told <= 2

\* Replies are to calls that wait for them, and one to each.
IsReply(m) == m.type = "reply"
Replies(r, in) == \A i \in DOMAIN in : IsReply(in[i]) => /\ r.call[in[i].call].st = "sent"
                                                         /\ ~r.call[in[i].call].lost
Once(in) == \A i, j \in DOMAIN in : IsReply(in[i]) /\ IsReply(in[j]) /\ in[i].call = in[j].call => i = j

\* There is room for the calls that signals will make, those of stores that are
\* not yet served included.
UpdatesIn(in) == {i \in DOMAIN in : in[i].type = "updated"}
Unserved(r, in) == {c \in Operation : /\ r.call[c].st # "free" /\ r.call[c].op = "store"
                                      /\ \A i \in DOMAIN in : IsReply(in[i]) /\ in[i].call = c
                                             => in[i].result # "ok"}
RoomLeft(r, in) ==
    Cardinality(FreeCalls(r, Operation)) >= Cardinality(UpdatesIn(in)) + Cardinality(Unserved(r, in))

LostType == lost \in [links : 0..MaxLost, unsignalled : 0..MaxLost, objects : 0..MaxLost, unheard : BOOLEAN]

LostOk == LostType /\ lost.unsignalled <= lost.links /\ lost.links + lost.objects <= MaxLost

Inv == /\ object \in Objects /\ inbox \in Seq(Message) /\ daemon \in BOOLEAN /\ remote \in BOOLEAN
       /\ version \in Version /\ LostOk
       /\ ClientOk(k, IsSession)
       /\ Replies(k, inbox) /\ Once(inbox) /\ RoomLeft(k, inbox)

LEMMA ClientType ==
  ASSUME NEW r, NEW session, ClientOk(r, session)
  PROVE  r \in Client
  <1>1. r \in AnyClient
    BY DEF ClientOk, Mid
  <1>2. \A c \in Call : r.call[c] \in PendingCall
    <2> SUFFICES ASSUME NEW c \in Call PROVE r.call[c] \in PendingCall
      OBVIOUS
    <2>1. r.call[c] \in AnyCall /\ r.call[c].told \in {0, 1}
      BY <1>1 DEF AnyClient, ClientOk, Calls, Fit
    <2>2. r.call[c].told \in 0..2
      BY <2>1
    <2> QED
      BY <2>1, <2>2 DEF AnyCall, PendingCall
  <1>3. r.call \in [Call -> PendingCall]
    BY <1>1, <1>2 DEF AnyClient
  <1>4. r.ended \in SUBSET [told : 0..2, unnoticed : BOOLEAN]
    <2> SUFFICES ASSUME NEW x \in r.ended PROVE x \in [told : 0..2, unnoticed : BOOLEAN]
      OBVIOUS
    <2>1. x \in [told : Nat, unnoticed : BOOLEAN] /\ x.told <= 2
      BY <1>1 DEF AnyClient, ClientOk
    <2>2. x.told \in 0..2
      BY <2>1
    <2> QED
      BY <2>1, <2>2
  <1> QED
    BY <1>1, <1>3, <1>4 DEF AnyClient, Client

LEMMA InvTypeOK == Inv => TypeOK
  BY ClientType DEF Inv, TypeOK, LostOk, LostType

\* The calls but c, which is none of them when none is of interest.
Rest(r, q, c) ==
    /\ \A e \in Operation : e # c => Moves(r.call[e], q.call[e])
    /\ \A s \in Service : s # c => GoesOn(r.call[s], q.call[s])

LEMMA RestFit ==
  ASSUME NEW r, NEW q, NEW session \in BOOLEAN, NEW c, Mid(r), Mid(q), Calls(r, session), Rest(r, q, c),
         c \in Call => /\ Fit(q.call[c], session)
                       /\ c \in Operation /\ q.call[c].st # "free" => q.call[c].op # "register"
  PROVE  Calls(q, session)
  <1> SUFFICES ASSUME NEW e \in Call, e # c
               PROVE  /\ Fit(q.call[e], session)
                      /\ e \in Operation /\ q.call[e].st # "free" => q.call[e].op # "register"
    BY DEF Calls
  <1>1. /\ Fit(r.call[e], session) /\ r.call[e] \in AnyCall /\ q.call[e] \in AnyCall
        /\ e \in Operation /\ r.call[e].st # "free" => r.call[e].op # "register"
    BY DEF Calls, Mid, AnyClient
  <1>2. CASE CallKeeps(r.call[e], q.call[e])
    BY <1>1, <1>2 DEF CallKeeps, Fit, AnyCall
  <1>3. CASE q.call[e] = FreeCall
    BY <1>3, FreeCallType DEF Fit
  <1>4. CASE e \in Service /\ q.call[e].told = 0 /\ q.call[e].st \in {"queued", "sent"}
    BY <1>4, Slots DEF Fit, Mid
  <1> QED
    BY <1>2, <1>3, <1>4, Slots DEF Rest, Moves, GoesOn

LEMMA RestOk ==
  ASSUME NEW r, NEW q, NEW session \in BOOLEAN, NEW c, ClientOk(r, session), Mid(q), Rest(r, q, c),
         c \in Call => /\ Fit(q.call[c], session)
                       /\ c \in Operation /\ q.call[c].st # "free" => q.call[c].op # "register",
         q.process # NoProcess => q.call[q.process].told = 0 \/ (q.process = r.process /\ q.process # c),
         session /\ q.registering => ~q.proxy[Main].path,
         \A x \in q.ended : x.told <= 2
  PROVE  ClientOk(q, session)
  <1>1. Calls(q, session)
    BY RestFit DEF ClientOk
  <1>2. q.process # NoProcess => q.call[q.process].told = 0
    <2> SUFFICES ASSUME q.process # NoProcess, q.process = r.process, q.process # c
                 PROVE  q.call[q.process].told = 0
      OBVIOUS
    <2>1. r.call[q.process].told = 0 /\ q.process \in Operation
      BY DEF ClientOk, Mid, AnyClient
    <2>2. Moves(r.call[q.process], q.call[q.process])
      BY <2>1 DEF Rest
    <2> QED
      BY <2>1, <2>2, FreeCallType DEF Moves, CallKeeps
  <1> QED
    BY <1>1, <1>2 DEF ClientOk

LEMMA NowIs ==
  ASSUME NEW r, NEW session, ClientOk(r, session), NEW n, n = [r EXCEPT !.ended = {}]
  PROVE  /\ ClientOk(n, session) /\ Quiet(n) /\ n.ended = {}
         /\ n.call = r.call /\ n.proxy = r.proxy /\ n.link = r.link /\ n.service = r.service
         /\ n.starting = r.starting /\ n.state = r.state /\ n.info = r.info /\ n.known = r.known
         /\ n.registering = r.registering /\ n.process = r.process /\ n.methods = r.methods
  <1>1. /\ n \in AnyClient /\ n.ended = {}
        /\ n.call = r.call /\ n.proxy = r.proxy /\ n.link = r.link /\ n.service = r.service
        /\ n.starting = r.starting /\ n.state = r.state /\ n.info = r.info /\ n.known = r.known
        /\ n.registering = r.registering /\ n.process = r.process /\ n.methods = r.methods
    BY DEF ClientOk, Mid, AnyClient
  <1>2. Mid(n) /\ Calls(n, session)
    BY <1>1 DEF ClientOk, Mid, Calls
  <1>3. Quiet(n)
    BY <1>2 DEF Calls, Fit, Quiet
  <1> QED
    BY <1>1, <1>2, <1>3 DEF ClientOk

LEMMA RestSelf ==
  ASSUME NEW r, Mid(r), NEW c
  PROVE  Rest(r, r, c)
  BY KeepsSelf, Slots DEF Rest, Moves, GoesOn, Mid, AnyClient

LEMMA RestReplies ==
  ASSUME NEW r, NEW q, NEW c, NEW in, NEW in2, Rest(r, q, c), Replies(r, in),
         \A i \in DOMAIN in2 : IsReply(in2[i]) => /\ in2[i].call \in Call /\ in2[i].call # c
                                                  /\ \E j \in DOMAIN in : IsReply(in[j]) /\ in[j].call = in2[i].call
  PROVE  Replies(q, in2)
  <1> SUFFICES ASSUME NEW i \in DOMAIN in2, IsReply(in2[i])
               PROVE  q.call[in2[i].call].st = "sent" /\ ~q.call[in2[i].call].lost
    BY DEF Replies
  <1>1. PICK j \in DOMAIN in : IsReply(in[j]) /\ in[j].call = in2[i].call
    OBVIOUS
  <1>2. r.call[in2[i].call].st = "sent" /\ ~r.call[in2[i].call].lost
    BY <1>1 DEF Replies
  <1> QED
    BY <1>2, Slots DEF Rest, Moves, GoesOn, CallKeeps

\* The operations that are free stay so.
LEMMA RestFree ==
  ASSUME NEW r, Mid(r), NEW q, Mid(q), NEW c, Rest(r, q, c)
  PROVE  /\ \A e \in Operation : e # c /\ r.call[e].st = "free" => q.call[e].st = "free"
         /\ \A e \in Operation : e # c /\ q.call[e].st # "free" => r.call[e].st # "free"
                                                                   /\ q.call[e].op = r.call[e].op
  <1>1. \A e \in Operation : r.call[e] \in AnyCall /\ q.call[e] \in AnyCall
    BY Slots DEF Mid, AnyClient
  <1> QED
    BY <1>1, FreeCallType DEF Rest, Moves, CallKeeps

-----------------------------------------------------------------------------
\* The inbox.

LEMMA MessageType ==
  ASSUME NEW m \in Message
  PROVE  /\ IsReply(m) => /\ m.call \in Call /\ m.result \in {"ok", "denied", "unknown"}
                          /\ m.info \in Version
         /\ m.type \in {"reply", "updated", "removed", "unregistered"}
  BY DEF Message, IsReply

LEMMA InboxIs ==
  ASSUME NEW in \in Seq(Message)
  PROVE  /\ DOMAIN in = 1..Len(in) /\ Len(in) \in Nat
         /\ \A i \in DOMAIN in : in[i] \in Message
         /\ IsFiniteSet(UpdatesIn(in)) /\ Cardinality(UpdatesIn(in)) \in Nat
  <1>1. DOMAIN in = 1..Len(in) /\ Len(in) \in Nat /\ \A i \in DOMAIN in : in[i] \in Message
    BY LenProperties, ElementOfSeq
  <1>2. IsFiniteSet(1..Len(in))
    BY <1>1, FS_Interval
  <1>3. UpdatesIn(in) \subseteq 1..Len(in)
    BY <1>1 DEF UpdatesIn
  <1>4. IsFiniteSet(UpdatesIn(in))
    BY <1>2, <1>3, FS_Subset
  <1> QED
    BY <1>1, <1>4, FS_CardinalityType

LEMMA TailIs ==
  ASSUME NEW in \in Seq(Message), in # << >>
  PROVE  /\ Tail(in) \in Seq(Message) /\ Head(in) = in[1] /\ Head(in) \in Message
         /\ 1 \in DOMAIN in /\ Len(Tail(in)) = Len(in) - 1
         /\ \A i \in DOMAIN Tail(in) : i + 1 \in DOMAIN in /\ Tail(in)[i] = in[i + 1]
         /\ \A i \in DOMAIN in : i # 1 => i - 1 \in DOMAIN Tail(in) /\ Tail(in)[i - 1] = in[i]
  <1>1. /\ Head(in) \in Message /\ Tail(in) \in Seq(Message) /\ Len(Tail(in)) = Len(in) - 1
        /\ \A i \in 1..Len(Tail(in)) : Tail(in)[i] = in[i + 1]
    BY HeadTailProperties
  <1>2. Len(in) \in Nat /\ Len(in) # 0 /\ DOMAIN in = 1..Len(in)
    BY EmptySeq, LenProperties
  <1>3. DOMAIN Tail(in) = 1..Len(Tail(in))
    BY <1>1, LenProperties
  <1>4. Head(in) = in[1]
    OBVIOUS
  <1> QED
    BY <1>1, <1>2, <1>3, <1>4

LEMMA TailUpdates ==
  ASSUME NEW in \in Seq(Message), in # << >>
  PROVE  /\ Cardinality(UpdatesIn(Tail(in))) <= Cardinality(UpdatesIn(in))
         /\ Head(in).type = "updated" => Cardinality(UpdatesIn(Tail(in))) + 1 <= Cardinality(UpdatesIn(in))
  <1>1. PICK S : S = UpdatesIn(in) \ {1}
    OBVIOUS
  <1>2. PICK T : T = UpdatesIn(Tail(in))
    OBVIOUS
  <1>3. IsFiniteSet(UpdatesIn(in)) /\ Cardinality(UpdatesIn(in)) \in Nat /\ DOMAIN in = 1..Len(in)
    BY InboxIs
  <1>4. /\ IsFiniteSet(S)
        /\ Cardinality(S) = IF 1 \in UpdatesIn(in) THEN Cardinality(UpdatesIn(in)) - 1 ELSE Cardinality(UpdatesIn(in))
    BY <1>1, <1>3, FS_RemoveElement
  <1>5. Tail(in) \in Seq(Message)
    BY TailIs
  <1>6. DOMAIN Tail(in) = 1..Len(Tail(in)) /\ Len(Tail(in)) \in Nat
    BY <1>5, InboxIs
  <1>7. [i \in T |-> i + 1] \in Injection(T, S)
    <2>1. \A i \in T : i \in Nat /\ i >= 1 /\ i + 1 \in S
      <3> SUFFICES ASSUME NEW i \in T PROVE i \in Nat /\ i >= 1 /\ i + 1 \in S
        OBVIOUS
      <3>1. i \in DOMAIN Tail(in) /\ Tail(in)[i].type = "updated"
        BY <1>2 DEF UpdatesIn
      <3>2. i + 1 \in DOMAIN in /\ in[i + 1].type = "updated"
        BY <3>1, TailIs
      <3>3. i \in Nat /\ i >= 1
        BY <1>6, <3>1
      <3> QED
        BY <1>1, <3>2, <3>3 DEF UpdatesIn
    <2>2. [i \in T |-> i + 1] \in [T -> S]
      BY <2>1
    <2>3. \A i, j \in T : [x \in T |-> x + 1][i] = [x \in T |-> x + 1][j] => i = j
      BY <2>1
    <2> QED
      BY <2>2, <2>3 DEF Injection, IsInjective
  <1>8. Cardinality(T) <= Cardinality(S)
    BY <1>4, <1>7, FS_Injection
  <1>9. Head(in).type = "updated" => 1 \in UpdatesIn(in)
    BY TailIs DEF UpdatesIn
  <1>10. Cardinality(T) \in Nat
    BY <1>2, <1>5, InboxIs
  <1> QED
    BY <1>2, <1>3, <1>4, <1>8, <1>9, <1>10

LEMMA AppendIs ==
  ASSUME NEW in \in Seq(Message), NEW m \in Message
  PROVE  LET in2 == Append(in, m) IN
         /\ in2 \in Seq(Message) /\ Len(in2) = Len(in) + 1 /\ in2[Len(in) + 1] = m
         /\ DOMAIN in2 = 1..(Len(in) + 1)
         /\ \A i \in DOMAIN in : i \in DOMAIN in2 /\ in2[i] = in[i] /\ i # Len(in) + 1
         /\ \A i \in DOMAIN in2 : i \in DOMAIN in \/ i = Len(in) + 1
  <1>1. PICK in2 : in2 = Append(in, m)
    OBVIOUS
  <1>2. /\ in2 \in Seq(Message) /\ Len(in2) = Len(in) + 1 /\ in2[Len(in) + 1] = m
        /\ \A i \in 1..Len(in) : in2[i] = in[i]
    BY <1>1, AppendProperties
  <1>3. DOMAIN in2 = 1..Len(in2) /\ DOMAIN in = 1..Len(in) /\ Len(in) \in Nat
    BY <1>2, InboxIs
  <1> QED
    BY <1>1, <1>2, <1>3

LEMMA AppendUpdates ==
  ASSUME NEW in \in Seq(Message), NEW m \in Message
  PROVE  /\ m.type # "updated" => Cardinality(UpdatesIn(Append(in, m))) <= Cardinality(UpdatesIn(in))
         /\ Cardinality(UpdatesIn(Append(in, m))) <= Cardinality(UpdatesIn(in)) + 1
  <1>1. IsFiniteSet(UpdatesIn(in)) /\ Cardinality(UpdatesIn(in)) \in Nat
    BY InboxIs
  <1>2. PICK in2 : in2 = Append(in, m)
    OBVIOUS
  <1>3. /\ in2[Len(in) + 1] = m
        /\ \A i \in DOMAIN in : i \in DOMAIN in2 /\ in2[i] = in[i] /\ i # Len(in) + 1
        /\ \A i \in DOMAIN in2 : i \in DOMAIN in \/ i = Len(in) + 1
    BY <1>2, AppendIs
  <1>4. UpdatesIn(in2) \subseteq UpdatesIn(in) \cup {Len(in) + 1}
    BY <1>3 DEF UpdatesIn
  <1>5. m.type # "updated" => UpdatesIn(in2) \subseteq UpdatesIn(in)
    BY <1>3 DEF UpdatesIn
  <1>6. /\ IsFiniteSet(UpdatesIn(in) \cup {Len(in) + 1})
        /\ Cardinality(UpdatesIn(in) \cup {Len(in) + 1}) <= Cardinality(UpdatesIn(in)) + 1
    <2>1. /\ IsFiniteSet(UpdatesIn(in) \cup {Len(in) + 1})
          /\ Cardinality(UpdatesIn(in) \cup {Len(in) + 1}) =
               IF Len(in) + 1 \in UpdatesIn(in) THEN Cardinality(UpdatesIn(in)) ELSE Cardinality(UpdatesIn(in)) + 1
      BY <1>1, FS_AddElement
    <2> QED
      BY <1>1, <2>1
  <1>7. Cardinality(UpdatesIn(in2)) <= Cardinality(UpdatesIn(in) \cup {Len(in) + 1})
    BY <1>4, <1>6, FS_Subset
  <1>8. m.type # "updated" => Cardinality(UpdatesIn(in2)) <= Cardinality(UpdatesIn(in))
    BY <1>1, <1>5, FS_Subset
  <1>9. Cardinality(UpdatesIn(in2)) \in Nat /\ Cardinality(UpdatesIn(in) \cup {Len(in) + 1}) \in Nat
    BY <1>2, <1>6, AppendIs, InboxIs, FS_CardinalityType
  <1> QED
    BY <1>1, <1>2, <1>6, <1>7, <1>8, <1>9

LEMMA RoomIs ==
  ASSUME NEW r, NEW in
  PROVE  /\ IsFiniteSet(FreeCalls(r, Operation)) /\ Cardinality(FreeCalls(r, Operation)) \in Nat
         /\ IsFiniteSet(Unserved(r, in)) /\ Cardinality(Unserved(r, in)) \in Nat
         /\ IsFiniteSet(Operation)
  <1>1. IsFiniteSet(Operation)
    BY CallsAssumption
  <1>2. FreeCalls(r, Operation) \subseteq Operation /\ Unserved(r, in) \subseteq Operation
    BY DEF FreeCalls, Unserved
  <1>3. IsFiniteSet(FreeCalls(r, Operation)) /\ IsFiniteSet(Unserved(r, in))
    BY <1>1, <1>2, FS_Subset
  <1> QED
    BY <1>1, <1>3, FS_CardinalityType

LEMMA RoomKeeps ==
  ASSUME NEW r, NEW q, NEW in \in Seq(Message), NEW in2 \in Seq(Message), RoomLeft(r, in),
         FreeCalls(r, Operation) \subseteq FreeCalls(q, Operation),
         Unserved(q, in2) \subseteq Unserved(r, in),
         Cardinality(UpdatesIn(in2)) <= Cardinality(UpdatesIn(in))
  PROVE  RoomLeft(q, in2)
  <1>1. Cardinality(FreeCalls(r, Operation)) <= Cardinality(FreeCalls(q, Operation))
    BY RoomIs, FS_Subset
  <1>2. Cardinality(Unserved(q, in2)) <= Cardinality(Unserved(r, in))
    BY RoomIs, FS_Subset
  <1>3. /\ Cardinality(FreeCalls(r, Operation)) \in Nat /\ Cardinality(FreeCalls(q, Operation)) \in Nat
        /\ Cardinality(Unserved(q, in2)) \in Nat /\ Cardinality(Unserved(r, in)) \in Nat
        /\ Cardinality(UpdatesIn(in2)) \in Nat /\ Cardinality(UpdatesIn(in)) \in Nat
    BY RoomIs, InboxIs
  <1> QED
    BY <1>1, <1>2, <1>3 DEF RoomLeft

\* A call takes a place.
LEMMA RoomTaken ==
  ASSUME NEW r, NEW q, NEW c, NEW S, IsFiniteSet(S), NEW in2 \in Seq(Message),
         FreeCalls(r, Operation) \ {c} \subseteq FreeCalls(q, Operation),
         Unserved(q, in2) \subseteq S,
         Cardinality(FreeCalls(r, Operation)) >= Cardinality(S) + Cardinality(UpdatesIn(in2)) + 1
  PROVE  RoomLeft(q, in2)
  <1>1. /\ IsFiniteSet(FreeCalls(r, Operation) \ {c})
        /\ Cardinality(FreeCalls(r, Operation) \ {c}) >= Cardinality(FreeCalls(r, Operation)) - 1
    <2>1. /\ IsFiniteSet(FreeCalls(r, Operation) \ {c})
          /\ Cardinality(FreeCalls(r, Operation) \ {c}) =
               IF c \in FreeCalls(r, Operation) THEN Cardinality(FreeCalls(r, Operation)) - 1
               ELSE Cardinality(FreeCalls(r, Operation))
      BY RoomIs, FS_RemoveElement
    <2>2. Cardinality(FreeCalls(r, Operation)) \in Nat
      BY RoomIs
    <2> QED
      BY <2>1, <2>2
  <1>2. Cardinality(FreeCalls(r, Operation) \ {c}) <= Cardinality(FreeCalls(q, Operation))
    BY RoomIs, FS_Subset
  <1>3. Cardinality(Unserved(q, in2)) <= Cardinality(S)
    BY FS_Subset
  <1>4. /\ Cardinality(FreeCalls(r, Operation)) \in Nat /\ Cardinality(FreeCalls(q, Operation)) \in Nat
        /\ Cardinality(Unserved(q, in2)) \in Nat /\ Cardinality(S) \in Nat
        /\ Cardinality(UpdatesIn(in2)) \in Nat
        /\ Cardinality(FreeCalls(r, Operation) \ {c}) \in Nat
    BY <1>1, RoomIs, InboxIs, FS_CardinalityType
  <1> QED
    BY <1>1, <1>2, <1>3, <1>4 DEF RoomLeft

LEMMA NonEmpty ==
  ASSUME NEW S, IsFiniteSet(S), NEW T, IsFiniteSet(T), Cardinality(S) > Cardinality(T)
  PROVE  S # {} /\ Cardinality(S) >= 1
  <1>1. Cardinality(S) \in Nat /\ Cardinality(T) \in Nat
    BY FS_CardinalityType
  <1> QED
    BY <1>1, FS_EmptySet

LEMMA MinFree ==
  ASSUME NEW r, FreeCalls(r, Operation) # {}, NEW c, c = Min(FreeCalls(r, Operation))
  PROVE  c \in Operation /\ r.call[c].st = "free"
  <1>1. FreeCalls(r, Operation) \subseteq Nat
    BY CallsAssumption DEF FreeCalls
  <1>2. c \in FreeCalls(r, Operation)
    BY <1>1, MinIn
  <1> QED
    BY <1>2 DEF FreeCalls

-----------------------------------------------------------------------------
\* The application's calls.

\* A new call is made in q.
Poses(r, q, c, op) ==
    /\ Mid(q) /\ q.ended = r.ended /\ SameMain(r, q)
    /\ Rest(r, q, c) /\ IsNew(r, q.call[c], op)

LEMMA CallAskedPoses ==
  ASSUME NEW r, NEW q, NEW c, NEW op, CallAsked(r, q, c, op)
  PROVE  Poses(r, q, c, op)
  BY DEF CallAsked, Others, Poses, Rest, Moves

LEMMA PosesOk ==
  ASSUME NEW r, NEW q, NEW session \in BOOLEAN, NEW c \in Operation, NEW op,
         ClientOk(r, session), r.ended = {}, Poses(r, q, c, op), op # "register",
         q.process \in {r.process, c},
         session /\ q.registering => ~q.proxy[Main].path
  PROVE  ClientOk(q, session)
  <1>1. Fit(q.call[c], session) /\ q.call[c].op # "register" /\ q.call[c].told = 0
    BY DEF Poses, IsNew, Fit
  <1>2. Mid(q) /\ Rest(r, q, c) /\ q.ended = {}
    BY DEF Poses
  <1>3. q.process # NoProcess => q.call[q.process].told = 0 \/ (q.process = r.process /\ q.process # c)
    BY <1>1
  <1>4. \A x \in q.ended : x.told <= 2
    BY <1>2
  <1> QED
    BY <1>1, <1>2, <1>3, <1>4, RestOk

LEMMA NowStep ==
  ASSUME Inv, ClientOnly, k' = Now
  PROVE  Inv' /\ k'.ended = {}
  <1>1. ClientOk(k', IsSession) /\ k'.ended = {} /\ k'.call = k.call
    BY NowIs DEF Inv, Now
  <1>2. FreeCalls(k', Operation) = FreeCalls(k, Operation) /\ Unserved(k', inbox) = Unserved(k, inbox)
    BY <1>1 DEF FreeCalls, Unserved
  <1>3. RoomLeft(k', inbox) /\ Replies(k', inbox)
    BY <1>1, <1>2 DEF Inv, RoomLeft, Replies
  <1> QED
    BY <1>1, <1>3 DEF Inv, ClientOnly, IsSession, LostOk, LostType

LEMMA PoseStepOk ==
  ASSUME Inv, ClientOnly, NEW c \in Operation, k.call[c].st = "free", NEW op, op # "register",
         NEW n, n = Now, Poses(n, k', c, op), ClientOk(k', IsSession),
         Cardinality(FreeCalls(k, Operation)) > Following,
         op = "store" => Cardinality(FreeCalls(k, Operation)) > Following + 1
  PROVE  Inv' /\ k'.ended = {}
  <1>1. /\ ClientOk(n, IsSession) /\ n.ended = {} /\ n.call = k.call /\ n.process = k.process
        /\ IsSession \in BOOLEAN
    BY NowIs DEF Inv, Now, IsSession
  <1>3. /\ Mid(n) /\ Mid(k') /\ Rest(n, k', c) /\ k'.ended = {} /\ inbox \in Seq(Message)
    BY <1>1 DEF ClientOk, Poses, Inv
  <1>4. /\ \A e \in Operation : e # c /\ k.call[e].st = "free" => k'.call[e].st = "free"
        /\ \A e \in Operation : e # c /\ k'.call[e].st # "free" => k.call[e].st # "free"
                                                                    /\ k'.call[e].op = k.call[e].op
    BY <1>1, <1>3, RestFree
  <1>5. Replies(k', inbox)
    <2>1. Replies(n, inbox)
      BY <1>1 DEF Inv, Replies
    <2>2. \A i \in DOMAIN inbox : IsReply(inbox[i]) => inbox[i].call \in Call /\ inbox[i].call # c
      <3> SUFFICES ASSUME NEW i \in DOMAIN inbox, IsReply(inbox[i])
                   PROVE  inbox[i].call \in Call /\ inbox[i].call # c
        OBVIOUS
      <3>1. inbox[i] \in Message
        BY <1>3, InboxIs
      <3>2. inbox[i].call \in Call
        BY <3>1, MessageType
      <3>3. k.call[inbox[i].call].st = "sent"
        BY DEF Inv, Replies
      <3> QED
        BY <3>2, <3>3
    <2> QED
      BY <1>3, <2>1, <2>2, RestReplies
  <1>6. RoomLeft(k', inbox)
    <2>1. PICK S : S = IF op = "store" THEN Storing \cup {c} ELSE Storing
      OBVIOUS
    <2>2. IsFiniteSet(Storing) /\ Cardinality(Storing) \in Nat
      <3>1. Storing \subseteq Operation
        BY DEF Storing
      <3>2. IsFiniteSet(Operation)
        BY RoomIs
      <3>3. IsFiniteSet(Storing)
        BY <3>1, <3>2, FS_Subset
      <3> QED
        BY <3>3, FS_CardinalityType
    <2>3. /\ IsFiniteSet(S) /\ Cardinality(S) \in Nat
          /\ Cardinality(S) <= Cardinality(Storing) + (IF op = "store" THEN 1 ELSE 0)
      <3>1. /\ IsFiniteSet(Storing \cup {c})
            /\ Cardinality(Storing \cup {c}) = IF c \in Storing THEN Cardinality(Storing)
                                               ELSE Cardinality(Storing) + 1
        BY <2>2, FS_AddElement
      <3> QED
        BY <2>1, <2>2, <3>1
    <2>4. FreeCalls(k, Operation) \ {c} \subseteq FreeCalls(k', Operation)
      BY <1>4 DEF FreeCalls
    <2>5. Unserved(k', inbox) \subseteq S
      <3>1. k'.call[c].op = op
        BY DEF Poses, IsNew
      <3> QED
        BY <1>4, <2>1, <3>1 DEF Unserved, Storing
    <2>6. /\ Cardinality(FreeCalls(k, Operation)) \in Nat /\ Cardinality(UpdatesIn(inbox)) \in Nat
          /\ Following = Cardinality(UpdatesIn(inbox)) + Cardinality(Storing)
      BY <1>3, RoomIs, InboxIs DEF Following, Signals, UpdatesIn
    <2>7. Cardinality(FreeCalls(k, Operation)) >= Cardinality(S) + Cardinality(UpdatesIn(inbox)) + 1
      BY <2>2, <2>3, <2>6
    <2> QED
      BY <1>3, <2>3, <2>4, <2>5, <2>7, RoomTaken
  <1> QED
    BY <1>3, <1>5, <1>6 DEF Inv, ClientOnly, IsSession, LostOk, LostType

LEMMA PoseStep ==
  ASSUME Inv, ClientOnly, NEW c \in Operation, k.call[c].st = "free", NEW op, op # "register",
         NEW n, n = Now, Poses(n, k', c, op), k'.process \in {k.process, c},
         IsSession /\ k'.registering => ~k'.proxy[Main].path,
         Cardinality(FreeCalls(k, Operation)) > Following,
         op = "store" => Cardinality(FreeCalls(k, Operation)) > Following + 1
  PROVE  Inv' /\ k'.ended = {}
  <1>1. /\ ClientOk(n, IsSession) /\ n.ended = {} /\ n.process = k.process
        /\ IsSession \in BOOLEAN
    BY NowIs DEF Inv, Now, IsSession
  <1>2. ClientOk(k', IsSession)
    BY <1>1, PosesOk
  <1> QED
    BY <1>2, PoseStepOk

LEMMA RoomGives ==
  ASSUME Inv, Room, NEW n, n = Now
  PROVE  /\ FreeCalls(n, Operation) # {} /\ FreeCalls(n, Operation) = FreeCalls(k, Operation)
         /\ Cardinality(FreeCalls(k, Operation)) > Following
         /\ HasService(n)
  <1>1. n.call = k.call /\ n.proxy = k.proxy
    BY NowIs DEF Inv, Now
  <1>2. FreeCalls(n, Operation) = FreeCalls(k, Operation)
    BY <1>1 DEF FreeCalls
  <1>3. Following \in Nat
    <2>1. Storing \subseteq Operation /\ IsFiniteSet(Operation)
      BY RoomIs DEF Storing
    <2>2. IsFiniteSet(Storing)
      BY <2>1, FS_Subset
    <2>3. Cardinality(Storing) \in Nat
      BY <2>2, FS_CardinalityType
    <2>4. Cardinality(UpdatesIn(inbox)) \in Nat
      BY InboxIs DEF Inv
    <2> QED
      BY <2>3, <2>4 DEF Following, Signals, UpdatesIn
  <1>4. Cardinality(FreeCalls(k, Operation)) > Following
    BY DEF Room
  <1>5. FreeCalls(k, Operation) # {}
    <2>1. Cardinality(FreeCalls(k, Operation)) \in Nat /\ IsFiniteSet(FreeCalls(k, Operation))
      BY RoomIs
    <2> QED
      BY <1>3, <1>4, <2>1, FS_EmptySet
  <1>6. {s \in Service : ~k.proxy[s].used} # {}
    <2>1. IsFiniteSet({s \in Service : ~k.proxy[s].used})
      BY CallsAssumption, FS_Subset
    <2>2. IsFiniteSet(Retried)
      BY RoomIs, FS_Subset DEF Retried
    <2> QED
      BY <2>1, <2>2, NonEmpty DEF Room
  <1>7. HasService(n)
    BY <1>1, <1>6 DEF HasService
  <1> QED
    BY <1>2, <1>4, <1>5, <1>7

\* What a new call of the identity leaves alone.
Posed(r, q, c, op) ==
    /\ Poses(r, q, c, op)
    /\ q.info = r.info /\ q.known = r.known /\ q.process = r.process /\ q.registering = r.registering

LEMMA IdentityPoses ==
  ASSUME NEW r, Mid(r), NEW c \in Operation, NEW op \in Ops, NEW d \in BOOLEAN,
         CanRegister(r, r.state = "PendingRegistration"), NEW q, q = CallIdentity(r, c, op, d)
  PROVE  Posed(r, q, c, op) /\ IdentityAsks(r, q)
  <1>1. CallAsked(r, q, c, op) /\ IdentityAsks(r, q)
    BY CallIdentityAsks
  <1>2. Poses(r, q, c, op)
    BY <1>1, CallAskedPoses
  <1> QED
    BY <1>1, <1>2 DEF Posed, IdentityAsks, CallAsked, Others

LEMMA UpdateContentsPoses ==
  ASSUME NEW r, Mid(r), NEW d \in BOOLEAN, FreeCalls(r, Operation) # {},
         CanRegister(r, r.state = "PendingRegistration"),
         NEW c, c = Min(FreeCalls(r, Operation)), NEW q, q = UpdateContents(r, d)
  PROVE  Posed(r, q, c, "getInfo") /\ q.state = "PendingUpdate" /\ c \in Operation
  <1>1. PICK z : z = CallIdentity(r, c, "getInfo", d)
    OBVIOUS
  <1>2. c \in Operation /\ "getInfo" \in Ops
    BY MinFree DEF Ops
  <1>3. Posed(r, z, c, "getInfo") /\ Mid(z)
    BY <1>1, <1>2, IdentityPoses DEF Posed, Poses
  <1>4. q = [z EXCEPT !.state = "PendingUpdate"] /\ "PendingUpdate" \in IdentityStates
    BY <1>1 DEF UpdateContents, IdentityStates
  <1>5. /\ Mid(q) /\ q.state = "PendingUpdate" /\ q.call = z.call /\ q.proxy = z.proxy /\ q.link = z.link
        /\ q.ended = z.ended /\ q.info = z.info /\ q.known = z.known
        /\ q.registering = z.registering /\ q.process = z.process
    BY <1>3, <1>4, StateSet
  <1> QED
    BY <1>2, <1>3, <1>5 DEF Posed, Poses, SameMain, Rest, Conn

\* A call of the application on an identity.
LEMMA IdentityPoseStep ==
  ASSUME Inv, ClientOnly, IsIdentity, Room, NEW n, n = Now, NEW c, c = Min(FreeCalls(n, Operation)),
         NEW op, op # "register", Posed(n, k', c, op),
         op = "store" => Cardinality(FreeCalls(k, Operation)) > Following + 1
  PROVE  Inv' /\ k'.ended = {}
  <1>1. n.call = k.call /\ n.process = k.process
    BY NowIs DEF Inv, Now
  <1>2. FreeCalls(n, Operation) # {} /\ Cardinality(FreeCalls(k, Operation)) > Following
    BY RoomGives
  <1>3. c \in Operation /\ k.call[c].st = "free"
    BY <1>1, <1>2, MinFree
  <1> QED
    BY <1>1, <1>2, <1>3, PoseStep DEF Posed, IsIdentity

LEMMA QueryInv == Inv /\ Query => Inv' /\ k'.ended = {}
  <1> SUFFICES ASSUME Inv, Query PROVE Inv' /\ k'.ended = {}
    OBVIOUS
  <1>1. PICK n : n = Now
    OBVIOUS
  <1>2. Mid(n) /\ n.state = k.state /\ daemon \in BOOLEAN
    BY <1>1, NowIs DEF Inv, Now, ClientOk
  <1>3. CASE k.state = "Ready"
    BY <1>1, <1>2, <1>3, NowStep DEF Query, QueryInfo
  <1>4. CASE k.state # "Ready"
    <2>1. k' = UpdateContents(n, daemon)
      BY <1>1, <1>2, <1>4 DEF Query, QueryInfo
    <2>2. FreeCalls(n, Operation) # {} /\ HasService(n)
      BY <1>1, RoomGives DEF Query
    <2>3. PICK c : c = Min(FreeCalls(n, Operation))
      OBVIOUS
    <2>4. Posed(n, k', c, "getInfo")
      BY <1>2, <2>1, <2>2, <2>3, UpdateContentsPoses DEF CanRegister
    <2> QED
      BY <1>1, <2>3, <2>4, IdentityPoseStep DEF Query
  <1> QED
    BY <1>3, <1>4

LEMMA CallIdentityInv ==
  ASSUME Inv, IsIdentity, Room, ClientOnly, NEW op \in Ops \ {"register"},
         op = "store" => Cardinality(FreeCalls(k, Operation)) > Following + 1,
         NEW n, n = Now, k' = CallIdentity(n, Min(FreeCalls(n, Operation)), op, daemon)
  PROVE  Inv' /\ k'.ended = {}
  <1>1. Mid(n) /\ daemon \in BOOLEAN
    BY NowIs DEF Inv, Now, ClientOk
  <1>2. FreeCalls(n, Operation) # {} /\ HasService(n)
    BY RoomGives
  <1>3. PICK c : c = Min(FreeCalls(n, Operation))
    OBVIOUS
  <1>4. c \in Operation
    BY <1>2, <1>3, MinFree
  <1>5. Posed(n, k', c, op)
    BY <1>1, <1>2, <1>3, <1>4, IdentityPoses DEF CanRegister
  <1> QED
    BY <1>3, <1>5, IdentityPoseStep

LEMMA StoreInv == Inv /\ StoreIdentity => Inv' /\ k'.ended = {}
  <1> SUFFICES ASSUME Inv, StoreIdentity PROVE Inv' /\ k'.ended = {}
    OBVIOUS
  <1>1. PICK n : n = Now
    OBVIOUS
  <1>2. Mid(n) /\ daemon \in BOOLEAN
    BY <1>1, NowIs DEF Inv, Now, ClientOk
  <1>3. PICK z : z = IF n.state = "Removed" THEN [n EXCEPT !.state = "NeedsRegistration"] ELSE n
    OBVIOUS
  <1>4. /\ Mid(z) /\ z.call = n.call /\ z.proxy = n.proxy /\ z.link = n.link
        /\ z.ended = n.ended /\ z.info = n.info /\ z.known = n.known
        /\ z.registering = n.registering /\ z.process = n.process
    <2>1. "NeedsRegistration" \in IdentityStates
      BY DEF IdentityStates
    <2>2. CASE n.state = "Removed"
      BY <1>2, <1>3, <2>1, <2>2, StateSet
    <2>3. CASE n.state # "Removed"
      BY <1>2, <1>3, <2>3
    <2> QED
      BY <2>2, <2>3
  <1>5. FreeCalls(n, Operation) # {} /\ HasService(n)
    BY <1>1, RoomGives DEF StoreIdentity
  <1>6. PICK c : c = Min(FreeCalls(n, Operation))
    OBVIOUS
  <1>7. c \in Operation /\ "store" \in Ops
    BY <1>5, <1>6, MinFree DEF Ops
  <1>8. k' = CallIdentity(z, c, "store", daemon)
    <2>1. FreeCalls(z, Operation) = FreeCalls(n, Operation)
      BY <1>4 DEF FreeCalls
    <2> QED
      BY <1>1, <1>3, <1>6, <2>1, Zenon DEF StoreIdentity, StoreCredentials
  <1>9. Posed(z, k', c, "store")
    BY <1>2, <1>4, <1>5, <1>7, <1>8, IdentityPoses DEF CanRegister, HasService
  <1>10. Posed(n, k', c, "store")
    BY <1>4, <1>9 DEF Posed, Poses, SameMain, Rest, IsNew
  <1> QED
    BY <1>1, <1>6, <1>10, IdentityPoseStep DEF StoreIdentity

LEMMA VerifyRemoveInv == Inv /\ (Verify \/ RemoveIdentity) => Inv' /\ k'.ended = {}
  <1> SUFFICES ASSUME Inv, Verify \/ RemoveIdentity PROVE Inv' /\ k'.ended = {}
    OBVIOUS
  <1>1. PICK n : n = Now
    OBVIOUS
  <1>2. FreeCalls(n, Operation) = FreeCalls(k, Operation)
    BY <1>1, RoomGives DEF Verify, RemoveIdentity
  <1>3. CASE Verify
    <2>1. "verify" \in Ops \ {"register"} /\ "verify" # "store"
      BY DEF Ops
    <2> QED
      BY <1>1, <1>2, <1>3, <2>1, CallIdentityInv DEF Verify
  <1>4. CASE RemoveIdentity
    <2>1. "remove" \in Ops \ {"register"} /\ "remove" # "store"
      BY DEF Ops
    <2> QED
      BY <1>1, <1>2, <1>4, <2>1, CallIdentityInv DEF RemoveIdentity
  <1> QED
    BY <1>3, <1>4

LEMMA NowFacts ==
  ASSUME Inv, NEW n, n = Now
  PROVE  /\ ClientOk(n, IsSession) /\ Mid(n) /\ Quiet(n) /\ n.ended = {} /\ IsSession \in BOOLEAN
         /\ n.call = k.call /\ n.proxy = k.proxy /\ n.link = k.link /\ n.service = k.service
         /\ n.starting = k.starting /\ n.state = k.state /\ n.info = k.info /\ n.known = k.known
         /\ n.registering = k.registering /\ n.process = k.process /\ n.methods = k.methods
  <1>1. ClientOk(k, IsSession)
    BY DEF Inv
  <1>2. PICK session : session = IsSession
    OBVIOUS
  <1>3. ClientOk(n, session)
    BY <1>1, <1>2, NowIs DEF Now
  <1>4. IsSession \in BOOLEAN
    BY DEF IsSession
  <1>5. Mid(n)
    BY <1>3 DEF ClientOk
  <1> QED
    BY <1>1, <1>2, <1>3, <1>4, <1>5, NowIs DEF Now

\* A call of the session.
LEMMA SessionPoseStep ==
  ASSUME Inv, ClientOnly, IsSession, Room, NEW n, n = Now, NEW r, Mid(r),
         r.call = n.call, r.proxy = n.proxy, r.link = n.link, r.ended = n.ended,
         r.registering = n.registering,
         NEW c, c = Min(FreeCalls(n, Operation)), NEW op \in Ops, op \notin {"register", "store"},
         NEW z, z = Send2Interface(r, c, op, daemon), NEW p \in {k.process, c, NoProcess},
         k' = WithSession(z, z.registering, p),
         r.process \in {k.process, NoProcess},
         p = k.process => r.process = k.process
  PROVE  Inv' /\ k'.ended = {}
  <1>1. n.call = k.call /\ n.process = k.process /\ ClientOk(n, IsSession)
    BY NowFacts
  <1>2. FreeCalls(n, Operation) # {} /\ Cardinality(FreeCalls(k, Operation)) > Following /\ HasService(n)
    BY RoomGives
  <1>3. c \in Operation /\ k.call[c].st = "free"
    BY <1>1, <1>2, MinFree
  <1>4. HasService(r) /\ daemon \in BOOLEAN
    BY <1>2 DEF HasService, Inv
  <1>5. CallAsked(r, z, c, op) /\ SessionAsks(r, z)
    BY <1>3, <1>4, Send2InterfaceAsks DEF CanRegister
  <1>6. Poses(r, z, c, op) /\ Mid(z) /\ SameMain(r, z)
    BY SMTT(20), <1>5, CallAskedPoses DEF Poses
  <1>7. z.registering \in BOOLEAN /\ p \in Operation \cup {NoProcess}
    BY <1>1, <1>3, <1>6 DEF Mid, AnyClient, ClientOk
  <1>8. /\ Mid(k') /\ k'.registering = z.registering /\ k'.process = p
        /\ k'.call = z.call /\ k'.proxy = z.proxy /\ k'.link = z.link /\ k'.ended = z.ended
    BY <1>6, <1>7, SessionSet
  <1>9. Poses(n, k', c, op)
    BY <1>6, <1>8 DEF Poses, SameMain, Rest, IsNew
  <1>10. IsSession /\ k'.registering => ~k'.proxy[Main].path
    <2> SUFFICES ASSUME k'.registering PROVE ~k'.proxy[Main].path
      OBVIOUS
    <2>1. z.registering = r.registering \/ ~r.proxy[Main].path
      BY <1>5 DEF SessionAsks
    <2>2. n.registering => ~n.proxy[Main].path
      BY <1>1 DEF ClientOk
    <2> QED
      BY <1>6, <1>8, <2>1, <2>2 DEF SameMain
  <1> QED
    <2>1. CASE p = NoProcess /\ p \notin {k.process, c}
      <3>1. ClientOk(k', IsSession)
        <4>1. PICK session : session = IsSession
          OBVIOUS
        <4>2. session \in BOOLEAN /\ Mid(k') /\ Rest(n, k', c) /\ k'.ended = {} /\ n.ended = {}
          BY <1>9, <4>1, NowFacts DEF Poses
        <4>3. ClientOk(n, session) /\ (session /\ k'.registering => ~k'.proxy[Main].path)
          BY <1>1, <1>10, <4>1
        <4>4. Fit(k'.call[c], session) /\ k'.call[c].op # "register"
          BY <1>9 DEF Poses, IsNew, Fit
        <4>5. k'.process = NoProcess
          BY <1>8, <2>1
        <4>6. \A x \in k'.ended : x.told <= 2
          BY <4>2
        <4>7. ClientOk(k', session)
          BY <4>2, <4>3, <4>4, <4>5, <4>6, RestOk
        <4> QED
          BY <4>1, <4>7
      <3> QED
        BY <1>2, <1>3, <1>9, <3>1, PoseStepOk
    <2>2. CASE p \in {k.process, c}
      BY <1>2, <1>3, <1>8, <1>9, <1>10, <2>2, PoseStep
    <2> QED
      BY <2>1, <2>2

Sends(r, z, c) == /\ Mid(z) /\ z.process = r.process /\ c \in Operation
                  /\ [z EXCEPT !.process = c] = WithSession(z, z.registering, c)

LEMMA SendIs ==
  ASSUME Inv, Room, NEW n, n = Now, NEW r, Mid(r), r.call = n.call, r.proxy = n.proxy,
         r.registering = n.registering,
         NEW c, c = Min(FreeCalls(n, Operation)), NEW op \in Ops, NEW z, z = Send2Interface(r, c, op, daemon)
  PROVE  Sends(r, z, c)
  <1>1. FreeCalls(n, Operation) # {} /\ HasService(n)
    BY RoomGives
  <1>2. c \in Operation
    BY <1>1, MinFree
  <1>3. HasService(r) /\ daemon \in BOOLEAN
    BY <1>1 DEF HasService, Inv
  <1>4. CallAsked(r, z, c, op)
    BY <1>2, <1>3, Send2InterfaceAsks DEF CanRegister
  <1>5. Mid(z) /\ z.process = r.process
    BY <1>4 DEF CallAsked, Others
  <1>6. [z EXCEPT !.process = c] = WithSession(z, z.registering, c)
    BY ZenonT(30), <1>5 DEF WithSession, Mid, AnyClient
  <1> QED
    BY <1>2, <1>5, <1>6 DEF Sends

LEMMA ProcessInv == Inv /\ ProcessRequest => Inv' /\ k'.ended = {}
  <1> SUFFICES ASSUME Inv, ProcessRequest PROVE Inv' /\ k'.ended = {}
    OBVIOUS
  <1>1. PICK n : n = Now
    OBVIOUS
  <1>2. Mid(n) /\ n.process = k.process /\ k.process = NoProcess /\ "process" \in Ops
    BY <1>1, NowFacts DEF ProcessRequest, Ops
  <1>3. PICK c : c = Min(FreeCalls(n, Operation))
    OBVIOUS
  <1>4. PICK z : z = Send2Interface(n, c, "process", daemon)
    OBVIOUS
  <1>5. IsSession /\ Room /\ ClientOnly
    BY DEF ProcessRequest
  <1>6. k' = [z EXCEPT !.process = c]
    BY <1>1, <1>3, <1>4, Zenon DEF ProcessRequest, Process
  <1>7. k' = WithSession(z, z.registering, c)
    <2>1. Sends(n, z, c)
      BY <1>1, <1>2, <1>3, <1>4, <1>5, SendIs
    <2> QED
      BY <1>6, <2>1 DEF Sends
  <1> QED
    BY <1>1, <1>2, <1>3, <1>4, <1>5, <1>7, SessionPoseStep

LEMMA ChangeIdInv == Inv /\ ChangeId => Inv' /\ k'.ended = {}
  <1> SUFFICES ASSUME Inv, ChangeId PROVE Inv' /\ k'.ended = {}
    OBVIOUS
  <1>1. PICK n : n = Now
    OBVIOUS
  <1>2. Mid(n) /\ n.process = k.process /\ "setId" \in Ops
    BY <1>1, NowFacts DEF Ops
  <1>3. PICK c : c = Min(FreeCalls(n, Operation))
    OBVIOUS
  <1>4. PICK z : z = Send2Interface(n, c, "setId", daemon)
    OBVIOUS
  <1>5. IsSession /\ Room /\ ClientOnly
    BY DEF ChangeId
  <1>6. k' = z
    BY <1>1, <1>3, <1>4, Zenon DEF ChangeId, SetId
  <1>7. k' = WithSession(z, z.registering, k.process) /\ k.process \in {k.process, NoProcess}
    <2>1. Sends(n, z, c)
      BY <1>1, <1>2, <1>3, <1>4, <1>5, SendIs
    <2>2. Mid(z) /\ z.process = n.process
      BY <2>1 DEF Sends
    <2>3. z = WithSession(z, z.registering, z.process)
      BY <2>2, SameSession
    <2> QED
      BY <1>2, <1>6, <2>2, <2>3
  <1> QED
    BY <1>1, <1>2, <1>3, <1>4, <1>5, <1>7, SessionPoseStep

LEMMA CancelSendsInv ==
  ASSUME Inv, IsSession, Room, ClientOnly, NEW n, n = Now, NEW over, over = [n EXCEPT !.process = NoProcess],
         k' = Send2Interface(over, Min(FreeCalls(over, Operation)), "cancel", daemon)
  PROVE  Inv' /\ k'.ended = {}
  <1>1. Mid(n) /\ n.registering \in BOOLEAN /\ "cancel" \in Ops
    <2>1. Mid(n)
      BY NowFacts
    <2> QED
      BY <2>1 DEF Ops, Mid, AnyClient
  <1>2. over = WithSession(n, n.registering, NoProcess) /\ NoProcess \in Operation \cup {NoProcess}
    BY <1>1, SameSession
  <1>3. /\ Mid(over) /\ over.registering = n.registering /\ over.process = NoProcess
        /\ over.call = n.call /\ over.proxy = n.proxy /\ over.link = n.link /\ over.ended = n.ended
    BY <1>1, <1>2, SessionSet
  <1>4. PICK c : c = Min(FreeCalls(n, Operation))
    OBVIOUS
  <1>5. PICK z : z = Send2Interface(over, c, "cancel", daemon)
    OBVIOUS
  <1>6. FreeCalls(over, Operation) = FreeCalls(n, Operation)
    BY <1>3 DEF FreeCalls
  <1>7. k' = z
    BY <1>4, <1>5, <1>6
  <1>8. k' = WithSession(z, z.registering, NoProcess)
    <2>1. Sends(over, z, c)
      BY <1>1, <1>3, <1>4, <1>5, SendIs
    <2>2. Mid(z) /\ z.process = over.process
      BY <2>1 DEF Sends
    <2>3. z = WithSession(z, z.registering, z.process)
      BY <2>2, SameSession
    <2> QED
      BY <1>3, <1>7, <2>2, <2>3
  <1> QED
    <2>1. PICK p : p = NoProcess
      OBVIOUS
    <2>2. p \in {k.process, c, NoProcess} /\ over.process \in {k.process, NoProcess}
          /\ (p = k.process => over.process = k.process)
      BY <1>3, <2>1
    <2>3. "cancel" \notin {"register", "store"}
      OBVIOUS
    <2> QED
      BY ZenonT(30), <1>1, <1>3, <1>4, <1>5, <1>8, <2>1, <2>2, <2>3, SessionPoseStep

\* A query of the service.
LEMMA AskServiceInv == Inv /\ AskService => Inv' /\ k'.ended = {}
  <1> SUFFICES ASSUME Inv, AskService PROVE Inv' /\ k'.ended = {}
    OBVIOUS
  <1>1. PICK n : n = Now
    OBVIOUS
  <1>2. /\ Mid(n) /\ n.process = k.process /\ n.call = k.call /\ "query" \in Ops /\ daemon \in BOOLEAN
        /\ ClientOk(n, IsSession) /\ n.registering = k.registering
    BY <1>1, NowFacts DEF Ops, Inv
  <1>3. PICK c : c = Min(FreeCalls(n, Operation))
    OBVIOUS
  <1>4. IsService /\ Room /\ ClientOnly /\ ~IsSession
    BY DEF AskService, IsService, IsSession
  <1>5. k' = SendRequest(n, c, "query", daemon)
    BY <1>1, <1>3, Zenon DEF AskService, QueryService
  <1>6. FreeCalls(n, Operation) # {} /\ Cardinality(FreeCalls(k, Operation)) > Following
    BY <1>1, <1>4, RoomGives
  <1>7. c \in Operation /\ k.call[c].st = "free"
    BY <1>2, <1>3, <1>6, MinFree
  <1>8. CallAsked(n, k', c, "query")
    BY <1>2, <1>5, <1>7, SendRequestAsks
  <1>9. Poses(n, k', c, "query") /\ k'.process = k.process
    BY <1>2, <1>8, CallAskedPoses DEF CallAsked, Others
  <1> QED
    BY <1>1, <1>4, <1>6, <1>7, <1>9, PoseStep

LEMMA AskMechanismsInv == Inv /\ AskMechanisms => Inv' /\ k'.ended = {}
  <1> SUFFICES ASSUME Inv, AskMechanisms PROVE Inv' /\ k'.ended = {}
    OBVIOUS
  <1>1. PICK n : n = Now
    OBVIOUS
  <1>2. /\ Mid(n) /\ n.process = k.process /\ n.call = k.call /\ "mechanisms" \in Ops /\ daemon \in BOOLEAN
    BY <1>1, NowFacts DEF Ops, Inv
  <1>3. PICK c : c = Min(FreeCalls(n, Operation))
    OBVIOUS
  <1>4. IsService /\ Room /\ ClientOnly /\ ~IsSession
    BY DEF AskMechanisms, IsService, IsSession
  <1>5. PICK z : z = SendRequest(n, c, "mechanisms", daemon)
    OBVIOUS
  <1>6. FreeCalls(n, Operation) # {} /\ Cardinality(FreeCalls(k, Operation)) > Following
    BY <1>1, <1>4, RoomGives
  <1>7. c \in Operation /\ k.call[c].st = "free"
    BY <1>2, <1>3, <1>6, MinFree
  <1>8. CallAsked(n, z, c, "mechanisms")
    BY <1>2, <1>5, <1>7, SendRequestAsks
  <1>9. Poses(n, z, c, "mechanisms") /\ z.process = k.process /\ Mid(z)
    BY <1>2, <1>8, CallAskedPoses DEF CallAsked, Others
  <1>10. k' = [z EXCEPT !.methods = Append(@, c)]
    BY <1>1, <1>3, <1>5, Zenon DEF AskMechanisms, QueryMechanisms
  <1>11. /\ k' \in AnyClient /\ k'.call = z.call /\ k'.proxy = z.proxy /\ k'.link = z.link /\ k'.ended = z.ended
         /\ k'.process = z.process
    <2>1. z \in AnyClient /\ Append(z.methods, c) \in Seq(Operation)
      BY <1>7, <1>9 DEF Mid, AnyClient
    <2> QED
      BY <1>10, <2>1 DEF AnyClient
  <1>12. Poses(n, k', c, "mechanisms") /\ k'.process = k.process
    BY <1>9, <1>11 DEF Poses, Mid, SameMain, Rest
  <1> QED
    BY <1>1, <1>4, <1>6, <1>7, <1>12, PoseStep

\* A request that is cancelled before it has been sent.
Cancelled(r, q, c) ==
    /\ Mid(q) /\ SameButEnded(r, q) /\ q.proxy[Main] = r.proxy[Main] /\ q.link = r.link
    /\ q.call[c] = FreeCall /\ \A e \in Call : e # c => q.call[e] = r.call[e]
    /\ \A x \in q.ended : x \in r.ended \/ x.told = 1

LEMMA ToldFree ==
  ASSUME NEW r, Mid(r), NEW c \in Operation, r.call[c].st = "free"
  PROVE  Cancelled(r, EndCalls(Tell(r, {c}), {c}), c)
  <1>1. r \in AnyClient /\ r.call[c] = FreeCall /\ c \in Call /\ c \notin Proxy
    BY Slots DEF Mid, AnyClient, Proxy
  <1>2. PICK t : t = Tell(r, {c})
    OBVIOUS
  <1>3. PICK cl : cl = [e \in Call |-> IF e \in {c} THEN [r.call[e] EXCEPT !.told = @ + 1] ELSE r.call[e]]
    OBVIOUS
  <1>4. t = [r EXCEPT !.call = cl]
    BY <1>1, <1>2, <1>3 DEF Tell, AnyClient
  <1>5. t.call = cl /\ t.proxy = r.proxy /\ t.ended = r.ended
    BY <1>1, <1>4 DEF AnyClient
  <1>6. PICK x : x = [told |-> t.call[c].told, unnoticed |-> t.call[c].unnoticed]
    OBVIOUS
  <1>7. x = [told |-> 1, unnoticed |-> FALSE]
    <2>1. t.call[c] = [FreeCall EXCEPT !.told = @ + 1]
      BY <1>1, <1>3, <1>5
    <2>2. t.call[c].told = 1 /\ t.call[c].unnoticed = FALSE
      BY <2>1 DEF FreeCall
    <2> QED
      BY <1>6, <2>2
  <1>8. PICK q : q = EndCalls(t, {c})
    OBVIOUS
  <1>9. q = [t EXCEPT !.call = [e \in Call |-> IF e \in {c} THEN FreeCall ELSE t.call[e]],
                      !.proxy = [p \in Proxy |-> IF p \in {c} THEN NoProxy ELSE t.proxy[p]],
                      !.ended = t.ended \cup {[told |-> t.call[e].told, unnoticed |-> t.call[e].unnoticed]
                                              : e \in {c} \cap Operation}]
    <2>1. DOMAIN t = DOMAIN r
      BY <1>4
    <2> QED
      BY <1>1, <1>4, <1>8, <2>1 DEF EndCalls, AnyClient
  <1>10. [e \in Call |-> IF e \in {c} THEN FreeCall ELSE t.call[e]] = r.call
    BY <1>1, <1>3, <1>5 DEF AnyClient
  <1>11. [p \in Proxy |-> IF p \in {c} THEN NoProxy ELSE t.proxy[p]] = r.proxy
    BY <1>1, <1>5 DEF AnyClient
  <1>12. {[told |-> t.call[e].told, unnoticed |-> t.call[e].unnoticed] : e \in {c} \cap Operation} = {x}
    BY <1>6
  <1>13. PICK en : en = r.ended \cup {x}
    OBVIOUS
  <1>14. q = [t EXCEPT !.call = r.call, !.proxy = r.proxy, !.ended = en]
    BY <1>5, <1>9, <1>10, <1>11, <1>12, <1>13
  <1>15. q = [r EXCEPT !.ended = en]
    BY <1>1, <1>4, <1>14 DEF AnyClient
  <1>16. en \in SUBSET [told : Nat, unnoticed : BOOLEAN]
    <2>1. x \in [told : Nat, unnoticed : BOOLEAN]
      BY <1>7
    <2> QED
      BY <1>1, <1>13, <2>1 DEF AnyClient
  <1>17. /\ q \in AnyClient /\ q.call = r.call /\ q.proxy = r.proxy /\ q.link = r.link /\ SameButEnded(r, q)
         /\ q.ended = en
    BY <1>1, <1>15, <1>16 DEF AnyClient, SameButEnded
  <1>18. Mid(q)
    BY <1>17 DEF Mid
  <1>19. /\ q.call[c] = FreeCall /\ (\A e \in Call : e # c => q.call[e] = r.call[e])
         /\ SameButEnded(r, q) /\ q.link = r.link
    BY <1>1, <1>17
  <1>20. \A y \in q.ended : y \in r.ended \/ y.told = 1
    BY <1>7, <1>13, <1>17
  <1>21. Cancelled(r, q, c)
    BY <1>17, <1>18, <1>19, <1>20 DEF Cancelled
  <1> QED
    BY <1>2, <1>8, <1>21

LEMMA ToldQueued ==
  ASSUME NEW r, Mid(r), NEW c \in Operation, r.call[c].st # "free", r.call[c].told = 0
  PROVE  Cancelled(r, EndCalls(Tell(r, {c}), {c}), c)
  <1>1. PICK t : t = Tell(r, {c})
    OBVIOUS
  <1>2. c \in Call /\ r.call[c] \in AnyCall
    BY Slots DEF Mid, AnyClient
  <1>3. /\ Mid(t) /\ SameObject(r, t) /\ t.proxy = r.proxy /\ t.link = r.link
        /\ \A e \in {c} : t.call[e] = [r.call[e] EXCEPT !.told = @ + 1]
        /\ \A e \in Call : e \notin {c} => t.call[e] = r.call[e]
    BY <1>1, <1>2, TellTells
  <1>4. t.call[c].told = 1
    BY <1>2, <1>3 DEF AnyCall
  <1>5. PICK q : q = EndCalls(t, {c})
    OBVIOUS
  <1>6. /\ Mid(q) /\ SameButEnded(t, q) /\ q.link = t.link /\ q.proxy[Main] = t.proxy[Main]
        /\ q.ended = t.ended \cup {[told |-> t.call[e].told, unnoticed |-> t.call[e].unnoticed]
                                   : e \in {c} \cap Operation}
        /\ \A e \in {c} : q.call[e] = FreeCall
        /\ \A e \in Call : e \notin {c} => q.call[e] = t.call[e]
    BY <1>2, <1>3, <1>5, EndCallsEnds
  <1>7. SameButEnded(r, q)
    BY <1>3, <1>6 DEF SameObject, SameButEnded
  <1>8. \A x \in q.ended : x \in r.ended \/ x.told = 1
    BY <1>3, <1>4, <1>6 DEF SameObject
  <1>9. q.call[c] = FreeCall /\ \A e \in Call : e # c => q.call[e] = r.call[e]
    BY <1>3, <1>6
  <1>10. Cancelled(r, q, c)
    BY <1>3, <1>6, <1>7, <1>8, <1>9 DEF Cancelled
  <1> QED
    BY <1>1, <1>5, <1>10

\* A step that makes no call: what it takes from the inbox, it takes for c.
LEMMA OneStep ==
  ASSUME Inv, object' = object, daemon' \in BOOLEAN, remote' \in BOOLEAN, version' \in Version, LostOk',
         NEW n, n = Now, ClientOk(k', IsSession), NEW c, Rest(n, k', c),
         inbox' \in Seq(Message), Once(inbox'),
         Cardinality(UpdatesIn(inbox')) <= Cardinality(UpdatesIn(inbox)),
         \A i \in DOMAIN inbox' : IsReply(inbox'[i]) => /\ inbox'[i].call # c
                                                        /\ \E j \in DOMAIN inbox : inbox[j] = inbox'[i],
         \A j \in DOMAIN inbox : IsReply(inbox[j]) /\ inbox[j].call # c =>
                                     \E i \in DOMAIN inbox' : inbox'[i] = inbox[j],
         c \in Operation /\ k'.call[c].st # "free" =>
             /\ k.call[c].st # "free" /\ k'.call[c].op = k.call[c].op
             /\ \A j \in DOMAIN inbox : IsReply(inbox[j]) /\ inbox[j].call = c => inbox[j].result # "ok"
  PROVE  Inv'
  <1>1. Mid(n) /\ Mid(k') /\ n.call = k.call /\ inbox \in Seq(Message)
    BY NowFacts DEF ClientOk, Inv
  <1>2. /\ \A e \in Operation : e # c /\ n.call[e].st = "free" => k'.call[e].st = "free"
        /\ \A e \in Operation : e # c /\ k'.call[e].st # "free" => n.call[e].st # "free"
                                                                    /\ k'.call[e].op = n.call[e].op
    BY <1>1, RestFree
  <1>3. \A e \in Operation : k'.call[e].st # "free" => k.call[e].st # "free" /\ k'.call[e].op = k.call[e].op
    BY <1>1, <1>2, Slots
  <1>4. FreeCalls(k, Operation) \subseteq FreeCalls(k', Operation)
    BY <1>3 DEF FreeCalls
  <1>5. Unserved(k', inbox') \subseteq Unserved(k, inbox)
    <2> SUFFICES ASSUME NEW e \in Unserved(k', inbox') PROVE e \in Unserved(k, inbox)
      OBVIOUS
    <2>1. /\ e \in Operation /\ k'.call[e].st # "free" /\ k'.call[e].op = "store"
          /\ \A i \in DOMAIN inbox' : IsReply(inbox'[i]) /\ inbox'[i].call = e => inbox'[i].result # "ok"
      BY DEF Unserved
    <2>2. \A j \in DOMAIN inbox : IsReply(inbox[j]) /\ inbox[j].call = e => inbox[j].result # "ok"
      BY <2>1
    <2> QED
      BY <1>3, <2>1, <2>2 DEF Unserved
  <1>6. RoomLeft(k', inbox')
    BY <1>1, <1>4, <1>5, RoomKeeps DEF Inv
  <1>7. Replies(k', inbox')
    <2>1. Replies(n, inbox)
      BY <1>1 DEF Inv, Replies
    <2>2. \A i \in DOMAIN inbox' : IsReply(inbox'[i]) =>
              /\ inbox'[i].call \in Call /\ inbox'[i].call # c
              /\ \E j \in DOMAIN inbox : IsReply(inbox[j]) /\ inbox[j].call = inbox'[i].call
      <3> SUFFICES ASSUME NEW i \in DOMAIN inbox', IsReply(inbox'[i])
                   PROVE  /\ inbox'[i].call \in Call /\ inbox'[i].call # c
                          /\ \E j \in DOMAIN inbox : IsReply(inbox[j]) /\ inbox[j].call = inbox'[i].call
        OBVIOUS
      <3>1. PICK j \in DOMAIN inbox : inbox[j] = inbox'[i]
        OBVIOUS
      <3>2. inbox[j] \in Message
        BY <1>1, InboxIs
      <3>3. inbox[j].call \in Call /\ IsReply(inbox[j])
        BY <3>1, <3>2, MessageType
      <3> QED
        BY <3>1, <3>3
    <2> QED
      BY <2>1, <2>2, RestReplies
  <1> QED
    BY <1>6, <1>7 DEF Inv, IsSession

\* And takes nothing.
LEMMA QuietStep ==
  ASSUME Inv, UNCHANGED <<object, inbox, version>>, daemon' \in BOOLEAN, remote' \in BOOLEAN, LostOk',
         NEW n, n = Now, ClientOk(k', IsSession), NEW c, Rest(n, k', c),
         \A i \in DOMAIN inbox : IsReply(inbox[i]) => inbox[i].call # c,
         c \in Operation /\ k'.call[c].st # "free" => k.call[c].st # "free" /\ k'.call[c].op = k.call[c].op
  PROVE  Inv'
  <1>1. inbox \in Seq(Message) /\ Once(inbox) /\ version \in Version
    BY DEF Inv
  <1>2. Cardinality(UpdatesIn(inbox)) <= Cardinality(UpdatesIn(inbox))
    BY <1>1, InboxIs
  <1>3. PICK in : in = inbox
    OBVIOUS
  <1>4. inbox' = in
    BY <1>3
  <1>5. /\ inbox' \in Seq(Message) /\ Once(inbox')
        /\ Cardinality(UpdatesIn(inbox')) <= Cardinality(UpdatesIn(inbox))
    BY <1>1, <1>2, <1>3, <1>4
  <1>6. /\ \A i \in DOMAIN inbox' : IsReply(inbox'[i]) => /\ inbox'[i].call # c
                                                          /\ \E j \in DOMAIN inbox : inbox[j] = inbox'[i]
        /\ \A j \in DOMAIN inbox : IsReply(inbox[j]) /\ inbox[j].call # c =>
                                       \E i \in DOMAIN inbox' : inbox'[i] = inbox[j]
        /\ \A j \in DOMAIN inbox : IsReply(inbox[j]) /\ inbox[j].call = c => inbox[j].result # "ok"
    BY <1>3, <1>4
  <1>7. object' = object /\ version' \in Version
    BY <1>1
  <1> QED
    BY <1>5, <1>6, <1>7, OneStep

LEMMA ClientOnlyKeeps ==
  ASSUME Inv, ClientOnly
  PROVE  /\ UNCHANGED <<object, inbox, version>> /\ daemon' \in BOOLEAN /\ remote' \in BOOLEAN /\ LostOk'
  BY DEF ClientOnly, Inv, LostOk, LostType

LEMMA CancelInv == Inv /\ CancelRequest => Inv' /\ EndsWell(Now, k')
  <1> SUFFICES ASSUME Inv, CancelRequest PROVE Inv' /\ EndsWell(Now, k')
    OBVIOUS
  <1>1. PICK n : n = Now
    OBVIOUS
  <1>2. /\ Mid(n) /\ n.process = k.process /\ n.call = k.call /\ n.ended = {} /\ daemon \in BOOLEAN
        /\ ClientOk(n, IsSession) /\ n.registering = k.registering
    BY <1>1, NowFacts DEF Inv
  <1>3. IsSession /\ Room /\ ClientOnly
    BY DEF CancelRequest
  <1>4. PICK over : over = [n EXCEPT !.process = NoProcess]
    OBVIOUS
  <1>5. /\ Mid(over) /\ over.registering = n.registering /\ over.process = NoProcess
        /\ over.call = n.call /\ over.proxy = n.proxy /\ over.link = n.link /\ over.ended = n.ended
    <2>1. n.registering \in BOOLEAN
      BY <1>2 DEF Mid, AnyClient
    <2>2. over = WithSession(n, n.registering, NoProcess) /\ NoProcess \in Operation \cup {NoProcess}
      BY <1>2, <1>4, SameSession
    <2> QED
      BY <1>2, <2>1, <2>2, SessionSet
  <1>6. PICK c : c = n.process
    OBVIOUS
  <1>7. k' = IF c # NoProcess /\ ~n.call[c].watched
             THEN IF n.call[c].st = "failing" THEN Tell(over, {c}) ELSE EndCalls(Tell(over, {c}), {c})
             ELSE Send2Interface(over, Min(FreeCalls(over, Operation)), "cancel", daemon)
    <2>1. k' = Cancel(n, daemon)
      BY <1>1 DEF CancelRequest
    <2>2. Cancel(n, daemon) =
              IF n.process # NoProcess /\ ~n.call[n.process].watched
              THEN IF n.call[n.process].st = "failing"
                   THEN Tell([n EXCEPT !.process = NoProcess], {n.process})
                   ELSE EndCalls(Tell([n EXCEPT !.process = NoProcess], {n.process}), {n.process})
              ELSE Send2Interface([n EXCEPT !.process = NoProcess],
                                  Min(FreeCalls(n, Operation)), "cancel", daemon)
      BY Zenon DEF Cancel
    <2>3. FreeCalls(over, Operation) = FreeCalls(n, Operation)
      BY <1>5 DEF FreeCalls
    <2> QED
      BY <1>4, <1>6, <2>1, <2>2, <2>3, Zenon
  <1>8. CASE ~(c # NoProcess /\ ~n.call[c].watched)
    <2>1. k' = Send2Interface(over, Min(FreeCalls(over, Operation)), "cancel", daemon)
      BY <1>7, <1>8
    <2>2. Inv' /\ k'.ended = {}
      BY <1>1, <1>3, <1>4, <2>1, CancelSendsInv
    <2> QED
      BY <2>2 DEF EndsWell
  <1>9. CASE c # NoProcess /\ ~n.call[c].watched
    <2>1. c \in Operation /\ c \in Call /\ n.call[c].told = 0 /\ n.call[c] \in AnyCall
      BY <1>2, <1>6, <1>9, Slots DEF Mid, AnyClient, ClientOk
    <2>2. n.call[c].st # "sent"
      BY <1>2, <1>9, <2>1 DEF Mid
    <2>3. \A i \in DOMAIN inbox : IsReply(inbox[i]) => inbox[i].call # c
      BY <1>2, <2>2 DEF Inv, Replies
    <2>4. Fit(n.call[c], TRUE) /\ (n.call[c].st # "free" => n.call[c].op # "register")
      <3>1. Calls(n, IsSession)
        BY <1>2 DEF ClientOk
      <3> QED
        BY <1>3, <2>1, <3>1 DEF Calls
    <2>5. n.registering => ~n.proxy[Main].path
      BY <1>2, <1>3 DEF ClientOk
    <2>6. ASSUME Mid(k'), k'.registering = n.registering, k'.process = NoProcess,
                 k'.proxy[Main] = n.proxy[Main],
                 \A e \in Call : e # c => k'.call[e] = n.call[e],
                 Fit(k'.call[c], TRUE), k'.call[c].st # "free" => k'.call[c].op = n.call[c].op /\ n.call[c].st # "free",
                 \A x \in k'.ended : x.told = 1
          PROVE  Inv' /\ EndsWell(Now, k')
      <3>1. Rest(n, k', c)
        <4>1. \A e \in Call : n.call[e] \in AnyCall
          BY <1>2 DEF Mid, AnyClient
        <4> QED
          BY <2>6, <4>1, KeepsSelf, Slots DEF Rest, Moves, GoesOn
      <3>2. ClientOk(k', IsSession)
        <4>1. PICK session \in BOOLEAN : session = IsSession
          BY DEF IsSession
        <4>2. ClientOk(n, session) /\ session
          BY <1>2, <1>3, <4>1
        <4>3. c \in Call => /\ Fit(k'.call[c], session)
                            /\ c \in Operation /\ k'.call[c].st # "free" => k'.call[c].op # "register"
          BY <2>4, <2>6, <4>2
        <4>4. /\ Mid(k') /\ k'.process = NoProcess
              /\ session /\ k'.registering => ~k'.proxy[Main].path
              /\ \A x \in k'.ended : x.told <= 2
          BY <2>5, <2>6
        <4>5. ClientOk(k', session)
          BY <3>1, <4>2, <4>3, <4>4, RestOk
        <4> QED
          BY <4>1, <4>5
      <3>3. Inv'
        BY ZenonT(30), <1>1, <1>2, <1>3, <2>3, <2>6, <3>1, <3>2, ClientOnlyKeeps, QuietStep
      <3> QED
        BY <2>6, <3>3 DEF EndsWell, EndedWell
    <2>7. CASE n.call[c].st = "failing"
      <3>1. k' = Tell(over, {c})
        BY <1>7, <1>9, <2>7
      <3>2. Quiet(over)
        BY <1>1, <1>5, NowFacts DEF Quiet
      <3>3. Tells1(over, k', c)
        BY <1>5, <2>1, <2>7, <3>1, <3>2, ToldOne
      <3>4. k'.call[c] \in AnyCall
        BY <2>1, <3>3 DEF Tells1, Mid, AnyClient
      <3>5. Fit(k'.call[c], TRUE)
        BY <1>5, <2>1, <2>4, <2>7, <3>3, <3>4 DEF Fit, Tells1
      <3> QED
        BY <1>2, <1>5, <2>6, <2>7, <3>3, <3>5 DEF Tells1, SameObject
    <2>8. CASE n.call[c].st # "failing"
      <3>1. k' = EndCalls(Tell(over, {c}), {c})
        BY <1>7, <1>9, <2>8
      <3>2. Cancelled(over, k', c)
        BY <1>5, <2>1, <3>1, ToldFree, ToldQueued
      <3>3. Fit(k'.call[c], TRUE) /\ k'.call[c].st = "free"
        BY <3>2, FreeCallType DEF Cancelled, Fit
      <3> QED
        BY <1>2, <1>5, <2>6, <3>2, <3>3 DEF Cancelled, SameButEnded
    <2> QED
      BY <2>7, <2>8
  <1> QED
    BY <1>8, <1>9

-----------------------------------------------------------------------------
\* Calls that end, and calls that are tried again.

\* The ends that are not reported, and those that are with another's: an error
\* during a registration, and mechanisms that were asked for before.
Exempt(r, c, result) ==
    /\ c \in Operation
    /\ IF IsSession THEN r.registering /\ result # "ok"
       ELSE /\ IsService /\ result = "ok" /\ r.call[c].op = "mechanisms"
            /\ ~(r.methods # << >> /\ Head(r.methods) = c)

Over(r, q, c) ==
    /\ Finishes(r, q, c) /\ q.process \in {r.process, NoProcess}
    /\ IsSession /\ q.registering => ~q.proxy[Main].path
    /\ \A x \in q.ended : x.told <= 2

LEMMA OverOk ==
  ASSUME NEW r, ClientOk(r, IsSession), NEW c \in Call, NEW q, Over(r, q, c)
  PROVE  ClientOk(q, IsSession) /\ Rest(r, q, c)
  <1>1. Mid(q) /\ q.call[c] = FreeCall /\ Rest(r, q, c)
    BY DEF Over, Finishes, Rest, GoesOn
  <1>2. PICK session \in BOOLEAN : session = IsSession
    BY DEF IsSession
  <1>3. Fit(q.call[c], session) /\ q.call[c].st = "free" /\ q.call[c].told = 0
    BY <1>1, FreeCallType DEF Fit
  <1>4. ClientOk(r, session)
    BY <1>2
  <1>5. q.process # NoProcess => q.call[q.process].told = 0 \/ (q.process = r.process /\ q.process # c)
    BY <1>3 DEF Over
  <1>6. session /\ q.registering => ~q.proxy[Main].path
    BY <1>2 DEF Over
  <1>7. \A x \in q.ended : x.told <= 2
    BY DEF Over
  <1>8. ClientOk(q, session)
    BY <1>1, <1>3, <1>4, <1>5, <1>6, <1>7, RestOk
  <1> QED
    BY <1>1, <1>2, <1>8

LEMMA WellTold ==
  ASSUME NEW r, NEW q, r.ended = {}, EndsWell(r, q)
  PROVE  \A x \in q.ended : EndedWell(x) /\ x.told <= 2
  BY DEF EndsWell, EndedWell

\* The end of a call by a session that goes on, or has been set.
LEMMA SessionEndsOver ==
  ASSUME NEW r, ClientOk(r, IsSession), IsSession, NEW q, NEW c, SessionEnds(r, q, c),
         \A x \in q.ended : x.told <= 2
  PROVE  Over(r, q, c)
  <1>1. r.registering => ~r.proxy[Main].path
    BY DEF ClientOk
  <1> QED
    BY <1>1 DEF SessionEnds, Over

LEMMA SessionFinishedOver ==
  ASSUME NEW n, ClientOk(n, IsSession), Quiet(n), n.ended = {}, IsSession,
         NEW c \in Call, n.call[c].st = "sent", NEW result, NEW q,
         q = EndCalls(IF result = "ok" THEN SessionReply(n, c) ELSE ErrorSlot(n, c), {c})
  PROVE  Over(n, q, c) /\ (EndsWell(n, q) \/ Exempt(n, c, result))
  <1>1. PICK session \in BOOLEAN : session = IsSession
    BY DEF IsSession
  <1>2. ClientOk(n, session)
    BY <1>1
  <1>3. /\ Mid(n) /\ n.call[c].told = 0
        /\ c \in Operation => n.call[c].op # "register"
    BY <1>2 DEF ClientOk, Calls, Fit
  <1>4. CASE result = "ok"
    <2>1. q = EndCalls(SessionReply(n, c), {c})
      BY <1>4
    <2>2. SessionEnds(n, q, c) /\ EndsWell(n, q)
      BY <1>3, <2>1, SessionReplyFinishes
    <2>3. \A x \in q.ended : x.told <= 2
      BY <2>2, WellTold
    <2> QED
      BY <2>2, <2>3, SessionEndsOver
  <1>5. CASE result # "ok"
    <2>1. q = EndCalls(ErrorSlot(n, c), {c})
      BY <1>5
    <2>2. /\ SessionEnds(n, q, c)
          /\ \A x \in q.ended : \/ x \in n.ended \/ EndedWell(x)
                                \/ /\ c \in Operation /\ x.unnoticed = n.call[c].unnoticed
                                   /\ x.told = IF n.registering THEN n.call[c].told ELSE n.call[c].told + 1
      BY SMTT(20), <1>3, <2>1, ErrorSlotFinishes
    <2>3. \A x \in q.ended : EndedWell(x) \/ (c \in Operation /\ n.registering /\ x.told = 0)
      BY SMTT(20), <1>3, <2>2 DEF EndedWell
    <2>4. \A x \in q.ended : x.told <= 2
      BY <2>3 DEF EndedWell
    <2>5. EndsWell(n, q) \/ Exempt(n, c, result)
      BY <1>5, <2>3 DEF EndsWell, Exempt
    <2> QED
      BY <2>2, <2>4, <2>5, SessionEndsOver
  <1> QED
    BY <1>4, <1>5

\* The methods that were asked for are dequeued in their order.
Dequeues(r, q, c) ==
    /\ Aside(r, q, c) /\ q.link = r.link
    /\ q.methods = IF r.call[c].op = "mechanisms" /\ r.methods # << >> THEN Tail(r.methods) ELSE r.methods

LEMMA ServiceFinishedOver ==
  ASSUME NEW n, ClientOk(n, IsSession), Quiet(n), n.ended = {}, IsService,
         NEW c \in Call, n.call[c].st \in {"sent", "failing"}, n.call[c].told = 0, NEW result, NEW q,
         q = EndCalls(IF result = "ok" THEN ServiceReply(n, c) ELSE ServiceErrorReply(n, c), {c})
  PROVE  /\ Over(n, q, c) /\ (EndsWell(n, q) \/ Exempt(n, c, result))
         /\ Dequeues(n, q, c)
  <1>1. Mid(n) /\ ~IsSession
    BY DEF ClientOk, IsService, IsSession
  <1>2. PICK told \in {0, 1} : /\ Serves(n, q, c, told)
                               /\ told = 0 => /\ result = "ok" /\ n.call[c].op = "mechanisms"
                                              /\ ~(n.methods # << >> /\ Head(n.methods) = c)
    <2>1. CASE result = "ok"
      <3>1. q = EndCalls(ServiceReply(n, c), {c})
        BY <2>1
      <3>2. Serves(n, q, c, IF n.call[c].op = "mechanisms" /\ ~(n.methods # << >> /\ Head(n.methods) = c)
                            THEN 0 ELSE 1)
        BY <1>1, <3>1, ServiceFinishes
      <3> QED
        BY <2>1, <3>2
    <2>2. CASE result # "ok"
      <3>1. q = EndCalls(ServiceErrorReply(n, c), {c})
        BY <2>2
      <3>2. Serves(n, q, c, 1)
        BY <1>1, <3>1, ServiceFinishes
      <3> QED
        BY <3>2
    <2> QED
      BY <2>1, <2>2
  <1>3. \A x \in q.ended : EndedWell(x) \/ (c \in Operation /\ told = 0 /\ x.told = 0)
    <2> SUFFICES ASSUME NEW x \in q.ended
                 PROVE  EndedWell(x) \/ (c \in Operation /\ told = 0 /\ x.told = 0)
      OBVIOUS
    <2>1. c \in Operation /\ x.told = told
      BY <1>2 DEF Serves
    <2>2. CASE told = 0
      BY <2>1, <2>2
    <2>3. CASE told = 1
      <3>1. x.told = 1 /\ x.told <= 2
        BY <2>1, <2>3
      <3> QED
        BY <3>1 DEF EndedWell
    <2> QED
      BY <2>2, <2>3
  <1>4. \A x \in q.ended : x.told <= 2
    BY <1>3 DEF EndedWell
  <1>5. EndsWell(n, q) \/ Exempt(n, c, result)
    BY <1>1, <1>2, <1>3 DEF EndsWell, Exempt
  <1>6. Over(n, q, c)
    BY <1>1, <1>2, <1>4 DEF Over, Serves
  <1> QED
    BY <1>2, <1>5, <1>6 DEF Serves, Dequeues, Finishes

\* What a call's end makes of the identity.
EndsAs(r, q, c, result, info) ==
    IF result = "ok" THEN Learns(r, q, r.call[c].op, info) ELSE Errs(r, q)

LEMMA IdentityFinishedOver ==
  ASSUME NEW n, ClientOk(n, IsSession), Quiet(n), n.ended = {}, IsIdentity,
         NEW c \in Call, n.call[c].st \in {"sent", "failing"}, n.call[c].told = 0, NEW result, NEW info \in Version,
         result = "ok" => n.call[c].st = "sent", NEW q,
         q = EndCalls(IF result = "ok" THEN IdentityReply(n, c, info) ELSE ErrorReply(n, {c}, result), {c})
  PROVE  Over(n, q, c) /\ EndsWell(n, q) /\ EndsAs(n, q, c, result, info)
  <1>1. Mid(n) /\ ~IsSession
    BY DEF ClientOk, IsIdentity
  <1>2. Finishes(n, q, c) /\ EndsWell(n, q) /\ EndsAs(n, q, c, result, info)
    <2>1. CASE result = "ok"
      <3>1. q = EndCalls(IdentityReply(n, c, info), {c})
        BY <2>1
      <3>2. Finishes(n, q, c) /\ EndsWell(n, q) /\ Learns(n, q, n.call[c].op, info)
        BY <1>1, <2>1, <3>1, IdentityReplyFinishes
      <3> QED
        BY <2>1, <3>2 DEF EndsAs
    <2>2. CASE result # "ok"
      <3>1. q = EndCalls(ErrorReply(n, {c}, result), {c})
        BY <2>2
      <3>2. Finishes(n, q, c) /\ EndsWell(n, q) /\ Errs(n, q)
        BY <1>1, <3>1, IdentityErrorFinishes
      <3> QED
        BY <2>2, <3>2 DEF EndsAs
    <2> QED
      BY <2>1, <2>2
  <1>3. q.process = n.process
    BY <1>2 DEF EndsAs, Learns, Errs
  <1>4. \A x \in q.ended : x.told <= 2
    BY <1>2, WellTold
  <1> QED
    BY <1>1, <1>2, <1>3, <1>4 DEF Over

LEMMA PostedFailStep ==
  ASSUME Inv, ClientOnly, NEW n, n = Now, NEW c \in Call, n.call[c].st = "failing", Over(n, k', c)
  PROVE  Inv'
  <1>1. ClientOk(n, IsSession) /\ n.call = k.call
    BY NowFacts
  <1>2. ClientOk(k', IsSession) /\ Rest(n, k', c)
    BY <1>1, OverOk
  <1>3. k'.call[c].st = "free"
    BY FreeCallType DEF Over, Finishes
  <1>4. \A i \in DOMAIN inbox : IsReply(inbox[i]) => inbox[i].call # c
    BY <1>1 DEF Inv, Replies
  <1> QED
    BY <1>2, <1>3, <1>4, ClientOnlyKeeps, QuietStep

LEMMA PostedFailInv ==
  ASSUME Inv, NEW c \in Call, PostedFail(c)
  PROVE  Inv' /\ EndsWell(Now, k') /\ (IsIdentity => Errs(Now, k'))
  <1>1. PICK n : n = Now
    OBVIOUS
  <1>2. /\ ClientOk(n, IsSession) /\ Mid(n) /\ Quiet(n) /\ n.ended = {} /\ n.call = k.call
        /\ n.call[c].st = "failing" /\ ClientOnly
    BY <1>1, NowFacts DEF PostedFail
  <1>3. n.call[c].unnoticed
    BY <1>2 DEF Mid
  <1>4. n.call[c].told \in {0, 1} /\ (~IsSession => n.call[c].told = 0)
    BY <1>2 DEF ClientOk, Calls, Fit
  <1>5. k' = EndCalls(CASE IsSession -> ErrorSlot(n, c)
                       [] IsService -> ServiceErrorReply(n, c)
                       [] IsIdentity -> ErrorReply(n, {c}, "disconnected"), {c})
    BY <1>1 DEF PostedFail
  <1>6. CASE IsSession
    <2>1. k' = EndCalls(ErrorSlot(n, c), {c})
      BY <1>5, <1>6 DEF IsSession, IsService, IsIdentity
    <2>2. /\ SessionEnds(n, k', c)
          /\ \A x \in k'.ended : \/ x \in n.ended \/ EndedWell(x)
                                 \/ /\ c \in Operation /\ x.unnoticed = n.call[c].unnoticed
                                    /\ x.told = IF n.registering THEN n.call[c].told ELSE n.call[c].told + 1
      BY <1>2, <2>1, ErrorSlotFinishes
    <2>3. \A x \in k'.ended : EndedWell(x)
      <3> SUFFICES ASSUME NEW x \in k'.ended, ~EndedWell(x) PROVE EndedWell(x)
        OBVIOUS
      <3>1. /\ x.unnoticed = n.call[c].unnoticed
            /\ x.told = IF n.registering THEN n.call[c].told ELSE n.call[c].told + 1
        BY <1>2, <2>2
      <3>2. x.told <= 2
        BY <1>4, <3>1
      <3> QED
        BY <1>3, <3>1, <3>2 DEF EndedWell
    <2>4. Over(n, k', c)
      BY <1>2, <1>6, <2>2, <2>3, SessionEndsOver DEF EndedWell
    <2> QED
      BY <1>1, <1>2, <1>6, <2>3, <2>4, PostedFailStep DEF EndsWell, IsIdentity
  <1>7. CASE IsService
    <2>1. PICK result : result = "disconnected"
      OBVIOUS
    <2>2. k' = EndCalls(IF result = "ok" THEN ServiceReply(n, c) ELSE ServiceErrorReply(n, c), {c})
      BY <1>5, <1>7, <2>1 DEF IsSession, IsService, IsIdentity
    <2>3. Over(n, k', c) /\ (EndsWell(n, k') \/ Exempt(n, c, result))
      BY <1>2, <1>4, <1>7, <2>2, ServiceFinishedOver DEF IsService, IsSession
    <2>4. EndsWell(n, k')
      BY <1>7, <2>1, <2>3 DEF Exempt, IsService, IsSession
    <2> QED
      BY <1>1, <1>2, <1>7, <2>3, <2>4, PostedFailStep DEF IsIdentity
  <1>8. CASE IsIdentity
    <2>1. PICK result : result = "disconnected"
      OBVIOUS
    <2>2. k' = EndCalls(IF result = "ok" THEN IdentityReply(n, c, NoVersion) ELSE ErrorReply(n, {c}, result), {c})
      BY <1>5, <1>8, <2>1 DEF IsIdentity
    <2>3. NoVersion \in Version /\ ~IsSession
      BY <1>8, MaxVersionAssumption DEF NoVersion, Version, IsIdentity
    <2>4. Over(n, k', c) /\ EndsWell(n, k') /\ EndsAs(n, k', c, result, NoVersion)
      BY <1>2, <1>4, <1>8, <2>1, <2>2, <2>3, IdentityFinishedOver
    <2> QED
      BY <1>1, <1>2, <2>1, <2>4, PostedFailStep DEF EndsAs
  <1> QED
    BY <1>6, <1>7, <1>8 DEF IsIdentity

\* A call has been told its result, and has ended or is tried again.
Concludes(n, q, c, result) ==
    /\ ClientOk(q, IsSession) /\ Rest(n, q, c)
    /\ c \in Operation /\ q.call[c].st # "free" => /\ q.call[c].op = n.call[c].op /\ n.call[c].st # "free"
                                                   /\ result # "ok"
    /\ EndsWell(n, q) \/ (Exempt(n, c, result) /\ ~ToRequeue(n.call[c], result))

LEMMA FinishedConcludes ==
  ASSUME Inv, NEW n, n = Now, NEW c \in Call, n.call[c].st = "sent", NEW info \in Version,
         NEW result, ~ToRequeue(n.call[c], result), NEW q, q = OnFinished(n, c, result, info)
  PROVE  /\ Concludes(n, q, c, result) /\ Over(n, q, c)
         /\ IsIdentity => EndsWell(n, q) /\ EndsAs(n, q, c, result, info)
         /\ IsService => Dequeues(n, q, c)
  <1>1. /\ ClientOk(n, IsSession) /\ Mid(n) /\ Quiet(n) /\ n.ended = {}
    BY NowFacts
  <1>2. n.call[c].told = 0
    BY <1>1 DEF ClientOk, Calls, Fit
  <1>3. q = EndCalls(CASE result = "ok" /\ IsSession -> SessionReply(n, c)
                       [] result = "ok" /\ IsService -> ServiceReply(n, c)
                       [] result = "ok" /\ IsIdentity -> IdentityReply(n, c, info)
                       [] result # "ok" /\ IsSession -> ErrorSlot(n, c)
                       [] result # "ok" /\ IsService -> ServiceErrorReply(n, c)
                       [] result # "ok" /\ IsIdentity -> ErrorReply(n, {c}, result), {c})
    BY Zenon DEF OnFinished
  <1>4. Over(n, q, c) /\ (EndsWell(n, q) \/ Exempt(n, c, result))
        /\ (IsIdentity => EndsWell(n, q) /\ EndsAs(n, q, c, result, info))
        /\ (IsService => Dequeues(n, q, c))
    <2>1. CASE IsSession
      <3>1. q = EndCalls(IF result = "ok" THEN SessionReply(n, c) ELSE ErrorSlot(n, c), {c})
        BY <1>3, <2>1 DEF IsSession, IsService, IsIdentity
      <3>2. Over(n, q, c) /\ (EndsWell(n, q) \/ Exempt(n, c, result))
        BY <1>1, <2>1, <3>1, SessionFinishedOver
      <3> QED
        BY <2>1, <3>2 DEF IsIdentity, IsService, IsSession
    <2>2. CASE IsService
      <3>1. q = EndCalls(IF result = "ok" THEN ServiceReply(n, c) ELSE ServiceErrorReply(n, c), {c})
        BY <1>3, <2>2 DEF IsSession, IsService, IsIdentity
      <3>2. Over(n, q, c) /\ (EndsWell(n, q) \/ Exempt(n, c, result)) /\ Dequeues(n, q, c)
        BY <1>1, <1>2, <2>2, <3>1, ServiceFinishedOver
      <3> QED
        BY <2>2, <3>2 DEF IsIdentity
    <2>3. CASE IsIdentity
      <3>1. q = EndCalls(IF result = "ok" THEN IdentityReply(n, c, info) ELSE ErrorReply(n, {c}, result), {c})
        BY <1>3, <2>3 DEF IsIdentity
      <3>2. Over(n, q, c) /\ EndsWell(n, q) /\ EndsAs(n, q, c, result, info)
        BY <1>1, <1>2, <2>3, <3>1, IdentityFinishedOver
      <3> QED
        BY <2>3, <3>2 DEF IsIdentity
    <2> QED
      BY <2>1, <2>2, <2>3 DEF IsIdentity
  <1>5. ClientOk(q, IsSession) /\ Rest(n, q, c)
    BY <1>1, <1>4, OverOk
  <1>6. q.call[c].st = "free"
    BY <1>4, FreeCallType DEF Over, Finishes
  <1> QED
    BY <1>4, <1>5, <1>6 DEF Concludes

LEMMA RetriesConclude ==
  ASSUME NEW n, ClientOk(n, IsSession), n.ended = {}, NEW c \in Call, n.call[c].st = "sent",
         n.call[c].told = 0, ~n.call[c].unnoticed, c \in Operation => n.call[c].op # "register",
         NEW result, ToRequeue(n.call[c], result), NEW q, Retries(n, q, c),
         IsSession /\ q.registering => ~q.proxy[Main].path
  PROVE  Concludes(n, q, c, result)
  <1>1. PICK session \in BOOLEAN : session = IsSession
    BY DEF IsSession
  <1>2. Mid(q) /\ Rest(n, q, c) /\ q.process = n.process /\ q.ended = {}
    BY DEF Retries, Others, Rest, Moves
  <1>3. /\ q.call[c].told = 0 /\ ~q.call[c].unnoticed /\ q.call[c].st \in {"queued", "sent"}
        /\ q.call[c].op = n.call[c].op
    BY DEF Retries, IsRetried
  <1>4. Fit(q.call[c], session)
    BY <1>3 DEF Fit
  <1>5. q.process # NoProcess => q.call[q.process].told = 0 \/ (q.process = n.process /\ q.process # c)
    BY <1>2, <1>3
  <1>6. ClientOk(n, session) /\ (session /\ q.registering => ~q.proxy[Main].path)
    BY <1>1
  <1>7. \A x \in q.ended : x.told <= 2
    BY <1>2
  <1>8. ClientOk(q, session)
    BY <1>2, <1>3, <1>4, <1>5, <1>6, <1>7, RestOk
  <1>9. result # "ok" /\ EndsWell(n, q)
    BY <1>2 DEF ToRequeue, EndsWell
  <1> QED
    BY <1>1, <1>2, <1>3, <1>8, <1>9 DEF Concludes

LEMMA RetriedConcludes ==
  ASSUME Inv, NEW n, n = Now, NEW c \in Call, n.call[c].st = "sent", NEW info \in Version,
         NEW result, ToRequeue(n.call[c], result), RoomToRetry(c, result),
         NEW q, q = OnFinished(n, c, result, info)
  PROVE  /\ Concludes(n, q, c, result) /\ Retries(n, q, c)
         /\ IsIdentity => IdentityAsks(n, q)
         /\ IsService => /\ SameUsed(n, q)
                         /\ \A s \in Service : s # c => CallKeeps(n.call[s], q.call[s])
  <1>1. /\ ClientOk(n, IsSession) /\ Mid(n) /\ n.ended = {} /\ n.call = k.call /\ n.proxy = k.proxy
        /\ n.state = k.state /\ n.registering = k.registering /\ daemon \in BOOLEAN
    BY NowFacts DEF Inv
  <1>2. n.call[c].told = 0 /\ ~n.call[c].unnoticed /\ (c \in Operation => n.call[c].op # "register")
    <2>1. n.call[c] \in AnyCall
      BY <1>1 DEF Mid, AnyClient
    <2> QED
      BY <1>1, <2>1 DEF ClientOk, Calls, Fit, AnyCall
  <1>3. CASE IsSession
    <2>1. q = RequeueSessionCall(n, c, daemon)
      BY <1>3 DEF OnFinished, IsSession, IsService, IsIdentity
    <2>2. CanRegister(n, n.registering) \/ c \in Service
      BY <1>1, <1>3, Slots DEF RoomToRetry, CanRegister, HasService
    <2>3. Retries(n, q, c) /\ SessionAsks(n, q)
      BY <1>1, <2>1, <2>2, RequeueRetries
    <2>4. q.registering => ~q.proxy[Main].path
      <3>1. n.registering => ~n.proxy[Main].path
        BY <1>1, <1>3 DEF ClientOk
      <3> QED
        BY <2>3, <3>1 DEF SessionAsks, Retries, Others, SameMain
    <2>5. Concludes(n, q, c, result)
      BY <1>1, <1>2, <2>3, <2>4, RetriesConclude
    <2> QED
      BY <1>3, <2>3, <2>5 DEF IsIdentity, IsService, IsSession
  <1>4. CASE IsService
    <2>1. q = RequeueServiceCall(n, c, daemon) /\ ~IsSession
      BY <1>4 DEF OnFinished, IsSession, IsService, IsIdentity
    <2>2. Retries(n, q, c) /\ SameUsed(n, q) /\ \A s \in Service : s # c => CallKeeps(n.call[s], q.call[s])
      BY <1>1, <2>1, RequeueRetries
    <2>3. Concludes(n, q, c, result)
      BY <1>1, <1>2, <2>1, <2>2, RetriesConclude
    <2> QED
      BY <1>4, <2>2, <2>3 DEF IsIdentity
  <1>5. CASE IsIdentity
    <2>1. q = RequeueIdentityCall(n, c, daemon) /\ ~IsSession
      BY <1>5 DEF OnFinished, IsIdentity
    <2>2. CanRegister(n, n.state = "PendingRegistration") \/ c \in Service
      BY <1>1, <2>1, Slots DEF RoomToRetry, CanRegister, HasService
    <2>3. Retries(n, q, c) /\ IdentityAsks(n, q)
      BY <1>1, <2>1, <2>2, RequeueRetries
    <2>4. Concludes(n, q, c, result)
      BY <1>1, <1>2, <2>1, <2>3, RetriesConclude
    <2> QED
      BY <1>5, <2>3, <2>4 DEF IsIdentity
  <1> QED
    BY <1>3, <1>4, <1>5 DEF IsIdentity

LEMMA OnFinishedConcludes ==
  ASSUME Inv, NEW n, n = Now, NEW c \in Call, n.call[c].st = "sent", NEW info \in Version,
         NEW result, RoomToRetry(c, result), NEW q, q = OnFinished(n, c, result, info)
  PROVE  Concludes(n, q, c, result)
  BY FinishedConcludes, RetriedConcludes

LEMMA HeadReply ==
  ASSUME Inv, inbox # << >>, IsReply(Head(inbox)), NEW c, c = Head(inbox).call
  PROVE  /\ c \in Call /\ Head(inbox).info \in Version /\ Head(inbox).result \in {"ok", "denied", "unknown"}
         /\ k.call[c].st = "sent" /\ ~k.call[c].lost /\ Head(inbox) = inbox[1] /\ 1 \in DOMAIN inbox
         /\ \A j \in DOMAIN inbox : IsReply(inbox[j]) /\ inbox[j].call = c => j = 1
  <1>1. inbox \in Seq(Message)
    BY DEF Inv
  <1>2. Head(inbox) \in Message /\ Head(inbox) = inbox[1] /\ 1 \in DOMAIN inbox
    BY <1>1, TailIs
  <1>3. c \in Call /\ Head(inbox).info \in Version /\ Head(inbox).result \in {"ok", "denied", "unknown"}
    BY <1>2, MessageType
  <1>4. k.call[c].st = "sent" /\ ~k.call[c].lost
    BY <1>2 DEF Inv, Replies
  <1>5. \A j \in DOMAIN inbox : IsReply(inbox[j]) /\ inbox[j].call = c => j = 1
    BY <1>2 DEF Inv, Once
  <1> QED
    BY <1>2, <1>3, <1>4, <1>5

LEMMA OnceTail ==
  ASSUME NEW in \in Seq(Message), in # << >>, Once(in)
  PROVE  Once(Tail(in))
  <1> SUFFICES ASSUME NEW i \in DOMAIN Tail(in), NEW j \in DOMAIN Tail(in),
                      IsReply(Tail(in)[i]), IsReply(Tail(in)[j]), Tail(in)[i].call = Tail(in)[j].call
               PROVE  i = j
    BY DEF Once
  <1>1. /\ i + 1 \in DOMAIN in /\ Tail(in)[i] = in[i + 1]
        /\ j + 1 \in DOMAIN in /\ Tail(in)[j] = in[j + 1]
    BY TailIs
  <1>2. i + 1 = j + 1
    BY <1>1 DEF Once
  <1>3. i \in Nat /\ j \in Nat
    <2>1. Tail(in) \in Seq(Message)
      BY TailIs
    <2>2. DOMAIN Tail(in) = 1..Len(Tail(in)) /\ Len(Tail(in)) \in Nat
      BY <2>1, InboxIs
    <2> QED
      BY <2>2
  <1> QED
    BY <1>2, <1>3

LEMMA ReadReplyInv ==
  ASSUME Inv, ReadReply, NEW c, c = Head(inbox).call
  PROVE  Inv' /\ Concludes(Now, k', c, Head(inbox).result)
  <1>1. PICK n : n = Now
    OBVIOUS
  <1>2. PICK result : result = Head(inbox).result
    OBVIOUS
  <1>3. inbox # << >> /\ IsReply(Head(inbox)) /\ inbox' = Tail(inbox) /\ inbox \in Seq(Message)
    BY DEF ReadReply, IsReply, Inv
  <1>4. /\ c \in Call /\ Head(inbox).info \in Version
        /\ n.call[c].st = "sent" /\ Head(inbox) = inbox[1] /\ 1 \in DOMAIN inbox
        /\ \A j \in DOMAIN inbox : IsReply(inbox[j]) /\ inbox[j].call = c => j = 1
    <2>1. n.call = k.call
      BY <1>1, NowFacts
    <2> QED
      BY <1>3, <2>1, HeadReply
  <1>5. Concludes(n, k', c, result)
    <2>1. RoomToRetry(c, result) /\ k' = OnFinished(n, c, result, Head(inbox).info)
      BY <1>1, <1>2 DEF ReadReply
    <2> QED
      BY <1>1, <1>4, <2>1, OnFinishedConcludes
  <1>6. /\ object' = object /\ daemon' \in BOOLEAN /\ remote' \in BOOLEAN /\ version' \in Version
    BY DEF ReadReply, Inv
  <1>7. LostOk'
    <2>1. PICK b \in BOOLEAN : b = (lost.unheard /\ ~(Head(inbox).call \in Service /\ Head(inbox).result = "ok"))
      BY DEF Inv, LostOk, LostType
    <2>2. lost' = [lost EXCEPT !.unheard = b]
      BY <2>1 DEF ReadReply, Inv, LostOk, LostType
    <2> QED
      BY <2>2 DEF Inv, LostOk, LostType
  <1>8. inbox' \in Seq(Message) /\ Once(inbox') /\ Cardinality(UpdatesIn(inbox')) <= Cardinality(UpdatesIn(inbox))
    BY <1>3, TailIs, OnceTail, TailUpdates DEF Inv
  <1>9. \A i \in DOMAIN inbox' : IsReply(inbox'[i]) => /\ inbox'[i].call # c
                                                       /\ \E j \in DOMAIN inbox : inbox[j] = inbox'[i]
    <2> SUFFICES ASSUME NEW i \in DOMAIN inbox', IsReply(inbox'[i])
                 PROVE  inbox'[i].call # c /\ \E j \in DOMAIN inbox : inbox[j] = inbox'[i]
      OBVIOUS
    <2>1. i + 1 \in DOMAIN inbox /\ inbox[i + 1] = inbox'[i]
      BY <1>3, TailIs
    <2>2. i \in Nat /\ i >= 1
      <3>1. DOMAIN inbox' = 1..Len(inbox')
        BY <1>8, InboxIs
      <3> QED
        BY <3>1
    <2> QED
      BY <1>4, <2>1, <2>2
  <1>10. \A j \in DOMAIN inbox : IsReply(inbox[j]) /\ inbox[j].call # c =>
                                     \E i \in DOMAIN inbox' : inbox'[i] = inbox[j]
    <2> SUFFICES ASSUME NEW j \in DOMAIN inbox, inbox[j].call # c
                 PROVE  \E i \in DOMAIN inbox' : inbox'[i] = inbox[j]
      OBVIOUS
    <2>1. j # 1
      BY <1>4
    <2>2. j - 1 \in DOMAIN inbox' /\ inbox'[j - 1] = inbox[j]
      BY <1>3, <2>1, TailIs
    <2> QED
      BY <2>2
  <1>11. c \in Operation /\ k'.call[c].st # "free" =>
             /\ k.call[c].st # "free" /\ k'.call[c].op = k.call[c].op
             /\ \A j \in DOMAIN inbox : IsReply(inbox[j]) /\ inbox[j].call = c => inbox[j].result # "ok"
    <2>1. n.call = k.call
      BY <1>1, NowFacts
    <2> QED
      BY <1>2, <1>4, <1>5, <2>1 DEF Concludes
  <1>12. ClientOk(k', IsSession) /\ Rest(n, k', c)
    BY <1>5 DEF Concludes
  <1>13. Inv'
    BY <1>1, <1>6, <1>7, <1>8, <1>9, <1>10, <1>11, <1>12, OneStep
  <1> QED
    BY <1>1, <1>2, <1>5, <1>13

LEMMA CallDisconnectedInv ==
  ASSUME Inv, NEW c \in Call, CallDisconnected(c)
  PROVE  Inv' /\ Concludes(Now, k', c, "disconnected")
  <1>1. PICK n : n = Now
    OBVIOUS
  <1>2. PICK result : result = "disconnected"
    OBVIOUS
  <1>3. n.call = k.call /\ n.call[c].st = "sent" /\ inbox = << >> /\ ClientOnly
    BY <1>1, NowFacts DEF CallDisconnected
  <1>4. NoVersion \in Version
    BY MaxVersionAssumption DEF NoVersion, Version
  <1>5. Concludes(n, k', c, result)
    <2>1. RoomToRetry(c, result) /\ k' = OnFinished(n, c, result, NoVersion)
      BY <1>1, <1>2 DEF CallDisconnected
    <2> QED
      BY <1>1, <1>3, <1>4, <2>1, OnFinishedConcludes
  <1>6. Inv'
    BY <1>1, <1>3, <1>5, ClientOnlyKeeps, QuietStep DEF Concludes
  <1> QED
    BY <1>1, <1>2, <1>5, <1>6

\* A step of the proxies alone.
LEMMA CalmStep ==
  ASSUME Inv, UNCHANGED <<object, inbox, version>>, daemon' \in BOOLEAN, remote' \in BOOLEAN, LostOk',
         NEW n, n = Now, Mid(k'), Calm(n, k'), k'.proxy[Main].path => n.proxy[Main].path
  PROVE  Inv' /\ k'.ended = {} /\ ClientOk(k', IsSession)
  <1>1. ClientOk(n, IsSession) /\ n.ended = {} /\ Mid(n)
    BY NowFacts
  <1>2. PICK session \in BOOLEAN : session = IsSession
    BY DEF IsSession
  <1>3. Rest(n, k', Main)
    BY DEF Calm, Rest, Moves, GoesOn, Call
  <1>4. k'.ended = {} /\ k'.process = n.process /\ k'.registering = n.registering
    BY <1>1 DEF Calm, SameObject
  <1>5. Main \notin Call
    BY Slots
  <1>6. k'.process # Main \/ k'.process = NoProcess
    BY <1>5, Slots DEF Mid, AnyClient
  <1>7. ClientOk(k', session)
    <2>1. ClientOk(n, session)
      BY <1>1, <1>2
    <2>2. session /\ k'.registering => ~k'.proxy[Main].path
      BY <1>4, <2>1 DEF ClientOk
    <2>3. \A x \in k'.ended : x.told <= 2
      BY <1>4
    <2>4. k'.process # NoProcess => k'.call[k'.process].told = 0 \/ (k'.process = n.process /\ k'.process # Main)
      BY <1>4, <1>6
    <2> QED
      BY <1>3, <1>5, <2>1, <2>2, <2>3, <2>4, RestOk
  <1>8. \A i \in DOMAIN inbox : IsReply(inbox[i]) => inbox[i].call # Main
    <2> SUFFICES ASSUME NEW i \in DOMAIN inbox, IsReply(inbox[i]) PROVE inbox[i].call # Main
      OBVIOUS
    <2>1. inbox[i] \in Message
      BY InboxIs DEF Inv
    <2> QED
      BY <1>5, <2>1, MessageType
  <1>9. Main \notin Operation
    BY <1>5, Slots
  <1>10. ClientOk(k', IsSession)
    BY <1>2, <1>7
  <1> QED
    BY <1>3, <1>4, <1>8, <1>9, <1>10, QuietStep

LEMMA ConnectionInv ==
  ASSUME Inv, Disconnected \/ Activated \/ ActivationFailed
  PROVE  Inv' /\ k'.ended = {}
  <1>1. PICK n : n = Now
    OBVIOUS
  <1>2. Mid(n)
    BY <1>1, NowFacts
  <1>3. CASE Disconnected
    <2>1. Loses(n, k')
      BY <1>1, <1>2, <1>3, OnDisconnectedLoses DEF Disconnected
    <2>2. LostOk'
      <3>1. lost.unsignalled - 1 \in 0..MaxLost
        BY <1>3, FaultsAssumption DEF Disconnected, Inv, LostOk, LostType
      <3>2. lost' = [lost EXCEPT !.unsignalled = lost.unsignalled - 1]
        BY <1>3 DEF Disconnected, Inv, LostOk, LostType
      <3> QED
        BY <3>1, <3>2 DEF Inv, LostOk, LostType
    <2>3. UNCHANGED <<object, inbox, version>> /\ daemon' \in BOOLEAN /\ remote' \in BOOLEAN
      BY <1>3 DEF Disconnected, Inv
    <2> QED
      BY <1>1, <2>1, <2>2, <2>3, CalmStep DEF Loses
  <1>4. CASE Activated \/ ActivationFailed
    <2>1. PICK ok \in BOOLEAN : k' = OnActivationDone(n, ok)
      BY <1>1, <1>4 DEF Activated, ActivationFailed
    <2>2. Connects(n, k')
      BY <1>2, <2>1, OnActivationDoneConnects
    <2>3. UNCHANGED <<object, inbox, version>> /\ daemon' \in BOOLEAN /\ remote' \in BOOLEAN /\ LostOk'
      BY <1>4 DEF Activated, ActivationFailed, ClientOnly, Inv, LostOk, LostType
    <2> QED
      BY <1>1, <2>2, <2>3, CalmStep DEF Connects, Carries, SameMain
  <1> QED
    BY <1>3, <1>4

LEMMA RestartInv == Inv /\ Restart => Inv' /\ k'.ended = {}
  <1> SUFFICES ASSUME Inv, Restart PROVE Inv' /\ k'.ended = {}
    OBVIOUS
  <1>1. PICK n : n = Now
    OBVIOUS
  <1>2. Mid(n) /\ k' = n
    BY <1>1, NowFacts DEF Restart
  <1>3. Mid(k') /\ Calm(n, k') /\ k'.proxy = n.proxy
    BY <1>2, KeepsSelf DEF Calm, SameObject, Mid, AnyClient
  <1>4. UNCHANGED <<object, inbox, version>> /\ daemon' \in BOOLEAN /\ remote' \in BOOLEAN /\ LostOk'
    BY DEF Restart, Inv, LostOk, LostType
  <1> QED
    BY <1>1, <1>3, <1>4, CalmStep

-----------------------------------------------------------------------------
\* Signals, and what the daemon does.

\* The calls are where they were.
SameCalls(r, q) ==
    \A e \in Call : /\ q.call[e].st = r.call[e].st \/ (r.call[e].st = "queued" /\ q.call[e].st = "sent")
                    /\ q.call[e].op = r.call[e].op
                    /\ q.call[e].told = r.call[e].told /\ q.call[e].unnoticed = r.call[e].unnoticed

Stays(r, q) ==
    /\ Mid(q) /\ SameCalls(r, q) /\ q.process = r.process /\ q.registering = r.registering
    /\ q.ended = r.ended /\ (q.proxy[Main].path => r.proxy[Main].path)

LEMMA StaysOk ==
  ASSUME NEW r, ClientOk(r, IsSession), r.ended = {}, NEW q, Stays(r, q)
  PROVE  ClientOk(q, IsSession) /\ q.ended = {}
  <1>1. PICK session \in BOOLEAN : session = IsSession
    BY DEF IsSession
  <1>2. /\ Mid(q) /\ q.process = r.process /\ q.registering = r.registering /\ q.ended = {}
        /\ (q.proxy[Main].path => r.proxy[Main].path)
    BY DEF Stays
  <1>3. Calls(q, session)
    <2>1. Calls(r, session)
      BY <1>1 DEF ClientOk
    <2>2. \A e \in Call : r.call[e] \in AnyCall /\ q.call[e] \in AnyCall
      BY <1>2 DEF ClientOk, Mid, AnyClient
    <2> QED
      BY <2>1, <2>2 DEF Calls, Fit, Stays, SameCalls, AnyCall
  <1>4. q.process # NoProcess => q.call[q.process].told = 0
    <2> SUFFICES ASSUME q.process # NoProcess PROVE q.call[q.process].told = 0
      OBVIOUS
    <2>1. q.process \in Call
      BY <1>2, Slots DEF Mid, AnyClient
    <2>2. r.call[q.process].told = 0
      BY <1>2 DEF ClientOk
    <2> QED
      BY <2>1, <2>2 DEF Stays, SameCalls
  <1>5. session /\ q.registering => ~q.proxy[Main].path
    BY <1>1, <1>2 DEF ClientOk
  <1>6. ClientOk(q, session)
    BY <1>2, <1>3, <1>4, <1>5 DEF ClientOk
  <1> QED
    BY <1>1, <1>2, <1>6

LEMMA StaysSelf ==
  ASSUME NEW r, Mid(r)
  PROVE  Stays(r, r)
  BY DEF Stays, SameCalls

LEMMA StaysRoom ==
  ASSUME NEW r, NEW q, Stays(r, q), NEW in, RoomLeft(r, in)
  PROVE  RoomLeft(q, in)
  <1>1. FreeCalls(q, Operation) = FreeCalls(r, Operation) /\ Unserved(q, in) = Unserved(r, in)
    BY Slots DEF Stays, SameCalls, FreeCalls, Unserved
  <1> QED
    BY <1>1 DEF RoomLeft

LEMMA StaysStep ==
  ASSUME Inv, object' = object, daemon' \in BOOLEAN, remote' \in BOOLEAN, version' \in Version, LostOk',
         NEW n, n = Now, Stays(n, k'), NEW in, in = inbox', in \in Seq(Message), Once(in), Replies(k', in),
         RoomLeft(n, in)
  PROVE  Inv' /\ k'.ended = {}
  <1>1. ClientOk(n, IsSession) /\ n.ended = {}
    BY NowFacts
  <1>2. ClientOk(k', IsSession) /\ k'.ended = {}
    BY <1>1, StaysOk
  <1>3. RoomLeft(k', in)
    BY StaysRoom
  <1> QED
    BY <1>2, <1>3 DEF Inv, IsSession

\* Messages that are sent.
LEMMA SignalSent ==
  ASSUME NEW r, NEW in \in Seq(Message), Replies(r, in), Once(in), RoomLeft(r, in),
         NEW type \in {"updated", "removed", "unregistered"},
         type = "updated" =>
            Cardinality(FreeCalls(r, Operation)) > Cardinality(UpdatesIn(in)) + Cardinality(Unserved(r, in)),
         NEW in2, in2 = Append(in, Signal(type))
  PROVE  in2 \in Seq(Message) /\ Replies(r, in2) /\ Once(in2) /\ RoomLeft(r, in2)
  <1>1. PICK m : m = Signal(type)
    OBVIOUS
  <1>2. m \in Message /\ ~IsReply(m) /\ m.type = type
    BY <1>1 DEF Signal, Message, IsReply
  <1>3. /\ in2 \in Seq(Message) /\ in2[Len(in) + 1] = m
        /\ \A i \in DOMAIN in : i \in DOMAIN in2 /\ in2[i] = in[i] /\ i # Len(in) + 1
        /\ \A i \in DOMAIN in2 : i \in DOMAIN in \/ i = Len(in) + 1
    BY <1>1, <1>2, AppendIs
  <1>4. Replies(r, in2)
    BY <1>2, <1>3 DEF Replies
  <1>5. Once(in2)
    BY <1>2, <1>3 DEF Once
  <1>6. Unserved(r, in2) \subseteq Unserved(r, in)
    BY <1>2, <1>3 DEF Unserved
  <1>7. RoomLeft(r, in2)
    <2>1. /\ m.type # "updated" => Cardinality(UpdatesIn(in2)) <= Cardinality(UpdatesIn(in))
          /\ Cardinality(UpdatesIn(in2)) <= Cardinality(UpdatesIn(in)) + 1
      BY <1>1, <1>2, AppendUpdates
    <2>2. CASE type # "updated"
      BY <1>2, <1>3, <1>6, <2>1, <2>2, RoomKeeps
    <2>3. CASE type = "updated"
      <3>1. Cardinality(Unserved(r, in2)) <= Cardinality(Unserved(r, in))
        BY <1>6, RoomIs, FS_Subset
      <3>2. /\ Cardinality(FreeCalls(r, Operation)) \in Nat /\ Cardinality(Unserved(r, in2)) \in Nat
            /\ Cardinality(Unserved(r, in)) \in Nat /\ Cardinality(UpdatesIn(in2)) \in Nat
            /\ Cardinality(UpdatesIn(in)) \in Nat
        BY <1>3, RoomIs, InboxIs
      <3> QED
        BY <2>1, <2>3, <3>1, <3>2 DEF RoomLeft
    <2> QED
      BY <2>2, <2>3
  <1> QED
    BY <1>3, <1>4, <1>5, <1>7

NoReply(in, c) == \A i \in DOMAIN in : IsReply(in[i]) => in[i].call # c

LEMMA ReplySent ==
  ASSUME NEW r, NEW in \in Seq(Message), Replies(r, in), Once(in), NEW c \in Call,
         r.call[c].st = "sent", ~r.call[c].lost, NoReply(in, c),
         NEW m \in Message, IsReply(m), m.call = c,
         NEW in2, in2 = Append(in, m)
  PROVE  /\ in2 \in Seq(Message) /\ Replies(r, in2) /\ Once(in2)
         /\ RoomLeft(r, in) => RoomLeft(r, in2)
         /\ Unserved(r, in2) \subseteq Unserved(r, in)
         /\ m.result = "ok" => c \notin Unserved(r, in2)
         /\ Cardinality(UpdatesIn(in2)) <= Cardinality(UpdatesIn(in))
  <1>1. /\ in2 \in Seq(Message) /\ in2[Len(in) + 1] = m /\ Len(in) + 1 \in DOMAIN in2
        /\ \A i \in DOMAIN in : i \in DOMAIN in2 /\ in2[i] = in[i] /\ i # Len(in) + 1
        /\ \A i \in DOMAIN in2 : i \in DOMAIN in \/ i = Len(in) + 1
    <2>1. Len(in) + 1 \in 1..(Len(in) + 1)
      BY LenProperties
    <2> QED
      BY <2>1, AppendIs
  <1>2. Replies(r, in2)
    BY <1>1 DEF Replies
  <1>3. Once(in2)
    BY <1>1 DEF Once, NoReply
  <1>4. Unserved(r, in2) \subseteq Unserved(r, in)
    BY <1>1 DEF Unserved
  <1>5. m.result = "ok" => c \notin Unserved(r, in2)
    BY <1>1 DEF Unserved
  <1>6. Cardinality(UpdatesIn(in2)) <= Cardinality(UpdatesIn(in))
    BY AppendUpdates DEF IsReply
  <1>7. RoomLeft(r, in) => RoomLeft(r, in2)
    BY <1>1, <1>4, <1>6, RoomKeeps
  <1> QED
    BY <1>1, <1>2, <1>3, <1>4, <1>5, <1>6, <1>7

\* A reply is sent, and maybe a signal before it.
LEMMA ServedInv ==
  ASSUME Inv, NEW c \in Call, Waiting(c), k' = Now, UNCHANGED <<object, daemon, lost>>,
         remote' \in BOOLEAN, version' \in Version, NEW result \in {"ok", "denied", "unknown"},
         NEW in, in \in Seq(Message), Replies(k, in), Once(in), NoReply(in, c),
         inbox' = Append(in, Reply(c, result)),
         RoomLeft(k, inbox')
  PROVE  Inv' /\ k'.ended = {}
  <1>1. PICK n : n = Now
    OBVIOUS
  <1>2. PICK m : m = Reply(c, result)
    OBVIOUS
  <1>3. m \in Message /\ IsReply(m) /\ m.call = c
    BY <1>2 DEF Reply, Message, IsReply
  <1>4. n.call = k.call /\ Mid(n) /\ k' = n
    BY <1>1, NowFacts
  <1>5. n.call[c].st = "sent" /\ ~n.call[c].lost /\ Replies(n, in)
    BY <1>4 DEF Waiting, Replies
  <1>6. PICK in2 : in2 = Append(in, m)
    OBVIOUS
  <1>7. inbox' = in2
    BY <1>2, <1>6
  <1>8. in2 \in Seq(Message) /\ Replies(n, in2) /\ Once(in2)
    BY <1>3, <1>5, <1>6, ReplySent
  <1>9. RoomLeft(n, in2)
    BY <1>4, <1>7 DEF RoomLeft, FreeCalls, Unserved
  <1>10. Stays(n, k')
    BY <1>4, StaysSelf
  <1>11. object' = object /\ daemon' \in BOOLEAN /\ LostOk'
    BY DEF Inv, LostOk, LostType
  <1> QED
    BY <1>1, <1>4, <1>7, <1>8, <1>9, <1>10, <1>11, StaysStep

LEMMA ServeNothingInv ==
  ASSUME Inv, NEW c \in Call, ServeUnknown(c) \/ ServeDenied(c)
  PROVE  Inv' /\ k'.ended = {}
  <1>1. NoReply(inbox, c) /\ Waiting(c) /\ inbox \in Seq(Message) /\ Replies(k, inbox) /\ Once(inbox)
        /\ RoomLeft(k, inbox)
    BY DEF ServeUnknown, ServeDenied, Waiting, Answered, NoReply, IsReply, Inv
  <1>2. k.call[c].st = "sent" /\ ~k.call[c].lost
    BY <1>1 DEF Waiting
  <1>3. PICK result \in {"ok", "denied", "unknown"} : inbox' = Append(inbox, Reply(c, result))
    BY DEF ServeUnknown, ServeDenied
  <1>4. /\ k' = Now /\ UNCHANGED <<object, daemon, lost>> /\ remote' \in BOOLEAN /\ version' \in Version
    BY DEF ServeUnknown, ServeDenied, Inv
  <1>5. PICK m : m = Reply(c, result)
    OBVIOUS
  <1>6. m \in Message /\ IsReply(m) /\ m.call = c
    BY <1>4, <1>5 DEF Reply, Message, IsReply
  <1>7. RoomLeft(k, Append(inbox, m))
    BY <1>1, <1>2, <1>6, ReplySent
  <1>8. RoomLeft(k, inbox')
    BY <1>3, <1>5, <1>7
  <1> QED
    BY <1>1, <1>3, <1>4, <1>8, ServedInv

LEMMA TwoSent ==
  ASSUME NEW in \in Seq(Message), NEW a \in Message, NEW b \in Message
  PROVE  in \o <<a, b>> = Append(Append(in, a), b)
  OBVIOUS

LEMMA ServeInv ==
  ASSUME Inv, NEW c \in Call, Served(c)
  PROVE  Inv' /\ k'.ended = {}
  <1>1. NoReply(inbox, c) /\ Waiting(c) /\ inbox \in Seq(Message) /\ Replies(k, inbox) /\ Once(inbox)
        /\ RoomLeft(k, inbox)
    BY DEF Served, Waiting, Answered, NoReply, IsReply, Inv
  <1>2. k.call[c].st = "sent" /\ ~k.call[c].lost
    BY <1>1 DEF Waiting
  <1>3. /\ k' = Now /\ UNCHANGED <<object, daemon, lost>> /\ remote' \in BOOLEAN
    BY DEF Served, IsService
  <1>4. version' \in Version
    <2>1. version < MaxVersion => version + 1 \in Version
      BY MaxVersionAssumption DEF Version, Inv
    <2>2. NoVersion \in Version
      BY MaxVersionAssumption DEF NoVersion, Version
    <2> QED
      BY <2>1, <2>2 DEF Served, Inv
  <1>5. PICK m : m = Reply(c, "ok")
    OBVIOUS
  <1>6. m \in Message /\ IsReply(m) /\ m.call = c /\ m.result = "ok"
    BY <1>4, <1>5 DEF Reply, Message, IsReply
  <1>7. CASE k.call[c].op \notin {"store", "remove"}
    <2>1. inbox' = Append(inbox, Reply(c, "ok"))
      BY <1>7 DEF Served
    <2>2. RoomLeft(k, Append(inbox, m))
      BY <1>1, <1>2, <1>6, ReplySent
    <2>3. RoomLeft(k, inbox')
      BY <1>5, <2>1, <2>2
    <2> QED
      BY <1>1, <1>3, <1>4, <2>1, <2>3, ServedInv
  <1>8. CASE k.call[c].op = "remove"
    <2>1. PICK in : in = Append(inbox, Signal("removed"))
      OBVIOUS
    <2>2. in \in Seq(Message) /\ Replies(k, in) /\ Once(in) /\ RoomLeft(k, in)
      BY <1>1, <2>1, SignalSent
    <2>3. Signal("removed") \in Message /\ ~IsReply(Signal("removed"))
      BY DEF Signal, Message, IsReply
    <2>4. NoReply(in, c)
      BY <1>1, <2>1, <2>3, AppendIs DEF NoReply
    <2>5. inbox' = Append(in, Reply(c, "ok"))
      <3>1. inbox' = inbox \o <<Signal("removed"), m>>
        BY <1>5, <1>8 DEF Served
      <3> QED
        BY <1>1, <1>5, <1>6, <2>1, <2>3, <3>1, TwoSent
    <2>6. RoomLeft(k, Append(in, m))
      BY <1>2, <1>6, <2>2, <2>4, ReplySent
    <2>7. RoomLeft(k, inbox')
      BY <1>5, <2>5, <2>6
    <2> QED
      BY <1>1, <1>3, <1>4, <2>2, <2>4, <2>5, <2>7, ServedInv
  <1>9. CASE k.call[c].op = "store"
    <2>1. PICK in : in = Append(inbox, Signal("updated"))
      OBVIOUS
    <2>2. Signal("updated") \in Message /\ ~IsReply(Signal("updated"))
      BY DEF Signal, Message, IsReply
    <2>3. /\ in \in Seq(Message) /\ in[Len(inbox) + 1] = Signal("updated")
          /\ \A i \in DOMAIN inbox : i \in DOMAIN in /\ in[i] = inbox[i] /\ i # Len(inbox) + 1
          /\ \A i \in DOMAIN in : i \in DOMAIN inbox \/ i = Len(inbox) + 1
      BY <1>1, <2>1, <2>2, AppendIs
    <2>4. Replies(k, in) /\ Once(in) /\ NoReply(in, c)
      BY SMTT(20), <1>1, <2>2, <2>3 DEF Replies, Once, NoReply
    <2>5. inbox' = Append(in, Reply(c, "ok"))
      <3>1. inbox' = inbox \o <<Signal("updated"), m>>
        BY <1>5, <1>9 DEF Served
      <3> QED
        BY <1>1, <1>5, <1>6, <2>1, <2>2, <3>1, TwoSent
    <2>6. PICK in2 : in2 = Append(in, m)
      OBVIOUS
    <2>7. /\ in2 \in Seq(Message) /\ Unserved(k, in2) \subseteq Unserved(k, in) /\ c \notin Unserved(k, in2)
          /\ Cardinality(UpdatesIn(in2)) <= Cardinality(UpdatesIn(in))
      BY <1>2, <1>6, <2>3, <2>4, <2>6, ReplySent
    <2>8. c \in Unserved(k, inbox)
      <3>1. c \in Operation
        <4>1. c \in Service => k.call[c].op = "register"
          BY DEF Inv, ClientOk, Mid
        <4> QED
          BY <1>9, <4>1, Slots
      <3> QED
        BY <1>1, <1>2, <1>9, <3>1 DEF Unserved, NoReply
    <2>9. Unserved(k, in2) \subseteq Unserved(k, inbox) \ {c}
      <3>1. Unserved(k, in) \subseteq Unserved(k, inbox)
        BY <2>3 DEF Unserved
      <3> QED
        BY <2>7, <3>1
    <2>10. /\ IsFiniteSet(Unserved(k, inbox) \ {c})
           /\ Cardinality(Unserved(k, inbox) \ {c}) = Cardinality(Unserved(k, inbox)) - 1
      BY <2>8, RoomIs, FS_RemoveElement
    <2>11. Cardinality(Unserved(k, in2)) <= Cardinality(Unserved(k, inbox)) - 1
      BY <2>9, <2>10, FS_Subset
    <2>12. Cardinality(UpdatesIn(in2)) <= Cardinality(UpdatesIn(inbox)) + 1
      <3>1. Cardinality(UpdatesIn(in)) <= Cardinality(UpdatesIn(inbox)) + 1
        BY <1>1, <2>1, <2>2, AppendUpdates
      <3>2. /\ Cardinality(UpdatesIn(in2)) \in Nat /\ Cardinality(UpdatesIn(in)) \in Nat
            /\ Cardinality(UpdatesIn(inbox)) \in Nat
        BY <1>1, <2>3, <2>7, InboxIs
      <3> QED
        BY <2>7, <3>1, <3>2
    <2>13. RoomLeft(k, in2)
      <3>1. /\ Cardinality(UpdatesIn(in2)) \in Nat /\ Cardinality(UpdatesIn(inbox)) \in Nat
            /\ Cardinality(Unserved(k, in2)) \in Nat /\ Cardinality(Unserved(k, inbox)) \in Nat
            /\ Cardinality(FreeCalls(k, Operation)) \in Nat
        BY <1>1, <2>7, InboxIs, RoomIs
      <3> QED
        BY <1>1, <2>11, <2>12, <3>1 DEF RoomLeft
    <2>14. RoomLeft(k, inbox')
      BY <1>5, <2>5, <2>6, <2>13
    <2> QED
      BY <1>1, <1>3, <1>4, <2>3, <2>4, <2>5, <2>14, ServedInv
  <1> QED
    BY <1>7, <1>8, <1>9

LEMMA StoredByOtherInv == Inv /\ StoredByOther => Inv' /\ k'.ended = {}
  <1> SUFFICES ASSUME Inv, StoredByOther PROVE Inv' /\ k'.ended = {}
    OBVIOUS
  <1>1. PICK n : n = Now
    OBVIOUS
  <1>2. n.call = k.call /\ Mid(n) /\ k' = n
    BY <1>1, NowFacts DEF StoredByOther
  <1>3. /\ object' = object /\ daemon' \in BOOLEAN /\ remote' \in BOOLEAN /\ LostOk'
        /\ inbox \in Seq(Message) /\ Once(inbox)
    BY DEF StoredByOther, Inv, LostOk, LostType
  <1>4. version' \in Version
    BY MaxVersionAssumption DEF StoredByOther, Version, Inv
  <1>5. Replies(n, inbox) /\ RoomLeft(n, inbox)
    BY <1>2 DEF Inv, Replies, RoomLeft, FreeCalls, Unserved
  <1>6. Cardinality(FreeCalls(n, Operation)) > Cardinality(UpdatesIn(inbox)) + Cardinality(Unserved(n, inbox))
    <2>1. Unserved(n, inbox) \subseteq Storing
      BY <1>2 DEF Unserved, Storing
    <2>2. IsFiniteSet(Storing)
      BY RoomIs, FS_Subset DEF Storing
    <2>3. Cardinality(Unserved(n, inbox)) <= Cardinality(Storing)
      BY <2>1, <2>2, FS_Subset
    <2>4. /\ Cardinality(FreeCalls(k, Operation)) \in Nat /\ Cardinality(Unserved(n, inbox)) \in Nat
          /\ Cardinality(Storing) \in Nat /\ Cardinality(UpdatesIn(inbox)) \in Nat
      BY <1>3, <2>2, RoomIs, InboxIs, FS_CardinalityType
    <2>5. Cardinality(FreeCalls(k, Operation)) > Cardinality(UpdatesIn(inbox)) + Cardinality(Storing)
      BY DEF StoredByOther, Following, Signals, UpdatesIn
    <2>6. FreeCalls(n, Operation) = FreeCalls(k, Operation)
      BY <1>2 DEF FreeCalls
    <2> QED
      BY <2>3, <2>4, <2>5, <2>6
  <1>7. PICK in2 : in2 = Append(inbox, Signal("updated"))
    OBVIOUS
  <1>8. in2 \in Seq(Message) /\ Replies(n, in2) /\ Once(in2) /\ RoomLeft(n, in2)
    BY <1>3, <1>5, <1>6, <1>7, SignalSent
  <1>9. inbox' = in2
    BY <1>7 DEF StoredByOther
  <1> QED
    BY <1>1, <1>2, <1>3, <1>4, <1>8, <1>9, StaysSelf, StaysStep

LEMMA CallsOldStays ==
  ASSUME NEW r, Mid(r), NEW q, q = CallsOld(r)
  PROVE  /\ Stays(r, q) /\ q.proxy = r.proxy /\ q.link = r.link /\ q.service = r.service /\ q.starting = r.starting
         /\ q.state = r.state /\ q.info = r.info /\ q.known = r.known /\ q.methods = r.methods
         /\ \A e \in Call : /\ q.call[e].st = r.call[e].st /\ q.call[e].lost = r.call[e].lost
                            /\ q.call[e].cut = r.call[e].cut /\ q.call[e].watched = r.call[e].watched
  <1>1. PICK cl : cl = [c \in Call |-> IF r.call[c].st = "sent" /\ c \in Operation
                                       THEN [r.call[c] EXCEPT !.old = TRUE] ELSE r.call[c]]
    OBVIOUS
  <1>2. r \in AnyClient /\ \A c \in Call : r.call[c] \in AnyCall
    BY DEF Mid, AnyClient
  <1>3. q = [r EXCEPT !.call = cl]
    BY <1>1, <1>2 DEF CallsOld, AnyClient
  <1>4. \A c \in Call : /\ cl[c] \in AnyCall /\ cl[c].st = r.call[c].st /\ cl[c].op = r.call[c].op
                        /\ cl[c].told = r.call[c].told /\ cl[c].unnoticed = r.call[c].unnoticed
                        /\ cl[c].lost = r.call[c].lost /\ cl[c].cut = r.call[c].cut
                        /\ cl[c].watched = r.call[c].watched
                        /\ (r.call[c].st # "sent" => cl[c] = r.call[c])
    BY ZenonT(30), <1>1, <1>2 DEF AnyCall
  <1>5. cl \in [Call -> AnyCall]
    BY <1>1, <1>4
  <1>6. /\ q \in AnyClient /\ q.call = cl /\ q.proxy = r.proxy /\ q.link = r.link
        /\ q.service = r.service /\ q.starting = r.starting /\ q.process = r.process
        /\ q.registering = r.registering /\ q.ended = r.ended
        /\ q.state = r.state /\ q.info = r.info /\ q.known = r.known /\ q.methods = r.methods
    BY <1>2, <1>3, <1>5 DEF AnyClient
  <1>7. \A c \in Call : /\ q.call[c].st = "free" => q.call[c] = FreeCall
                        /\ q.call[c].st = "failing" => c \in Operation /\ q.call[c].unnoticed
                        /\ q.call[c].st = "sent" => q.call[c].watched
    BY <1>4, <1>6 DEF Mid
  <1>8. Mid(q)
    BY <1>4, <1>6, <1>7, Slots DEF Mid
  <1> QED
    BY <1>4, <1>6, <1>8 DEF Stays, SameCalls

LEMMA UnregisterInv == Inv /\ Unregister => Inv' /\ k'.ended = {}
  <1> SUFFICES ASSUME Inv, Unregister PROVE Inv' /\ k'.ended = {}
    OBVIOUS
  <1>1. PICK n : n = Now
    OBVIOUS
  <1>2. n.call = k.call /\ Mid(n) /\ k' = CallsOld(n)
    BY <1>1, NowFacts DEF Unregister
  <1>3. /\ object' = object /\ daemon' \in BOOLEAN /\ remote' \in BOOLEAN /\ version' \in Version
        /\ inbox \in Seq(Message) /\ Once(inbox)
    BY DEF Unregister, Inv
  <1>4. LostOk'
    <2>1. lost.links \in Nat /\ lost.objects + 1 \in 0..MaxLost /\ lost.links + (lost.objects + 1) <= MaxLost
      BY FaultsAssumption DEF Unregister, Inv, LostOk, LostType
    <2>2. lost' = [lost EXCEPT !.objects = lost.objects + 1]
      BY DEF Unregister, Inv, LostOk, LostType
    <2> QED
      BY <2>1, <2>2 DEF Inv, LostOk, LostType
  <1>5. Stays(n, k') /\ \A e \in Call : k'.call[e].st = n.call[e].st /\ k'.call[e].lost = n.call[e].lost
    BY <1>2, CallsOldStays
  <1>6. Replies(n, inbox) /\ RoomLeft(n, inbox)
    BY <1>2 DEF Inv, Replies, RoomLeft, FreeCalls, Unserved
  <1>7. PICK in2 : in2 = Append(inbox, Signal("unregistered"))
    OBVIOUS
  <1>8. in2 \in Seq(Message) /\ Replies(n, in2) /\ Once(in2) /\ RoomLeft(n, in2)
    BY <1>3, <1>6, <1>7, SignalSent
  <1>9. Replies(k', in2)
    <2> SUFFICES ASSUME NEW i \in DOMAIN in2, IsReply(in2[i])
                 PROVE  k'.call[in2[i].call].st = "sent" /\ ~k'.call[in2[i].call].lost
      BY DEF Replies
    <2>1. in2[i].call \in Call
      BY <1>8, InboxIs, MessageType
    <2> QED
      BY <1>5, <1>8, <2>1 DEF Replies
  <1>10. inbox' = in2
    BY <1>7 DEF Unregister
  <1> QED
    BY <1>1, <1>3, <1>4, <1>5, <1>8, <1>9, <1>10, StaysStep

\* The end of the connection.
Drops(r, q) ==
    /\ Stays(r, q) /\ q.link = "dropped" /\ q.service = r.service /\ q.starting = r.starting
    /\ q.state = r.state /\ q.info = r.info /\ q.known = r.known /\ q.methods = r.methods
    /\ \A p \in Proxy : /\ q.proxy[p].used = r.proxy[p].used /\ q.proxy[p].path = r.proxy[p].path
                        /\ q.proxy[p].status = r.proxy[p].status
                        /\ q.proxy[p].conn = IF r.proxy[p].conn = "live" THEN "dead" ELSE r.proxy[p].conn
    /\ \A e \in Call : /\ q.call[e].st = r.call[e].st /\ q.call[e].old = r.call[e].old
                       /\ q.call[e].cut = r.call[e].cut
                       /\ q.call[e].lost <=> r.call[e].lost \/ (r.call[e].st = "sent" /\ ~Answered(e))

LEMMA DropDrops ==
  ASSUME Inv, Drop, NEW n, n = Now
  PROVE  Drops(n, k')
  <1>1. PICK px : px = [p \in Proxy |-> IF n.proxy[p].conn = "live" THEN [n.proxy[p] EXCEPT !.conn = "dead"]
                                        ELSE n.proxy[p]]
    OBVIOUS
  <1>2. PICK cl : cl = [c \in Call |-> IF n.call[c].st = "sent" /\ ~Answered(c)
                                       THEN [n.call[c] EXCEPT !.lost = TRUE] ELSE n.call[c]]
    OBVIOUS
  <1>3. /\ Mid(n) /\ n \in AnyClient
        /\ \A c \in Call : n.call[c] \in AnyCall
        /\ \A p \in Proxy : n.proxy[p] \in ProxyState
    BY NowFacts DEF Mid, AnyClient
  <1>4. k' = [n EXCEPT !.link = "dropped", !.proxy = px, !.call = cl]
    BY <1>1, <1>2, <1>3 DEF Drop, AnyClient
  <1>5. \A c \in Call : /\ cl[c] \in AnyCall /\ cl[c].st = n.call[c].st /\ cl[c].op = n.call[c].op
                        /\ cl[c].told = n.call[c].told /\ cl[c].unnoticed = n.call[c].unnoticed
                        /\ cl[c].old = n.call[c].old /\ cl[c].cut = n.call[c].cut
                        /\ cl[c].watched = n.call[c].watched
                        /\ (cl[c].lost <=> n.call[c].lost \/ (n.call[c].st = "sent" /\ ~Answered(c)))
                        /\ (n.call[c].st # "sent" => cl[c] = n.call[c])
    BY ZenonT(30), <1>2, <1>3 DEF AnyCall
  <1>6. \A p \in Proxy : /\ px[p] \in ProxyState /\ px[p].used = n.proxy[p].used /\ px[p].path = n.proxy[p].path
                         /\ px[p].status = n.proxy[p].status
                         /\ px[p].conn = (IF n.proxy[p].conn = "live" THEN "dead" ELSE n.proxy[p].conn)
                         /\ (n.proxy[p].conn # "live" => px[p] = n.proxy[p])
    BY <1>1, <1>3 DEF ProxyState
  <1>7. cl \in [Call -> AnyCall] /\ px \in [Proxy -> ProxyState]
    BY <1>1, <1>2, <1>5, <1>6
  <1>8. /\ k' \in AnyClient /\ k'.call = cl /\ k'.proxy = px /\ k'.link = "dropped"
        /\ k'.service = n.service /\ k'.starting = n.starting /\ k'.process = n.process
        /\ k'.registering = n.registering /\ k'.ended = n.ended
        /\ k'.state = n.state /\ k'.info = n.info /\ k'.known = n.known /\ k'.methods = n.methods
    BY ZenonT(30), <1>3, <1>4, <1>7 DEF AnyClient
  <1>9. \A c \in Call : /\ k'.call[c].st = "free" => k'.call[c] = FreeCall
                        /\ k'.call[c].st = "failing" => c \in Operation /\ k'.call[c].unnoticed
                        /\ k'.call[c].st = "sent" => k'.call[c].watched
    BY <1>3, <1>5, <1>8 DEF Mid
  <1>10. \A s \in Service : /\ k'.call[s].op = "register" /\ ~k'.call[s].unnoticed
                            /\ k'.call[s].st # "failed"
                            /\ ~k'.proxy[s].used => k'.call[s].st = "free" /\ k'.proxy[s] = NoProxy
                            /\ k'.proxy[s].status # "Invalid"
    <2> SUFFICES ASSUME NEW s \in Service
                 PROVE  /\ k'.call[s].op = "register" /\ ~k'.call[s].unnoticed
                        /\ k'.call[s].st # "failed"
                        /\ ~k'.proxy[s].used => k'.call[s].st = "free" /\ k'.proxy[s] = NoProxy
                        /\ k'.proxy[s].status # "Invalid"
      OBVIOUS
    <2>1. s \in Call /\ s \in Proxy
      BY Slots
    <2>2. ~n.proxy[s].used => n.proxy[s].conn # "live"
      BY <1>3 DEF Mid, NoProxy
    <2> QED
      BY <1>3, <1>5, <1>6, <1>8, <2>1, <2>2 DEF Mid
  <1>11. Main \in Proxy
    BY Slots
  <1>12. /\ k'.proxy[Main].used
         /\ k'.proxy[Main].status = "Ready" => k'.proxy[Main].path /\ k'.proxy[Main].conn # "none"
         /\ ~k'.proxy[Main].path => \A c \in Operation : k'.call[c].st = "sent" => k'.call[c].cut
    <2>1. /\ n.proxy[Main].used
          /\ n.proxy[Main].status = "Ready" => n.proxy[Main].path /\ n.proxy[Main].conn # "none"
          /\ ~n.proxy[Main].path => \A c \in Operation : n.call[c].st = "sent" => n.call[c].cut
      BY <1>3 DEF Mid
    <2> QED
      BY <1>5, <1>6, <1>8, <1>11, <2>1, Slots
  <1>13. Mid(k')
    BY <1>8, <1>9, <1>10, <1>12 DEF Mid
  <1>14. Stays(n, k')
    BY <1>5, <1>6, <1>8, <1>11, <1>13 DEF Stays, SameCalls
  <1> QED
    BY <1>5, <1>6, <1>8, <1>14 DEF Drops

LEMMA DropInv == Inv /\ Drop => Inv' /\ k'.ended = {}
  <1> SUFFICES ASSUME Inv, Drop PROVE Inv' /\ k'.ended = {}
    OBVIOUS
  <1>1. PICK n : n = Now
    OBVIOUS
  <1>2. n.call = k.call /\ Mid(n) /\ Drops(n, k')
    BY <1>1, NowFacts, DropDrops
  <1>3. /\ object' = object /\ daemon' \in BOOLEAN /\ remote' \in BOOLEAN /\ version' \in Version
        /\ inbox \in Seq(Message) /\ Once(inbox) /\ inbox' = inbox
    BY DEF Drop, Inv
  <1>4. LostOk'
    <2>1. /\ lost.links + 1 \in 0..MaxLost /\ lost.unsignalled + 1 \in 0..MaxLost
          /\ lost.unsignalled + 1 <= lost.links + 1 /\ (lost.links + 1) + lost.objects <= MaxLost
      BY FaultsAssumption DEF Drop, Inv, LostOk, LostType
    <2>2. lost' = [lost EXCEPT !.links = lost.links + 1, !.unsignalled = lost.unsignalled + 1]
      BY DEF Drop, Inv, LostOk, LostType
    <2> QED
      BY <2>1, <2>2 DEF Inv, LostOk, LostType
  <1>5. PICK in : in = inbox
    OBVIOUS
  <1>6. RoomLeft(n, in)
    BY <1>2, <1>5 DEF Inv, RoomLeft, FreeCalls, Unserved
  <1>7. Replies(k', in)
    <2> SUFFICES ASSUME NEW i \in DOMAIN inbox, IsReply(inbox[i])
                 PROVE  k'.call[inbox[i].call].st = "sent" /\ ~k'.call[inbox[i].call].lost
      BY <1>5 DEF Replies
    <2>1. inbox[i].call \in Call /\ Answered(inbox[i].call)
      BY <1>3, InboxIs, MessageType DEF Answered, IsReply
    <2>2. k.call[inbox[i].call].st = "sent" /\ ~k.call[inbox[i].call].lost
      BY DEF Inv, Replies
    <2> QED
      BY <1>2, <2>1, <2>2 DEF Drops
  <1>8. Stays(n, k')
    BY <1>2 DEF Drops
  <1> QED
    BY <1>1, <1>3, <1>4, <1>5, <1>6, <1>7, <1>8, StaysStep

\* A signal that is read is no reply.
LEMMA SignalRead ==
  ASSUME Inv, inbox # << >>, Head(inbox).type # "reply", NEW n, n = Now, NEW in, in = Tail(inbox)
  PROVE  /\ in \in Seq(Message) /\ Once(in) /\ Replies(n, in) /\ RoomLeft(n, in) /\ Unserved(n, in) \subseteq Unserved(n, inbox)
         /\ \A i \in DOMAIN in : IsReply(in[i]) => /\ in[i].call \in Call
                                                   /\ \E j \in DOMAIN inbox : inbox[j] = in[i]
  <1>1. inbox \in Seq(Message) /\ Once(inbox) /\ n.call = k.call
    BY NowFacts DEF Inv
  <1>2. Replies(n, inbox) /\ RoomLeft(n, inbox)
    BY <1>1 DEF Inv, Replies, RoomLeft, FreeCalls, Unserved
  <1>3. in \in Seq(Message) /\ Once(in) /\ Cardinality(UpdatesIn(in)) <= Cardinality(UpdatesIn(inbox))
    BY <1>1, TailIs, OnceTail, TailUpdates
  <1>4. \A i \in DOMAIN in : /\ i + 1 \in DOMAIN inbox /\ in[i] = inbox[i + 1] /\ in[i] \in Message
    BY <1>1, <1>3, TailIs, InboxIs
  <1>5. \A j \in DOMAIN inbox : IsReply(inbox[j]) => \E i \in DOMAIN in : in[i] = inbox[j]
    <2> SUFFICES ASSUME NEW j \in DOMAIN inbox, IsReply(inbox[j])
                 PROVE  \E i \in DOMAIN in : in[i] = inbox[j]
      OBVIOUS
    <2>1. j # 1
      BY <1>1, TailIs DEF IsReply
    <2>2. j - 1 \in DOMAIN in /\ in[j - 1] = inbox[j]
      BY <1>1, <2>1, TailIs
    <2> QED
      BY <2>2
  <1>6. Replies(n, in)
    BY <1>2, <1>4 DEF Replies
  <1>7. Unserved(n, in) \subseteq Unserved(n, inbox)
    BY <1>5 DEF Unserved
  <1>8. RoomLeft(n, in)
    BY <1>1, <1>2, <1>3, <1>7, RoomKeeps
  <1>9. \A i \in DOMAIN in : IsReply(in[i]) => in[i].call \in Call
    BY <1>4, MessageType
  <1> QED
    BY <1>3, <1>4, <1>6, <1>7, <1>8, <1>9

\* The remote object is gone.
PathGone(r, q) ==
    /\ Stays(r, q) /\ q.state = r.state /\ q.info = r.info /\ q.known = r.known /\ q.methods = r.methods
    /\ ~q.proxy[Main].path
    /\ \A e \in Call : r.call[e].st = "sent" => q.call[e].st = "sent" /\ q.call[e].lost = r.call[e].lost

LEMMA KeepsStays ==
  ASSUME NEW a \in AnyCall, NEW x \in AnyCall, NEW b \in AnyCall, CallKeeps(x, b),
         x.st = a.st, x.op = a.op, x.told = a.told, x.unnoticed = a.unnoticed, x.lost = a.lost
  PROVE  /\ b.st = a.st \/ (a.st = "queued" /\ b.st = "sent")
         /\ b.op = a.op /\ b.told = a.told /\ b.unnoticed = a.unnoticed
         /\ a.st = "sent" => b.st = "sent" /\ b.lost = a.lost
  BY DEF CallKeeps, AnyCall

LEMMA PathGoneStays ==
  ASSUME NEW r, Mid(r), NEW z, z = CallsOld(r), NEW q, q = SetObjectPath(z, Main, FALSE)
  PROVE  PathGone(r, q)
  <1>1. /\ Stays(r, z) /\ z.proxy = r.proxy
        /\ z.state = r.state /\ z.info = r.info /\ z.known = r.known /\ z.methods = r.methods
        /\ \A e \in Call : z.call[e].st = r.call[e].st /\ z.call[e].lost = r.call[e].lost
    BY CallsOldStays
  <1>2. /\ Mid(z) /\ z.process = r.process /\ z.registering = r.registering /\ z.ended = r.ended
        /\ \A e \in Call : /\ z.call[e].op = r.call[e].op /\ z.call[e].told = r.call[e].told
                            /\ z.call[e].unnoticed = r.call[e].unnoticed
    BY <1>1 DEF Stays, SameCalls
  <1>3. MainSet(z, q) /\ ~q.proxy[Main].path /\ \A c \in Operation : CallKeeps(z.call[c], q.call[c])
    BY <1>2, SetObjectPathSets
  <1>4. Mid(q) /\ SameObject(z, q) /\ \A e \in Call : CallKeeps(z.call[e], q.call[e])
    BY <1>3, Slots DEF MainSet
  <1>5. \A e \in Call : z.call[e] \in AnyCall /\ q.call[e] \in AnyCall /\ r.call[e] \in AnyCall
    <2>1. r \in AnyClient /\ z \in AnyClient /\ q \in AnyClient
      BY <1>2, <1>4 DEF Mid
    <2> QED
      BY <2>1 DEF AnyClient
  <1>6. \A e \in Call : /\ q.call[e].st = r.call[e].st \/ (r.call[e].st = "queued" /\ q.call[e].st = "sent")
                        /\ q.call[e].op = r.call[e].op /\ q.call[e].told = r.call[e].told
                        /\ q.call[e].unnoticed = r.call[e].unnoticed
                        /\ r.call[e].st = "sent" => q.call[e].st = "sent" /\ q.call[e].lost = r.call[e].lost
    <2> SUFFICES ASSUME NEW e \in Call
                 PROVE  /\ q.call[e].st = r.call[e].st \/ (r.call[e].st = "queued" /\ q.call[e].st = "sent")
                        /\ q.call[e].op = r.call[e].op /\ q.call[e].told = r.call[e].told
                        /\ q.call[e].unnoticed = r.call[e].unnoticed
                        /\ r.call[e].st = "sent" => q.call[e].st = "sent" /\ q.call[e].lost = r.call[e].lost
      OBVIOUS
    <2>1. PICK a : a = r.call[e]
      OBVIOUS
    <2>2. PICK x : x = z.call[e]
      OBVIOUS
    <2>3. PICK b : b = q.call[e]
      OBVIOUS
    <2>4. /\ a \in AnyCall /\ x \in AnyCall /\ b \in AnyCall /\ CallKeeps(x, b)
          /\ x.st = a.st /\ x.op = a.op /\ x.told = a.told /\ x.unnoticed = a.unnoticed /\ x.lost = a.lost
      BY <1>1, <1>2, <1>4, <1>5, <2>1, <2>2, <2>3
    <2>5. /\ b.st = a.st \/ (a.st = "queued" /\ b.st = "sent")
          /\ b.op = a.op /\ b.told = a.told /\ b.unnoticed = a.unnoticed
          /\ a.st = "sent" => b.st = "sent" /\ b.lost = a.lost
      BY <2>4, KeepsStays
    <2> QED
      BY <2>1, <2>3, <2>5
  <1>7. /\ q.process = r.process /\ q.registering = r.registering /\ q.ended = r.ended
        /\ q.state = r.state /\ q.info = r.info /\ q.known = r.known /\ q.methods = r.methods
    BY <1>1, <1>2, <1>4 DEF SameObject
  <1>8. SameCalls(r, q)
    BY <1>6 DEF SameCalls
  <1>9. Stays(r, q)
    BY <1>3, <1>4, <1>7, <1>8 DEF Stays
  <1> QED
    BY <1>3, <1>6, <1>7, <1>9 DEF PathGone

LEMMA ReadSignalInv == Inv /\ ReadSignal => Inv' /\ k'.ended = {}
  <1> SUFFICES ASSUME Inv, ReadSignal PROVE Inv' /\ k'.ended = {}
    OBVIOUS
  <1>1. PICK n : n = Now
    OBVIOUS
  <1>2. PICK in : in = inbox'
    OBVIOUS
  <1>3. /\ n.call = k.call /\ n.proxy = k.proxy /\ n.process = k.process /\ Mid(n)
        /\ ClientOk(n, IsSession) /\ n.ended = {} /\ daemon \in BOOLEAN
    BY <1>1, NowFacts DEF Inv
  <1>4. inbox # << >> /\ in = Tail(inbox) /\ Head(inbox).type # "reply" /\ inbox \in Seq(Message)
    BY <1>2 DEF ReadSignal, Inv
  <1>5. /\ in \in Seq(Message) /\ Once(in) /\ Replies(n, in) /\ RoomLeft(n, in)
        /\ Unserved(n, in) \subseteq Unserved(n, inbox)
        /\ \A i \in DOMAIN in : IsReply(in[i]) => /\ in[i].call \in Call
                                                  /\ \E j \in DOMAIN inbox : inbox[j] = in[i]
    BY <1>1, <1>4, SignalRead
  <1>6. object' = object /\ daemon' \in BOOLEAN /\ remote' \in BOOLEAN /\ version' \in Version
    BY DEF ReadSignal, Inv
  <1>7. LostOk'
    <2>1. PICK b \in BOOLEAN : b = (lost.unheard \/ ~Hears)
      BY DEF Inv, LostOk, LostType
    <2>2. lost' = [lost EXCEPT !.unheard = b]
      BY <2>1 DEF ReadSignal, Inv, LostOk, LostType
    <2> QED
      BY <2>2 DEF Inv, LostOk, LostType
  <1>8. ASSUME Stays(n, k'), Replies(k', in)
        PROVE  Inv' /\ k'.ended = {}
    BY <1>1, <1>2, <1>5, <1>6, <1>7, <1>8, StaysStep
  <1>9. CASE ~Hears
    <2>1. k' = n
      BY <1>1, <1>9 DEF ReadSignal
    <2> QED
      BY <1>3, <1>5, <1>8, <2>1, StaysSelf
  <1>10. CASE Hears /\ Head(inbox).type = "removed"
    <2>1. k' = [n EXCEPT !.state = "Removed"] /\ "Removed" \in IdentityStates
      BY <1>1, <1>10 DEF ReadSignal, InfoRemoved, IdentityStates
    <2>2. /\ Mid(k') /\ k'.call = n.call /\ k'.proxy = n.proxy /\ k'.ended = n.ended
          /\ k'.registering = n.registering /\ k'.process = n.process
      BY <1>3, <2>1, StateSet
    <2> QED
      BY <1>5, <1>8, <2>2 DEF Stays, SameCalls, Replies
  <1>11. CASE Hears /\ Head(inbox).type = "unregistered"
    <2>1. PICK z : z = CallsOld(n)
      OBVIOUS
    <2>2. PICK q : q = SetObjectPath(z, Main, FALSE)
      OBVIOUS
    <2>3. Stays(n, q) /\ \A e \in Call : n.call[e].st = "sent" => q.call[e].st = "sent" /\ q.call[e].lost = n.call[e].lost
      <3>1. PathGone(n, q)
        BY <1>3, <2>1, <2>2, PathGoneStays
      <3> QED
        BY <3>1 DEF PathGone
    <2>4. Stays(n, k') /\ k'.call = q.call
      <3>1. CASE IsSession
        BY <1>1, <1>11, <2>1, <2>2, <2>3, <3>1 DEF ReadSignal, SessionObjectDestroyed
      <3>2. CASE ~IsSession
        <4>1. k' = [q EXCEPT !.state = "NeedsRegistration"] /\ "NeedsRegistration" \in IdentityStates
          BY <1>1, <1>11, <2>1, <2>2, <3>2 DEF ReadSignal, IdentityObjectDestroyed, IdentityStates
        <4>2. /\ Mid(k') /\ k'.call = q.call /\ k'.proxy = q.proxy /\ k'.ended = q.ended
              /\ k'.registering = q.registering /\ k'.process = q.process
          BY <2>3, <4>1, StateSet DEF Stays
        <4> QED
          BY <2>3, <4>2 DEF Stays, SameCalls
      <3> QED
        BY <3>1, <3>2
    <2>5. Replies(k', in)
      BY <1>5, <2>3, <2>4 DEF Replies
    <2> QED
      BY <1>8, <2>4, <2>5
  <1>12. CASE Hears /\ Head(inbox).type = "updated"
    <2>1. k' = UpdateContents(n, daemon)
      BY <1>1, <1>12 DEF ReadSignal, InfoUpdated
    <2>2. CanRegister(n, n.state = "PendingRegistration")
      BY <1>3, <1>12 DEF Hears, Mid, CanRegister
    <2>3. /\ Cardinality(FreeCalls(n, Operation)) >= Cardinality(Unserved(n, inbox)) + Cardinality(UpdatesIn(in)) + 1
          /\ FreeCalls(n, Operation) # {}
      <3>1. Cardinality(UpdatesIn(in)) + 1 <= Cardinality(UpdatesIn(inbox))
        BY <1>4, <1>12, TailUpdates
      <3>2. RoomLeft(n, inbox)
        BY <1>3 DEF Inv, RoomLeft, FreeCalls, Unserved
      <3>3. /\ Cardinality(FreeCalls(n, Operation)) \in Nat /\ IsFiniteSet(FreeCalls(n, Operation))
            /\ Cardinality(Unserved(n, inbox)) \in Nat
            /\ Cardinality(UpdatesIn(in)) \in Nat /\ Cardinality(UpdatesIn(inbox)) \in Nat
        BY <1>4, <1>5, RoomIs, InboxIs
      <3>4. Cardinality(FreeCalls(n, Operation)) >= Cardinality(Unserved(n, inbox)) + Cardinality(UpdatesIn(in)) + 1
        BY <3>1, <3>2, <3>3 DEF RoomLeft
      <3>5. Cardinality(FreeCalls(n, Operation)) # 0
        BY <3>3, <3>4
      <3> QED
        BY <3>3, <3>4, <3>5, FS_EmptySet
    <2>4. PICK c : c = Min(FreeCalls(n, Operation))
      OBVIOUS
    <2>5. PICK op : op = "getInfo"
      OBVIOUS
    <2>6. Posed(n, k', c, op) /\ c \in Operation /\ n.call[c].st = "free"
      BY <1>3, <2>1, <2>2, <2>3, <2>4, <2>5, UpdateContentsPoses, MinFree
    <2>7. /\ Poses(n, k', c, op) /\ Mid(k') /\ Rest(n, k', c) /\ k'.ended = {}
          /\ k'.process = n.process /\ k'.registering = n.registering /\ SameMain(n, k')
      BY <1>3, <2>6 DEF Posed, Poses
    <2>8. ClientOk(k', IsSession)
      <3>1. PICK session \in BOOLEAN : session = IsSession
        BY DEF IsSession
      <3>2. session /\ k'.registering => ~k'.proxy[Main].path
        BY <1>3, <2>7, <3>1 DEF SameMain, ClientOk
      <3>3. ClientOk(n, session)
        BY <1>3, <3>1
      <3>4. ClientOk(k', session)
        BY <1>3, <2>5, <2>6, <2>7, <3>2, <3>3, PosesOk
      <3> QED
        BY <3>1, <3>4
    <2>9. Replies(k', in)
      <3>1. \A i \in DOMAIN in : IsReply(in[i]) =>
               /\ in[i].call \in Call /\ in[i].call # c
               /\ \E j \in DOMAIN in : IsReply(in[j]) /\ in[j].call = in[i].call
        BY <1>5, <2>6 DEF Replies
      <3> QED
        BY <1>5, <2>7, <3>1, RestReplies
    <2>10. RoomLeft(k', in)
      <3>1. /\ \A e \in Operation : e # c /\ n.call[e].st = "free" => k'.call[e].st = "free"
            /\ \A e \in Operation : e # c /\ k'.call[e].st # "free" => n.call[e].st # "free"
                                                                      /\ k'.call[e].op = n.call[e].op
        BY <1>3, <2>7, RestFree
      <3>2. k'.call[c].op = "getInfo"
        BY <2>5, <2>7 DEF Poses, IsNew
      <3>3. FreeCalls(n, Operation) \ {c} \subseteq FreeCalls(k', Operation)
        BY <3>1 DEF FreeCalls
      <3>4. Unserved(k', in) \subseteq Unserved(n, in)
        BY <3>1, <3>2 DEF Unserved
      <3>5. PICK S : S = Unserved(n, inbox)
        OBVIOUS
      <3>6. IsFiniteSet(S) /\ Unserved(k', in) \subseteq S
        BY <1>5, <3>4, <3>5, RoomIs
      <3>7. Cardinality(FreeCalls(n, Operation)) >= Cardinality(S) + Cardinality(UpdatesIn(in)) + 1
        BY <2>3, <3>5
      <3> QED
        BY <1>5, <3>3, <3>6, <3>7, RoomTaken
    <2> QED
      BY <1>2, <1>5, <1>6, <1>7, <2>7, <2>8, <2>9, <2>10 DEF Inv, IsSession
  <1>13. Head(inbox).type \in {"reply", "updated", "removed", "unregistered"}
    BY <1>4, TailIs, MessageType
  <1> QED
    BY <1>4, <1>9, <1>10, <1>11, <1>12, <1>13

-----------------------------------------------------------------------------
\* The constructors.

LEMMA NoCallsMid ==
  ASSUME NEW known \in BOOLEAN, NEW r, r = [NoCalls EXCEPT !.known = known]
  PROVE  /\ Mid(r) /\ r.ended = {} /\ r.process = NoProcess /\ ~r.registering /\ ~r.proxy[Main].path
         /\ \A c \in Call : r.call[c] = FreeCall
         /\ \A s \in Service : ~r.proxy[s].used
         /\ r.link = "none" /\ r.methods = << >> /\ r.proxy[Main].conn = "none"
         /\ r.proxy[Main].status = "Incomplete"
  <1>1. PICK px : px = [p \in Proxy |-> [NoProxy EXCEPT !.used = (p = Main)]]
    OBVIOUS
  <1>2. PICK cl : cl = [c \in Call |-> FreeCall]
    OBVIOUS
  <1>3. px \in [Proxy -> ProxyState]
    BY <1>1 DEF NoProxy, ProxyState
  <1>4. cl \in [Call -> AnyCall]
    BY <1>2, FreeCallType
  <1>5. r = [proxy |-> px, call |-> cl, ended |-> {}, link |-> "none",
             service |-> "unknown", starting |-> FALSE, state |-> "NeedsRegistration",
             info |-> NoVersion, known |-> known, registering |-> FALSE, process |-> NoProcess,
             methods |-> << >>]
    BY <1>1, <1>2 DEF NoCalls
  <1>6. "NeedsRegistration" \in IdentityStates /\ NoVersion \in Version /\ << >> \in Seq(Operation)
    BY MaxVersionAssumption DEF IdentityStates, NoVersion, Version
  <1>7. /\ r \in AnyClient /\ r.proxy = px /\ r.call = cl /\ r.ended = {}
        /\ r.process = NoProcess /\ r.registering = FALSE /\ r.link = "none" /\ r.methods = << >>
    <2>1. PICK state \in IdentityStates : state = "NeedsRegistration"
      BY <1>6
    <2>2. PICK info \in Version : info = NoVersion
      BY <1>6
    <2>3. PICK methods \in Seq(Operation) : methods = << >>
      BY <1>6
    <2>4. PICK process \in Operation \cup {NoProcess} : process = NoProcess
      OBVIOUS
    <2>5. PICK ended \in SUBSET [told : Nat, unnoticed : BOOLEAN] : ended = {}
      OBVIOUS
    <2>6. r = [proxy |-> px, call |-> cl, ended |-> ended, link |-> "none",
               service |-> "unknown", starting |-> FALSE, state |-> state,
               info |-> info, known |-> known, registering |-> FALSE, process |-> process,
               methods |-> methods]
      BY <1>5, <2>1, <2>2, <2>3, <2>4, <2>5
    <2>7. PICK f \in BOOLEAN : f = FALSE
      OBVIOUS
    <2>8. r = [proxy |-> px, call |-> cl, ended |-> ended, link |-> "none",
               service |-> "unknown", starting |-> f, state |-> state,
               info |-> info, known |-> known, registering |-> f, process |-> process,
               methods |-> methods]
      BY <2>6, <2>7
    <2>9. PICK link \in {"none", "up", "dropped"} : link = "none"
      OBVIOUS
    <2>10. PICK service \in {"unknown", "activating", "activated"} : service = "unknown"
      OBVIOUS
    <2>11. [proxy |-> px, call |-> cl, ended |-> ended, link |-> link,
            service |-> service, starting |-> f, state |-> state,
            info |-> info, known |-> known, registering |-> f, process |-> process,
            methods |-> methods] \in AnyClient
      BY <1>3, <1>4 DEF AnyClient
    <2>12. r \in AnyClient
      BY <2>8, <2>9, <2>10, <2>11
    <2>13. r.link = "none" /\ r.registering = FALSE
      BY <1>5
    <2> QED
      BY <2>3, <2>4, <2>5, <2>6, <2>12, <2>13
  <1>8. \A c \in Call : r.call[c] = FreeCall
    BY <1>2, <1>7
  <1>9. r.proxy[Main].used /\ ~r.proxy[Main].path /\ r.proxy[Main].status = "Incomplete"
        /\ r.proxy[Main].conn = "none"
    <2>1. r.proxy[Main] = [NoProxy EXCEPT !.used = TRUE]
      BY <1>1, <1>7, Slots
    <2> QED
      BY <2>1 DEF NoProxy
  <1>10. \A s \in Service : r.proxy[s] = NoProxy
    <2> SUFFICES ASSUME NEW s \in Service PROVE r.proxy[s] = NoProxy
      OBVIOUS
    <2>1. s \in Proxy /\ s # Main
      BY Slots
    <2>2. r.proxy[s] = [NoProxy EXCEPT !.used = FALSE]
      BY ZenonT(30), <1>1, <1>7, <2>1
    <2> QED
      BY <2>2 DEF NoProxy
  <1>11. NoProxy.status = "Incomplete" /\ NoProxy.used = FALSE
    BY DEF NoProxy
  <1>12. Mid(r)
    BY <1>7, <1>8, <1>9, <1>10, <1>11, FreeCallType, Slots DEF Mid
  <1> QED
    BY <1>7, <1>8, <1>9, <1>10, <1>11, <1>12

\* No call of the object is made yet.
Fresh(r) == /\ Mid(r) /\ r.ended = {} /\ r.process = NoProcess
            /\ \A c \in Operation : r.call[c].st = "free"
            /\ \A s \in Service : r.call[s].told = 0

LEMMA KeepsFresh ==
  ASSUME NEW r, NEW q, Fresh(r), Mid(q), q.ended = r.ended, q.process = r.process,
         \A c \in Operation : CallKeeps(r.call[c], q.call[c]),
         \A s \in Service : GoesOn(r.call[s], q.call[s])
  PROVE  Fresh(q)
  <1>1. \A c \in Call : r.call[c] \in AnyCall /\ q.call[c] \in AnyCall
    BY DEF Fresh, Mid, AnyClient
  <1>2. \A c \in Operation : q.call[c].st = "free"
    BY <1>1, Slots, KeepsFree DEF Fresh, Mid, CallKeeps
  <1>3. \A s \in Service : q.call[s].told = 0
    BY DEF Fresh, GoesOn, CallKeeps
  <1> QED
    BY <1>2, <1>3 DEF Fresh

LEMMA FreshOk ==
  ASSUME NEW r, Fresh(r), IsSession /\ r.registering => ~r.proxy[Main].path
  PROVE  ClientOk(r, IsSession) /\ r.ended = {} /\ FreeCalls(r, Operation) = Operation
  <1>1. PICK session \in BOOLEAN : session = IsSession
    BY DEF IsSession
  <1>2. \A c \in Call : /\ Fit(r.call[c], session)
                        /\ c \in Operation /\ r.call[c].st # "free" => r.call[c].op # "register"
    <2> SUFFICES ASSUME NEW c \in Call PROVE Fit(r.call[c], session)
      BY DEF Fresh
    <2>1. CASE c \in Operation
      BY <2>1, FreeCallType, Slots DEF Fresh, Mid, Fit
    <2>2. CASE c \in Service
      BY <2>2 DEF Fresh, Mid, Fit
    <2> QED
      BY <2>1, <2>2, Slots
  <1>3. Mid(r) /\ r.ended = {} /\ r.process = NoProcess
    BY DEF Fresh
  <1>4. ClientOk(r, session)
    BY <1>1, <1>2, <1>3 DEF ClientOk, Calls
  <1>5. FreeCalls(r, Operation) = Operation
    BY DEF Fresh, FreeCalls
  <1> QED
    BY <1>1, <1>3, <1>4, <1>5

LEMMA ConstructorFresh ==
  ASSUME Init
  PROVE  Fresh(k) /\ (IsSession /\ k.registering => ~k.proxy[Main].path)
  <1>1. PICK none : none = [NoCalls EXCEPT !.known = (object # "new")]
    OBVIOUS
  <1>2. PICK known \in BOOLEAN : none = [NoCalls EXCEPT !.known = known]
    BY <1>1
  <1>3. PICK new : new = InitConnection(none, daemon)
    OBVIOUS
  <1>0. k = CASE IsSession -> InitInterface(new, daemon)
              [] IsService -> ServiceObject(new)
              [] IsIdentity -> RegisterIdentity(new, daemon)
    <2>1. k = LET made == InitConnection([NoCalls EXCEPT !.known = (object # "new")], daemon)
              IN  CASE IsSession -> InitInterface(made, daemon)
                    [] IsService -> ServiceObject(made)
                    [] IsIdentity -> RegisterIdentity(made, daemon)
      BY Zenon DEF Init
    <2> QED
      BY <1>1, <1>3, <2>1
  <1>4. daemon \in BOOLEAN
    BY DEF Init
  <1>5. /\ Mid(none) /\ none.ended = {} /\ none.process = NoProcess /\ ~none.registering
        /\ ~none.proxy[Main].path
        /\ \A c \in Call : none.call[c] = FreeCall
        /\ \A s \in Service : ~none.proxy[s].used
    BY <1>2, NoCallsMid
  <1>6. Fresh(none)
    BY <1>5, FreeCallType, Slots DEF Fresh
  <1>7. Carries(none, new)
    BY <1>3, <1>4, <1>5, InitConnectionConnects DEF Connects
  <1>8. /\ Mid(new) /\ SameObject(none, new) /\ new.proxy[Main].path = none.proxy[Main].path
        /\ \A c \in Call : CallKeeps(none.call[c], new.call[c])
        /\ \A p \in Proxy : new.proxy[p].used = none.proxy[p].used
    BY <1>7 DEF Carries, Calm, SameMain, SameUsed
  <1>9. new.ended = none.ended /\ new.process = none.process /\ new.registering = none.registering
    BY <1>8 DEF SameObject
  <1>10. Fresh(new) /\ ~new.proxy[Main].path /\ ~new.registering
    BY <1>5, <1>6, <1>8, <1>9, Slots, KeepsFresh DEF GoesOn
  <1>11. HasService(new)
    <2>1. PICK s : s \in Service
      BY CallsAssumption
    <2> QED
      BY <1>5, <1>8, <2>1, Slots DEF HasService
  <1>12. CASE IsSession
    <2>1. PICK q : q = InitInterface(new, daemon)
      OBVIOUS
    <2>2. k = q
      BY <1>0, <1>12, <2>1 DEF IsSession, IsService, IsIdentity
    <2>3. Asked(new, q)
      BY <1>4, <1>8, <1>11, <2>1, InitInterfaceAsks
    <2>4. Fresh(q) /\ q.proxy[Main].path = new.proxy[Main].path
      BY <1>10, <2>3, KeepsFresh DEF Asked, SameMain
    <2> QED
      BY <1>10, <2>2, <2>4
  <1>13. CASE IsService
    <2>1. PICK q : q = SetObjectPath(new, Main, TRUE)
      OBVIOUS
    <2>2. k = q
      BY <1>0, <1>13, <2>1 DEF ServiceObject, IsSession, IsService, IsIdentity
    <2>3. MainSet(new, q)
      BY <1>8, <2>1, SetObjectPathSets
    <2>4. \A c \in Operation : CallKeeps(new.call[c], q.call[c])
      BY <1>10, <2>3 DEF MainSet, Fresh, FailsAs
    <2>5. Mid(q) /\ q.ended = new.ended /\ q.process = new.process
          /\ \A s \in Service : CallKeeps(new.call[s], q.call[s])
      BY <2>3 DEF MainSet, SameObject
    <2>6. Fresh(q)
      BY <1>10, <2>4, <2>5, KeepsFresh DEF GoesOn
    <2> QED
      BY <1>13, <2>2, <2>6 DEF IsSession, IsService
  <1>14. CASE IsIdentity
    <2>1. PICK q : q = RegisterIdentity(new, daemon)
      OBVIOUS
    <2>2. k = q
      BY <1>0, <1>14, <2>1 DEF IsIdentity
    <2>3. Asked(new, q)
      BY <1>4, <1>8, <1>11, <2>1, RegisterIdentityAsks
    <2>4. Fresh(q)
      BY <1>10, <2>3, KeepsFresh DEF Asked
    <2> QED
      BY <1>14, <2>2, <2>4 DEF IsIdentity
  <1> QED
    BY <1>12, <1>13, <1>14 DEF IsIdentity

LEMMA InitInv == Init => Inv /\ k.ended = {}
  <1> SUFFICES ASSUME Init PROVE Inv /\ k.ended = {}
    OBVIOUS
  <1>1. ClientOk(k, IsSession) /\ k.ended = {} /\ FreeCalls(k, Operation) = Operation
    BY ConstructorFresh, FreshOk
  <1>2. /\ object \in Objects /\ daemon \in BOOLEAN /\ remote \in BOOLEAN /\ inbox = << >>
        /\ inbox \in Seq(Message) /\ DOMAIN inbox = {}
    <2>1. object \in Objects /\ daemon \in BOOLEAN /\ remote = FALSE /\ inbox = << >>
      BY DEF Init
    <2>2. inbox \in Seq(Message)
      BY <2>1
    <2>3. DOMAIN inbox = {}
      BY <2>1
    <2>4. remote \in BOOLEAN
      BY <2>1
    <2> QED
      BY <2>1, <2>2, <2>3, <2>4
  <1>3. version \in Version
    BY MaxVersionAssumption DEF Init, Version, NoVersion
  <1>4. LostOk
    BY FaultsAssumption DEF Init, LostOk, LostType
  <1>5. Replies(k, inbox) /\ Once(inbox)
    BY <1>2 DEF Replies, Once
  <1>6. RoomLeft(k, inbox)
    <2>1. UpdatesIn(inbox) = {} /\ Unserved(k, inbox) = {}
      BY <1>1, <1>2 DEF UpdatesIn, Unserved, FreeCalls
    <2>2. Cardinality(UpdatesIn(inbox)) = 0 /\ Cardinality(Unserved(k, inbox)) = 0
      BY <2>1, FS_EmptySet
    <2>3. Cardinality(FreeCalls(k, Operation)) \in Nat
      BY RoomIs
    <2> QED
      BY <2>2, <2>3 DEF RoomLeft
  <1> QED
    BY <1>1, <1>2, <1>3, <1>4, <1>5, <1>6 DEF Inv

-----------------------------------------------------------------------------
\* Every step.

\* An end that is not reported: the reply that is read is the one to call c.
Unreported(c, result) ==
    /\ ReadReply /\ inbox # << >> /\ IsReply(Head(inbox)) /\ Head(inbox).call = c /\ Head(inbox).result = result
    /\ Exempt(Now, c, result) /\ ~ToRequeue(k.call[c], result)

Reports == EndsWell(Now, k') \/ \E c \in Call, result \in {"ok", "denied", "unknown"} : Unreported(c, result)

LEMMA QuietReports == ASSUME k'.ended = {} PROVE Reports
  BY DEF Reports, EndsWell

LEMMA ReadReplyReports == Inv /\ ReadReply => Inv' /\ Reports
  <1> SUFFICES ASSUME Inv, ReadReply PROVE Inv' /\ Reports
    OBVIOUS
  <1>1. PICK c : c = Head(inbox).call
    OBVIOUS
  <1>2. PICK result : result = Head(inbox).result
    OBVIOUS
  <1>3. inbox # << >> /\ IsReply(Head(inbox))
    BY DEF ReadReply, IsReply
  <1>4. c \in Call /\ result \in {"ok", "denied", "unknown"}
    BY <1>1, <1>2, <1>3, HeadReply
  <1>5. Inv' /\ Concludes(Now, k', c, result)
    BY <1>1, <1>2, ReadReplyInv
  <1>6. Now.call = k.call
    BY NowFacts
  <1>7. EndsWell(Now, k') \/ Unreported(c, result)
    BY <1>1, <1>2, <1>3, <1>5, <1>6 DEF Concludes, Unreported
  <1> QED
    BY <1>4, <1>5, <1>7 DEF Reports

LEMMA CallDisconnectedReports ==
  ASSUME Inv, NEW c \in Call, CallDisconnected(c)
  PROVE  Inv' /\ Reports
  <1>1. PICK n : n = Now
    OBVIOUS
  <1>2. PICK result : result = "disconnected"
    OBVIOUS
  <1>3. Inv' /\ Concludes(n, k', c, result)
    BY <1>1, <1>2, CallDisconnectedInv
  <1>4. ~(Exempt(n, c, result) /\ ~ToRequeue(n.call[c], result))
    <2> SUFFICES ASSUME Exempt(n, c, result) PROVE ToRequeue(n.call[c], result)
      OBVIOUS
    <2>1. c \in Operation /\ IsSession /\ n.registering
      BY <1>2 DEF Exempt
    <2>2. ~n.proxy[Main].path /\ Mid(n) /\ n.call[c].st = "sent"
      BY <1>1, <2>1, NowFacts DEF ClientOk, CallDisconnected
    <2>3. n.call[c].cut
      BY <2>1, <2>2 DEF Mid
    <2> QED
      BY <1>2, <2>3 DEF ToRequeue
  <1>5. EndsWell(n, k')
    BY <1>3, <1>4 DEF Concludes
  <1> QED
    BY <1>1, <1>3, <1>5 DEF Reports

LEMMA ApplicationInv == Inv /\ Application => Inv' /\ Reports
  <1> SUFFICES ASSUME Inv, Application PROVE Inv' /\ Reports
    OBVIOUS
  <1>1. CASE CancelRequest
    BY <1>1, CancelInv DEF Reports
  <1>2. CASE ~CancelRequest
    <2>1. Inv' /\ k'.ended = {}
      BY <1>2, QueryInv, VerifyRemoveInv, StoreInv, ProcessInv, ChangeIdInv, AskMechanismsInv, AskServiceInv
      DEF Application
    <2> QED
      BY <2>1, QuietReports
  <1> QED
    BY <1>1, <1>2

LEMMA EventLoopInv == Inv /\ EventLoop => Inv' /\ Reports
  <1> SUFFICES ASSUME Inv, EventLoop PROVE Inv' /\ Reports
    OBVIOUS
  <1>1. CASE ReadReply
    BY <1>1, ReadReplyReports
  <1>2. CASE ReadSignal
    BY <1>2, ReadSignalInv, QuietReports
  <1>3. CASE Disconnected \/ Activated \/ ActivationFailed
    BY <1>3, ConnectionInv, QuietReports
  <1> QED
    BY <1>1, <1>2, <1>3 DEF EventLoop

LEMMA EndsInv ==
  ASSUME Inv, NEW c \in Call, Ends(c)
  PROVE  Inv' /\ Reports
  <1>1. CASE PostedFail(c)
    <2>1. Inv' /\ EndsWell(Now, k')
      BY <1>1, PostedFailInv
    <2> QED
      BY <2>1 DEF Reports
  <1>2. CASE CallDisconnected(c)
    BY <1>2, CallDisconnectedReports
  <1>3. CASE ServeUnknown(c) \/ ServeDenied(c)
    BY <1>3, ServeNothingInv, QuietReports
  <1>4. CASE Served(c)
    BY <1>4, ServeInv, QuietReports
  <1> QED
    BY <1>1, <1>2, <1>3, <1>4 DEF Ends, Serve

LEMMA NextInv == Inv /\ Next => Inv' /\ Reports
  <1> SUFFICES ASSUME Inv, Next PROVE Inv' /\ Reports
    OBVIOUS
  <1>1. CASE Application
    BY <1>1, ApplicationInv
  <1>2. CASE EventLoop
    BY <1>2, EventLoopInv
  <1>3. CASE \E c \in Call : Ends(c)
    BY <1>3, EndsInv
  <1>4. CASE StoredByOther \/ Unregister \/ Drop \/ Restart
    BY <1>4, StoredByOtherInv, UnregisterInv, DropInv, RestartInv, QuietReports
  <1> QED
    BY <1>1, <1>2, <1>3, <1>4 DEF Next

LEMMA StutterInv == Inv /\ UNCHANGED vars => Inv'
  <1> SUFFICES ASSUME Inv, UNCHANGED vars PROVE Inv'
    OBVIOUS
  <1>1. /\ object' = object /\ k' = k /\ inbox' = inbox /\ daemon' = daemon /\ remote' = remote
        /\ version' = version /\ lost' = lost
    BY DEF vars
  <1> QED
    BY <1>1 DEF Inv, LostOk, LostType, IsSession

\* The invariant holds of every object of the library (OnFinished, the reply and
\* error slots, setStatus(), update(), and what the daemon may do).
THEOREM InvHolds == Spec => []Inv
  <1>1. Init => Inv
    BY InitInv
  <1>2. Inv /\ [Next]_vars => Inv'
    BY NextInv, StutterInv
  <1> QED
    BY <1>1, <1>2, PTL DEF Spec

\* The client keeps its type: no call is told more than twice what it waits for,
\* and there is always a call and a proxy to make for what signals ask.
THEOREM TypeOKHolds == Spec => []TypeOK
  BY InvHolds, InvTypeOK, PTL

-----------------------------------------------------------------------------
\* The service reports mechanisms for the method they were asked for.

\* The proxy has its path from the constructor, until its connection is lost.
Lives(r) == r.proxy[Main].path /\ r.proxy[Main].conn # "dead"

\* An object that lives no more sends nothing that could be answered.
Mute(r, q, c) ==
    /\ ~Lives(q)
    /\ q.call[c].st = "sent" => q.call[c].lost
    /\ \A e \in Operation : e # c => q.call[e].st = r.call[e].st

LEMMA EnqueueMute ==
  ASSUME NEW r, NEW c \in Operation, NEW d \in BOOLEAN, NEW z, z = QueuedIn(r, c), Mid(z), ~Lives(z)
  PROVE  LET q == Enqueue(r, c, d) IN
         /\ ~Lives(q) /\ \A e \in Operation : q.call[e].st = z.call[e].st
  <1>1. CASE z.proxy[Main].conn # "none"
    <2>1. Enqueue(r, c, d) = z
      BY <1>1, Slots DEF Enqueue, QueuedIn
    <2> QED
      BY <2>1
  <1>2. CASE z.proxy[Main].conn = "none"
    <2>1. ~z.proxy[Main].path
      BY <1>2 DEF Lives
    <2>2. PICK q : q = Enqueue(r, c, d)
      OBVIOUS
    <2>3. Connects(z, q)
      BY <2>2, EnqueueConnects, Slots
    <2>4. ~q.proxy[Main].path
      BY <2>1, <2>3 DEF Connects, Carries, SameMain
    <2> QED
      BY <2>2, <2>3, <2>4 DEF Connects, Carries, Unsent, Lives
  <1> QED
    BY <1>1, <1>2

LEMMA RequeueMute ==
  ASSUME NEW r, Mid(r), NEW c \in Operation, r.call[c].st = "sent", NEW d \in BOOLEAN, ~Lives(r)
  PROVE  Mute(r, Enqueue(r, c, d), c)
  <1>1. r.call[c] \in AnyCall /\ r \in AnyClient /\ c \in Call
    BY Slots DEF Mid, AnyClient
  <1>2. PICK x : x = [r.call[c] EXCEPT !.st = "queued"]
    OBVIOUS
  <1>3. x \in AnyCall /\ x.st = "queued"
    BY <1>1, <1>2 DEF AnyCall
  <1>4. PICK z : z = WithCall(r, c, x)
    OBVIOUS
  <1>5. z = QueuedIn(r, c)
    BY <1>2, <1>4 DEF WithCall, QueuedIn
  <1>6. Puttable(r, c, x)
    BY <1>3, Slots DEF Puttable
  <1>7. HasPut(r, z, c, x)
    BY <1>1, <1>4, <1>6, PutCall
  <1>8. Mid(z) /\ ~Lives(z) /\ z.call[c].st = "queued" /\ \A e \in Operation : e # c => z.call[e] = r.call[e]
    BY <1>3, <1>7, Slots DEF HasPut, Lives
  <1>9. PICK q : q = Enqueue(r, c, d)
    OBVIOUS
  <1>10. ~Lives(q) /\ \A e \in Operation : q.call[e].st = z.call[e].st
    BY <1>5, <1>8, <1>9, EnqueueMute
  <1> QED
    BY <1>8, <1>9, <1>10 DEF Mute

LEMMA SendMute ==
  ASSUME NEW r, Mid(r), NEW c \in Operation, NEW op \in Ops, NEW d \in BOOLEAN, ~Lives(r),
         r.proxy[Main].status # "Invalid"
  PROVE  Mute(r, SendRequest(r, c, op, d), c)
  <1>1. /\ r \in AnyClient /\ c \in Call /\ ProxyOf(c) = Main /\ r.proxy[Main] \in ProxyState
    BY Slots DEF Mid, AnyClient
  <1>2. PICK call : call = [FreeCall EXCEPT !.op = op, !.unnoticed = r.proxy[Main].status = "Invalid"]
    OBVIOUS
  <1>3. call \in AnyCall /\ call.op = op
    BY <1>2 DEF FreeCall, AnyCall
  <1>4. PICK new : new = [r EXCEPT !.call[c] = call]
    OBVIOUS
  <1>5. NewCall(r, c, op) = new
    BY <1>1, <1>2, <1>4 DEF NewCall
  <1>6. new.proxy = r.proxy /\ new.call[c] = call /\ \A x : [new EXCEPT !.call[c] = x] = [r EXCEPT !.call[c] = x]
    BY <1>1, <1>4 DEF AnyClient
  <1>7. PICK q : q = SendRequest(r, c, op, d)
    OBVIOUS
  <1>8. CASE r.proxy[Main].status = "Ready"
    <2>1. PICK x : x = Sent(call, r.proxy[Main].conn = "dead")
      OBVIOUS
    <2>2. q = WithCall(r, c, x)
      BY <1>1, <1>5, <1>6, <1>7, <1>8, <2>1 DEF SendRequest, QueueCall, DoCall, WithCall
    <2>3. r.proxy[Main].path /\ r.proxy[Main].conn = "dead"
      BY <1>8 DEF Mid, Lives
    <2>4. q.call[c] = x /\ q.proxy = r.proxy /\ \A e \in Operation : e # c => q.call[e] = r.call[e]
      BY <1>1, <2>2, Slots DEF WithCall, AnyClient
    <2>5. x.lost
      BY <1>3, <2>1, <2>3 DEF Sent, AnyCall
    <2> QED
      BY <1>7, <2>4, <2>5 DEF Mute, Lives
  <1>9. CASE r.proxy[Main].status = "Incomplete"
    <2>1. PICK x : x = [call EXCEPT !.st = "queued"]
      OBVIOUS
    <2>2. x \in AnyCall /\ x.st = "queued"
      BY <1>3, <2>1 DEF AnyCall
    <2>3. PICK z : z = WithCall(r, c, x)
      OBVIOUS
    <2>4. z = QueuedIn(new, c)
      BY <1>6, <2>1, <2>3 DEF WithCall, QueuedIn
    <2>5. q = Enqueue(new, c, d)
      BY <1>1, <1>5, <1>7, <1>9 DEF SendRequest, QueueCall
    <2>6. Puttable(r, c, x)
      BY <2>2, Slots DEF Puttable
    <2>7. HasPut(r, z, c, x)
      BY <1>1, <2>3, <2>6, PutCall
    <2>8. Mid(z) /\ ~Lives(z) /\ z.call[c].st = "queued" /\ \A e \in Operation : e # c => z.call[e] = r.call[e]
      BY <2>2, <2>7, Slots DEF HasPut, Lives
    <2>9. ~Lives(q) /\ \A e \in Operation : q.call[e].st = z.call[e].st
      BY <2>4, <2>5, <2>8, EnqueueMute
    <2> QED
      BY <1>7, <2>8, <2>9 DEF Mute
  <1> QED
    BY <1>1, <1>8, <1>9 DEF ProxyState

\* The service has one proxy, that is never found lost before it is told.
ServiceState(r) ==
    /\ \A s \in Service : ~r.proxy[s].used
    /\ r.proxy[Main].status # "Invalid"
    /\ \A c \in Operation : /\ r.call[c].st # "failing"
                            /\ r.call[c].st = "sent" => ~r.call[c].old
                            /\ r.call[c].st # "free" => r.call[c].op \in {"mechanisms", "query"}

\* The daemon knows the object, so that it answers.
ServiceReplies(in) ==
    \A i \in DOMAIN in : IsReply(in[i]) /\ in[i].call \in Operation /\ in[i].result \in {"ok", "denied"}

AnsweredIn(in, c) == \E i \in DOMAIN in : in[i].call = c

\* While it lives nothing has been lost; after that what has been lost is not
\* answered, until the client is told and has read what had been answered.
Linked(r, in, unsignalled) ==
    /\ Lives(r) => /\ unsignalled = 0
                   /\ r.proxy[Main].conn = "none" => r.link # "up"
                   /\ \A c \in Operation : r.call[c].st = "sent" => ~r.call[c].lost
    /\ ~Lives(r) => \A c \in Operation : r.call[c].st = "sent" /\ ~r.call[c].lost => AnsweredIn(in, c)
    /\ ~r.proxy[Main].path => in = << >>
    /\ r.proxy[Main].path /\ ~Lives(r) => unsignalled > 0

\* The methods that were asked for are those of the calls that ask, each once,
\* and the replies come in their order.
InOrder(r, in) ==
    /\ \A c \in Operation : r.call[c].st # "free" /\ r.call[c].op = "mechanisms" =>
           \E m \in DOMAIN r.methods : r.methods[m] = c
    /\ \A m \in DOMAIN r.methods : /\ r.call[r.methods[m]].st # "free"
                                   /\ r.call[r.methods[m]].op = "mechanisms"
    /\ \A m, n \in DOMAIN r.methods : r.methods[m] = r.methods[n] => m = n
    /\ \A m, n \in DOMAIN r.methods, j \in DOMAIN in :
           m < n /\ in[j].call = r.methods[n] => \E i \in DOMAIN in : i < j /\ in[i].call = r.methods[m]

ServiceOk(r, in, unsignalled) ==
    /\ Mid(r) /\ ServiceState(r) /\ ServiceReplies(in) /\ Linked(r, in, unsignalled)
    /\ Lives(r) \/ in # << >> => InOrder(r, in)

LEMMA MethodsType ==
  ASSUME NEW r, Mid(r)
  PROVE  /\ r.methods \in Seq(Operation) /\ DOMAIN r.methods = 1..Len(r.methods) /\ Len(r.methods) \in Nat
         /\ \A m \in DOMAIN r.methods : r.methods[m] \in Operation
  <1>1. r.methods \in Seq(Operation)
    BY DEF Mid, AnyClient
  <1> QED
    BY <1>1, LenProperties, ElementOfSeq

LEMMA OrderKept ==
  ASSUME NEW r, Mid(r), NEW q, NEW in, InOrder(r, in), q.methods = r.methods,
         \A c \in Operation : /\ q.call[c].st = "free" <=> r.call[c].st = "free"
                              /\ q.call[c].op = r.call[c].op
  PROVE  InOrder(q, in)
  <1>1. \A m \in DOMAIN r.methods : r.methods[m] \in Operation
    BY MethodsType
  <1> QED
    BY <1>1 DEF InOrder

LEMMA SameStateOk ==
  ASSUME NEW r, NEW q, Mid(q), NEW in, NEW u, ServiceOk(r, in, u), q.call = r.call, q.proxy = r.proxy, q.link = r.link,
         q.methods = r.methods
  PROVE  ServiceOk(q, in, u)
  BY DEF ServiceOk, ServiceState, Linked, Lives, InOrder

\* What becomes of the calls when their connection changes.
LEMMA CarriedCalls ==
  ASSUME NEW r, Mid(r), NEW q, Mid(q), \A c \in Operation : CallKeeps(r.call[c], q.call[c])
  PROVE  \A c \in Operation : /\ q.call[c].st = "free" <=> r.call[c].st = "free"
                              /\ q.call[c].op = r.call[c].op
                              /\ q.call[c].st = "failing" => r.call[c].st = "failing"
                              /\ q.call[c].st = "sent" =>
                                    \/ /\ r.call[c].st = "sent" /\ q.call[c].lost = r.call[c].lost
                                       /\ q.call[c].old = r.call[c].old
                                    \/ r.call[c].st = "queued" /\ ~q.call[c].lost /\ ~q.call[c].old
  BY DEF CallKeeps

LEMMA ConnectedOk ==
  ASSUME NEW r, NEW q, NEW in, NEW u, ServiceOk(r, in, u), Connects(r, q), ~Lives(r) => ~r.proxy[Main].path
  PROVE  ServiceOk(q, in, u)
  <1>1. /\ Mid(r) /\ Mid(q) /\ q.methods = r.methods /\ q.proxy[Main].path = r.proxy[Main].path
        /\ \A c \in Operation : CallKeeps(r.call[c], q.call[c])
        /\ \A s \in Service : q.proxy[s].used = r.proxy[s].used
    BY Slots DEF ServiceOk, Connects, Carries, Calm, SameObject, SameMain, SameUsed
  <1>2. \A c \in Operation : /\ q.call[c].st = "free" <=> r.call[c].st = "free"
                             /\ q.call[c].op = r.call[c].op
                             /\ q.call[c].st = "failing" => r.call[c].st = "failing"
                             /\ q.call[c].st = "sent" =>
                                   \/ /\ r.call[c].st = "sent" /\ q.call[c].lost = r.call[c].lost
                                      /\ q.call[c].old = r.call[c].old
                                   \/ r.call[c].st = "queued" /\ ~q.call[c].lost /\ ~q.call[c].old
    BY <1>1, CarriedCalls
  <1>3. Conn(r, q) /\ Unsent(r, q)
    BY DEF Connects, Carries
  <1>4. ServiceState(q)
    BY <1>1, <1>2, <1>3 DEF ServiceOk, ServiceState, Conn
  <1>5. Lives(q) <=> Lives(r)
    BY <1>1, <1>3 DEF Lives, Conn
  <1>6. Linked(q, in, u)
    <2>1. CASE Lives(r)
      BY <1>1, <1>2, <1>3, <1>5, <2>1 DEF ServiceOk, Linked, Lives, Conn
    <2>2. CASE ~Lives(r)
      <3>1. ~q.proxy[Main].path
        BY <1>1, <2>2
      <3>2. \A c \in Operation : q.call[c].st = r.call[c].st
        BY <1>3, <3>1 DEF Unsent
      <3> QED
        BY <1>1, <1>2, <1>5, <2>2, <3>1, <3>2 DEF ServiceOk, Linked
    <2> QED
      BY <2>1, <2>2
  <1>7. Lives(q) \/ in # << >> => InOrder(q, in)
    BY <1>1, <1>2, <1>5, OrderKept DEF ServiceOk
  <1> QED
    BY <1>1, <1>4, <1>6, <1>7 DEF ServiceOk

LEMMA LosesOk ==
  ASSUME NEW r, NEW q, NEW in, NEW u, NEW v, ServiceOk(r, in, u), Loses(r, q), in = << >>, ~Lives(r)
  PROVE  ServiceOk(q, in, v)
  <1>1. /\ Mid(r) /\ Mid(q) /\ ~q.proxy[Main].path /\ q.proxy[Main].status # "Invalid"
        /\ \A c \in Operation : CallKeeps(r.call[c], q.call[c])
        /\ \A s \in Service : q.proxy[s].used = r.proxy[s].used
    BY Slots DEF ServiceOk, Loses, Calm, SameUsed
  <1>2. \A c \in Operation : /\ q.call[c].st = "free" <=> r.call[c].st = "free"
                             /\ q.call[c].op = r.call[c].op
                             /\ q.call[c].st = "failing" => r.call[c].st = "failing"
                             /\ q.call[c].st = "sent" =>
                                   \/ /\ r.call[c].st = "sent" /\ q.call[c].lost = r.call[c].lost
                                      /\ q.call[c].old = r.call[c].old
                                   \/ r.call[c].st = "queued" /\ ~q.call[c].lost /\ ~q.call[c].old
    BY <1>1, CarriedCalls
  <1>3. \A c \in Operation : q.call[c].st = r.call[c].st
    BY <1>1 DEF Loses, Unsent
  <1>4. ServiceState(q)
    BY <1>1, <1>2 DEF ServiceOk, ServiceState
  <1>5. ~Lives(q)
    BY <1>1 DEF Lives
  <1>6. Linked(q, in, v)
    BY <1>1, <1>2, <1>3, <1>5 DEF ServiceOk, Linked
  <1> QED
    BY <1>1, <1>4, <1>5, <1>6 DEF ServiceOk

LEMMA DroppedOk ==
  ASSUME NEW r, NEW q, NEW in, NEW u \in Nat, ServiceOk(r, in, u), Drops(r, q), r.link = "up",
         in = inbox
  PROVE  ServiceOk(q, in, u + 1)
  <1>1. /\ Mid(r) /\ Mid(q) /\ q.methods = r.methods
        /\ q.proxy[Main].path = r.proxy[Main].path /\ q.proxy[Main].status = r.proxy[Main].status
        /\ q.proxy[Main].conn = IF r.proxy[Main].conn = "live" THEN "dead" ELSE r.proxy[Main].conn
        /\ \A s \in Service : q.proxy[s].used = r.proxy[s].used
        /\ \A e \in Operation : /\ q.call[e].st = r.call[e].st /\ q.call[e].old = r.call[e].old
                                /\ q.call[e].op = r.call[e].op
                                /\ q.call[e].st = "sent" /\ ~q.call[e].lost => Answered(e)
    BY Slots DEF ServiceOk, Drops, Stays, SameCalls
  <1>2. ServiceState(q)
    BY <1>1 DEF ServiceOk, ServiceState
  <1>3. ~Lives(q)
    <2>1. r.proxy[Main] \in ProxyState
      BY <1>1, Slots DEF Mid, AnyClient
    <2> QED
      BY <1>1, <2>1 DEF ServiceOk, Linked, Lives, ProxyState
  <1>4. \A e \in Operation : q.call[e].st = "sent" /\ ~q.call[e].lost => AnsweredIn(in, e)
    BY <1>1 DEF Answered, AnsweredIn
  <1>5. u + 1 > 0
    OBVIOUS
  <1>6. Linked(q, in, u + 1)
    BY <1>1, <1>3, <1>4, <1>5 DEF ServiceOk, Linked
  <1>7. in # << >> => InOrder(q, in)
    BY <1>1, OrderKept DEF ServiceOk
  <1> QED
    BY <1>1, <1>2, <1>3, <1>6, <1>7 DEF ServiceOk

\* A new call, at the end of the queue of methods if it asks for mechanisms.
LEMMA NewInOrder ==
  ASSUME NEW r, Mid(r), NEW q, NEW in, InOrder(r, in), NEW c \in Operation, r.call[c].st = "free",
         q.methods = (IF q.call[c].op = "mechanisms" THEN Append(r.methods, c) ELSE r.methods),
         q.call[c].st # "free", ~AnsweredIn(in, c),
         \A e \in Operation : e # c => /\ q.call[e].st = "free" <=> r.call[e].st = "free"
                                       /\ q.call[e].op = r.call[e].op
  PROVE  InOrder(q, in)
  <1>1. /\ DOMAIN r.methods = 1..Len(r.methods) /\ Len(r.methods) \in Nat /\ r.methods \in Seq(Operation)
        /\ \A m \in DOMAIN r.methods : r.methods[m] \in Operation
    BY MethodsType
  <1>2. \A m \in DOMAIN r.methods : r.methods[m] # c
    BY SMTT(20) DEF InOrder
  <1>3. CASE q.call[c].op # "mechanisms"
    <2>1. q.methods = r.methods
      BY <1>3
    <2>2. \A f \in Operation : q.call[f].st # "free" /\ q.call[f].op = "mechanisms" =>
              \E m \in DOMAIN q.methods : q.methods[m] = f
      BY <1>3, <2>1 DEF InOrder
    <2>3. \A m \in DOMAIN q.methods : /\ q.call[q.methods[m]].st # "free"
                                      /\ q.call[q.methods[m]].op = "mechanisms"
      BY <1>1, <1>2, <2>1 DEF InOrder
    <2>4. \A m, n \in DOMAIN q.methods : q.methods[m] = q.methods[n] => m = n
      BY <2>1 DEF InOrder
    <2>5. ASSUME NEW m \in DOMAIN q.methods, NEW n \in DOMAIN q.methods, NEW j \in DOMAIN in,
                 m < n, in[j].call = q.methods[n]
          PROVE  \E i \in DOMAIN in : i < j /\ in[i].call = q.methods[m]
      <3>1. m \in DOMAIN r.methods /\ n \in DOMAIN r.methods /\ in[j].call = r.methods[n]
        BY <2>1, <2>5
      <3>2. \E i \in DOMAIN in : i < j /\ in[i].call = r.methods[m]
        BY <2>5, <3>1 DEF InOrder
      <3> QED
        BY <2>1, <3>2
    <2> QED
      BY <2>2, <2>3, <2>4, <2>5 DEF InOrder
  <1>4. CASE q.call[c].op = "mechanisms"
    <2>1. PICK e : e = Len(r.methods) + 1
      OBVIOUS
    <2>2. /\ DOMAIN q.methods = 1..e /\ q.methods[e] = c /\ e \in Nat /\ e \in DOMAIN q.methods
          /\ \A m \in DOMAIN r.methods : m \in DOMAIN q.methods /\ q.methods[m] = r.methods[m] /\ m < e
          /\ \A m \in DOMAIN q.methods : m \in DOMAIN r.methods \/ m = e
      <3>1. q.methods = Append(r.methods, c)
        BY <1>4
      <3> QED
        BY <1>1, <2>1, <3>1, AppendProperties, LenProperties
    <2>3. \A f \in Operation : q.call[f].st # "free" /\ q.call[f].op = "mechanisms" =>
              \E m \in DOMAIN q.methods : q.methods[m] = f
      BY <2>2 DEF InOrder
    <2>4. \A m \in DOMAIN q.methods : /\ q.call[q.methods[m]].st # "free"
                                      /\ q.call[q.methods[m]].op = "mechanisms"
      BY <1>1, <1>2, <1>4, <2>2 DEF InOrder
    <2>5. \A m, n \in DOMAIN q.methods : q.methods[m] = q.methods[n] => m = n
      BY <1>2, <2>2 DEF InOrder
    <2>6. ASSUME NEW m \in DOMAIN q.methods, NEW n \in DOMAIN q.methods, NEW j \in DOMAIN in,
                 m < n, in[j].call = q.methods[n]
          PROVE  \E i \in DOMAIN in : i < j /\ in[i].call = q.methods[m]
      <3>1. n # e
        BY <2>2, <2>6 DEF AnsweredIn
      <3>2. n \in DOMAIN r.methods /\ m \in DOMAIN r.methods
        BY <1>1, <2>2, <2>6, <3>1
      <3> QED
        BY <2>2, <2>6, <3>2 DEF InOrder
    <2> QED
      BY SMTT(20), <2>3, <2>4, <2>5, <2>6 DEF InOrder
  <1> QED
    BY <1>3, <1>4

LEMMA NewOk ==
  ASSUME NEW r, NEW q, NEW in, NEW u, ServiceOk(r, in, u), NEW c \in Operation, r.call[c].st = "free",
         NEW op \in {"mechanisms", "query"}, IsNew(r, q.call[c], op), Mid(q), SameMain(r, q), SameUsed(r, q), Conn(r, q),
         \A e \in Operation : e # c => CallKeeps(r.call[e], q.call[e]),
         q.methods = (IF op = "mechanisms" THEN Append(r.methods, c) ELSE r.methods),
         ~Lives(r) => Mute(r, q, c), ~AnsweredIn(in, c)
  PROVE  ServiceOk(q, in, u)
  <1>1. /\ Mid(r) /\ q.proxy[Main].path = r.proxy[Main].path
        /\ \A s \in Service : q.proxy[s].used = r.proxy[s].used
    BY Slots DEF ServiceOk, SameMain, SameUsed
  <1>2. \A e \in Operation : e # c =>
               /\ q.call[e].st = "free" <=> r.call[e].st = "free"
               /\ q.call[e].op = r.call[e].op
               /\ q.call[e].st = "failing" => r.call[e].st = "failing"
               /\ q.call[e].st = "sent" =>
                     \/ /\ r.call[e].st = "sent" /\ q.call[e].lost = r.call[e].lost
                        /\ q.call[e].old = r.call[e].old
                     \/ r.call[e].st = "queued" /\ ~q.call[e].lost /\ ~q.call[e].old
    BY DEF CallKeeps
  <1>3. /\ q.call[c].op = op /\ q.call[c].st # "free"
        /\ q.call[c].st = "failing" => r.proxy[Main].status = "Invalid"
        /\ q.call[c].st = "sent" => ~q.call[c].old /\ (q.call[c].lost => r.proxy[Main].conn = "dead")
    BY DEF IsNew
  <1>4. ServiceState(q)
    BY <1>1, <1>2, <1>3 DEF ServiceOk, ServiceState, Conn
  <1>5. CASE Lives(r)
    <2>1. Lives(q)
      BY <1>1, <1>5 DEF Lives, Conn
    <2>2. Linked(q, in, u)
      BY <1>1, <1>2, <1>3, <1>5, <2>1 DEF ServiceOk, Linked, Lives, Conn
    <2>3. InOrder(q, in)
      BY <1>1, <1>2, <1>3, <1>5, NewInOrder DEF ServiceOk
    <2> QED
      BY <1>4, <2>2, <2>3 DEF ServiceOk
  <1>6. CASE ~Lives(r)
    <2>1. ~Lives(q) /\ (q.call[c].st = "sent" => q.call[c].lost)
          /\ \A e \in Operation : e # c => q.call[e].st = r.call[e].st
      BY <1>6 DEF Mute
    <2>2. Linked(q, in, u)
      BY <1>1, <1>2, <1>6, <2>1 DEF ServiceOk, Linked
    <2>3. in # << >> => InOrder(q, in)
      BY <1>1, <1>2, <1>3, NewInOrder DEF ServiceOk
    <2> QED
      BY <1>4, <2>1, <2>2, <2>3 DEF ServiceOk
  <1> QED
    BY <1>5, <1>6

LEMMA RetriedOk ==
  ASSUME NEW r, NEW q, NEW in, NEW u, ServiceOk(r, in, u), in = << >>, ~Lives(r), NEW c \in Operation,
         r.call[c].st = "sent",
         Retries(r, q, c), SameUsed(r, q), Mute(r, q, c)
  PROVE  ServiceOk(q, in, u)
  <1>1. /\ Mid(r) /\ Mid(q) /\ q.proxy[Main].path = r.proxy[Main].path /\ Conn(r, q)
        /\ \A s \in Service : q.proxy[s].used = r.proxy[s].used
        /\ \A e \in Operation : e # c => CallKeeps(r.call[e], q.call[e])
    BY Slots DEF ServiceOk, SameMain, SameUsed, Retries, Others
  <1>2. \A e \in Operation : e # c =>
               /\ q.call[e].st = "free" <=> r.call[e].st = "free"
               /\ q.call[e].op = r.call[e].op
               /\ q.call[e].st = "failing" => r.call[e].st = "failing"
               /\ q.call[e].st = "sent" =>
                     \/ /\ r.call[e].st = "sent" /\ q.call[e].lost = r.call[e].lost
                        /\ q.call[e].old = r.call[e].old
                     \/ r.call[e].st = "queued" /\ ~q.call[e].lost /\ ~q.call[e].old
    BY <1>1 DEF CallKeeps
  <1>3. q.call[c].op = r.call[c].op /\ q.call[c].st \in {"queued", "sent"} /\ (q.call[c].st = "sent" => ~q.call[c].old)
    BY DEF Retries, IsRetried
  <1>4. ServiceState(q)
    BY <1>1, <1>2, <1>3 DEF ServiceOk, ServiceState, Conn
  <1>5. ~Lives(q) /\ (q.call[c].st = "sent" => q.call[c].lost)
        /\ \A e \in Operation : e # c => q.call[e].st = r.call[e].st
    BY DEF Mute
  <1>6. Linked(q, in, u)
    BY <1>1, <1>2, <1>5 DEF ServiceOk, Linked
  <1> QED
    BY <1>1, <1>4, <1>5, <1>6 DEF ServiceOk

LEMMA EndedOk ==
  ASSUME NEW r, NEW q, Mid(q), NEW in, NEW u, ServiceOk(r, in, u), in = << >>, ~Lives(r), NEW c \in Operation,
         Dequeues(r, q, c), q.call[c] = FreeCall
  PROVE  ServiceOk(q, in, u)
  <1>1. /\ q.proxy[Main] = r.proxy[Main] /\ \A s \in Service : q.proxy[s] = r.proxy[s]
        /\ \A e \in Operation : e # c => q.call[e] = r.call[e]
    BY Slots DEF Dequeues, Aside
  <1>2. ServiceState(q)
    BY <1>1, FreeCallType DEF ServiceOk, ServiceState
  <1>3. ~Lives(q)
    BY <1>1 DEF Lives
  <1>4. Linked(q, in, u)
    BY <1>1, <1>3, FreeCallType DEF ServiceOk, Linked
  <1> QED
    BY <1>2, <1>3, <1>4 DEF ServiceOk

\* The reply that is read is about the method that was asked for first.
LEMMA FirstAsked ==
  ASSUME NEW r, Mid(r), NEW in, InOrder(r, in), 1 \in DOMAIN in, DOMAIN in \subseteq Nat \ {0},
         NEW c \in Operation, in[1].call = c, r.call[c].st # "free", r.call[c].op = "mechanisms"
  PROVE  r.methods # << >> /\ Head(r.methods) = c /\ r.methods[1] = c
  <1>1. PICK n \in DOMAIN r.methods : r.methods[n] = c
    BY DEF InOrder
  <1>2. /\ DOMAIN r.methods = 1..Len(r.methods) /\ Len(r.methods) \in Nat /\ r.methods \in Seq(Operation)
    BY MethodsType
  <1>3. n = 1
    <2> SUFFICES ASSUME n # 1 PROVE FALSE
      OBVIOUS
    <2>1. 1 \in DOMAIN r.methods /\ 1 < n
      BY <1>1, <1>2
    <2>2. PICK i \in DOMAIN in : i < 1
      BY <1>1, <2>1 DEF InOrder
    <2> QED
      BY <2>2
  <1>4. r.methods # << >>
    BY <1>1, <1>2
  <1> QED
    BY <1>1, <1>2, <1>3, <1>4

LEMMA ReadInOrder ==
  ASSUME NEW r, Mid(r), NEW in \in Seq(Message), in # << >>, InOrder(r, in), NEW c \in Operation, in[1].call = c,
         r.call[c].st # "free", NEW q, Dequeues(r, q, c), q.call[c] = FreeCall
  PROVE  InOrder(q, Tail(in))
  <1>1. PICK in2 : in2 = Tail(in)
    OBVIOUS
  <1>2. /\ 1 \in DOMAIN in
        /\ \A i \in DOMAIN in2 : i + 1 \in DOMAIN in /\ in2[i] = in[i + 1]
        /\ \A i \in DOMAIN in : i # 1 => i - 1 \in DOMAIN in2 /\ in2[i - 1] = in[i]
        /\ DOMAIN in \subseteq Nat \ {0} /\ DOMAIN in2 \subseteq Nat \ {0}
    <2>1. in2 \in Seq(Message)
      BY <1>1, TailIs
    <2>2. DOMAIN in = 1..Len(in) /\ DOMAIN in2 = 1..Len(in2)
      BY <2>1, InboxIs
    <2> QED
      BY <1>1, <2>2, TailIs
  <1>3. \A e \in Operation : e # c => q.call[e] = r.call[e]
    BY Slots DEF Dequeues, Aside
  <1>4. /\ DOMAIN r.methods = 1..Len(r.methods) /\ Len(r.methods) \in Nat /\ r.methods \in Seq(Operation)
        /\ \A m \in DOMAIN r.methods : r.methods[m] \in Operation
    BY MethodsType
  <1>5. ASSUME NEW m \in DOMAIN r.methods, NEW n \in DOMAIN r.methods, NEW j \in DOMAIN in2, m < n,
               in2[j].call = r.methods[n], r.methods[m] # c
        PROVE  \E i \in DOMAIN in2 : i < j /\ in2[i].call = r.methods[m]
    <2>1. j + 1 \in DOMAIN in /\ in[j + 1].call = r.methods[n]
      BY <1>2, <1>5
    <2>2. PICK i \in DOMAIN in : i < j + 1 /\ in[i].call = r.methods[m]
      BY <1>5, <2>1 DEF InOrder
    <2>3. i # 1
      BY <1>5, <2>2
    <2>4. i - 1 \in DOMAIN in2 /\ in2[i - 1].call = r.methods[m]
      BY <1>2, <2>2, <2>3
    <2>5. i - 1 < j
      BY <1>2, <2>2
    <2> QED
      BY <2>4, <2>5
  <1>6. CASE r.call[c].op # "mechanisms"
    <2>1. q.methods = r.methods
      BY <1>6 DEF Dequeues
    <2>2. \A m \in DOMAIN r.methods : r.methods[m] # c
      BY <1>6 DEF InOrder
    <2>3. /\ \A e \in Operation : q.call[e].st # "free" /\ q.call[e].op = "mechanisms" =>
                 \E m \in DOMAIN q.methods : q.methods[m] = e
          /\ \A m \in DOMAIN q.methods : /\ q.call[q.methods[m]].st # "free"
                                         /\ q.call[q.methods[m]].op = "mechanisms"
          /\ \A m, n \in DOMAIN q.methods : q.methods[m] = q.methods[n] => m = n
      <3>1. q.call[c].st = "free"
        BY FreeCallType
      <3>2. \A e \in Operation : q.call[e].st # "free" => q.call[e] = r.call[e]
        BY <1>3, <3>1
      <3>3. \A m \in DOMAIN r.methods : q.call[r.methods[m]] = r.call[r.methods[m]]
        BY <1>3, <1>4, <2>2
      <3> QED
        BY <2>1, <3>2, <3>3 DEF InOrder
    <2>4. \A m, n \in DOMAIN q.methods, j \in DOMAIN in2 :
              m < n /\ in2[j].call = q.methods[n] => \E i \in DOMAIN in2 : i < j /\ in2[i].call = q.methods[m]
      BY <1>5, <2>1, <2>2
    <2> QED
      BY <1>1, <2>3, <2>4 DEF InOrder
  <1>7. CASE r.call[c].op = "mechanisms"
    <2>1. r.methods # << >> /\ r.methods[1] = c
      <3>1. /\ 1 \in DOMAIN in /\ DOMAIN in \subseteq Nat \ {0}
            /\ r.call[c].st # "free" /\ r.call[c].op = "mechanisms"
        BY <1>2, <1>7
      <3> QED
        BY <3>1, FirstAsked
    <2>2. q.methods = Tail(r.methods)
      BY <1>7, <2>1 DEF Dequeues
    <2>3. /\ \A m \in DOMAIN q.methods : m \in Nat /\ m + 1 \in DOMAIN r.methods /\ q.methods[m] = r.methods[m + 1]
                                         /\ m + 1 # 1
          /\ \A m \in DOMAIN r.methods : m # 1 => m - 1 \in DOMAIN q.methods /\ q.methods[m - 1] = r.methods[m]
      <3>1. /\ q.methods \in Seq(Operation) /\ Len(q.methods) = Len(r.methods) - 1
            /\ \A m \in 1..Len(q.methods) : q.methods[m] = r.methods[m + 1]
        BY <1>4, <2>1, <2>2, HeadTailProperties
      <3>2. DOMAIN q.methods = 1..Len(q.methods)
        BY <3>1, LenProperties
      <3>3. \A m \in DOMAIN q.methods : m \in Nat /\ m >= 1 /\ m + 1 \in DOMAIN r.methods
        BY <1>4, <3>1, <3>2
      <3>4. \A m \in DOMAIN q.methods : q.methods[m] = r.methods[m + 1] /\ m + 1 # 1
        BY SMTT(20), <3>1, <3>2, <3>3
      <3>5. ASSUME NEW m \in DOMAIN r.methods, m # 1
            PROVE  m - 1 \in DOMAIN q.methods /\ q.methods[m - 1] = r.methods[m]
        <4>1. m - 1 \in DOMAIN q.methods /\ (m - 1) + 1 = m
          BY <1>4, <3>1, <3>2, <3>5
        <4>2. q.methods[m - 1] = r.methods[(m - 1) + 1]
          BY <3>4, <4>1
        <4> QED
          BY <4>1, <4>2
      <3> QED
        BY <3>3, <3>4, <3>5
    <2>4. \A m \in DOMAIN q.methods : q.methods[m] \in Operation /\ q.methods[m] # c
      <3> SUFFICES ASSUME NEW m \in DOMAIN q.methods PROVE q.methods[m] \in Operation /\ q.methods[m] # c
        OBVIOUS
      <3>1. m + 1 \in DOMAIN r.methods /\ q.methods[m] = r.methods[m + 1] /\ m + 1 # 1
        BY <2>3
      <3>2. 1 \in DOMAIN r.methods
        BY <1>4, <2>1, <3>1
      <3> QED
        BY <1>4, <2>1, <3>1, <3>2 DEF InOrder
    <2>5. \A e \in Operation : q.call[e].st # "free" /\ q.call[e].op = "mechanisms" =>
              \E m \in DOMAIN q.methods : q.methods[m] = e
      <3> SUFFICES ASSUME NEW e \in Operation, q.call[e].st # "free", q.call[e].op = "mechanisms"
                   PROVE  \E m \in DOMAIN q.methods : q.methods[m] = e
        OBVIOUS
      <3>1. e # c
        BY FreeCallType
      <3>2. PICK m \in DOMAIN r.methods : r.methods[m] = e
        BY <1>3, <3>1 DEF InOrder
      <3>3. m # 1
        BY <2>1, <3>1, <3>2
      <3>4. m - 1 \in DOMAIN q.methods /\ q.methods[m - 1] = e
        BY <2>3, <3>2, <3>3
      <3> QED
        BY <3>4
    <2>6. \A m \in DOMAIN q.methods : /\ q.call[q.methods[m]].st # "free"
                                      /\ q.call[q.methods[m]].op = "mechanisms"
      <3> SUFFICES ASSUME NEW m \in DOMAIN q.methods
                   PROVE  q.call[q.methods[m]].st # "free" /\ q.call[q.methods[m]].op = "mechanisms"
        OBVIOUS
      <3>1. m + 1 \in DOMAIN r.methods /\ q.methods[m] = r.methods[m + 1]
        BY <2>3
      <3>2. r.call[q.methods[m]].st # "free" /\ r.call[q.methods[m]].op = "mechanisms"
        BY <3>1 DEF InOrder
      <3> QED
        BY <1>3, <2>4, <3>2
    <2>7. \A m, n \in DOMAIN q.methods : q.methods[m] = q.methods[n] => m = n
      <3> SUFFICES ASSUME NEW m \in DOMAIN q.methods, NEW n \in DOMAIN q.methods, q.methods[m] = q.methods[n]
                   PROVE  m = n
        OBVIOUS
      <3>1. /\ m \in Nat /\ m + 1 \in DOMAIN r.methods /\ q.methods[m] = r.methods[m + 1]
            /\ n \in Nat /\ n + 1 \in DOMAIN r.methods /\ q.methods[n] = r.methods[n + 1]
        BY <2>3
      <3>2. m + 1 = n + 1
        BY <3>1 DEF InOrder
      <3> QED
        BY <3>1, <3>2
    <2>8. ASSUME NEW m \in DOMAIN q.methods, NEW n \in DOMAIN q.methods, NEW j \in DOMAIN in2,
                 m < n, in2[j].call = q.methods[n]
          PROVE  \E i \in DOMAIN in2 : i < j /\ in2[i].call = q.methods[m]
      <3>1. /\ m \in Nat /\ m + 1 \in DOMAIN r.methods /\ q.methods[m] = r.methods[m + 1]
            /\ n \in Nat /\ n + 1 \in DOMAIN r.methods /\ q.methods[n] = r.methods[n + 1]
        BY <2>3
      <3>2. m + 1 < n + 1 /\ r.methods[m + 1] # c
        BY <2>4, <2>8, <3>1
      <3>3. PICK x \in DOMAIN r.methods : x = m + 1
        BY <3>1
      <3>4. PICK y \in DOMAIN r.methods : y = n + 1
        BY <3>1
      <3>5. x < y /\ in2[j].call = r.methods[y] /\ r.methods[x] # c /\ q.methods[m] = r.methods[x]
        BY <2>8, <3>1, <3>2, <3>3, <3>4
      <3>6. \E i \in DOMAIN in2 : i < j /\ in2[i].call = r.methods[x]
        BY <1>5, <3>5
      <3> QED
        BY <3>5, <3>6
    <2> QED
      BY <1>1, <2>5, <2>6, <2>7, <2>8 DEF InOrder
  <1> QED
    BY <1>6, <1>7

LEMMA ReadOk ==
  ASSUME NEW r, NEW q, Mid(q), NEW in \in Seq(Message), in # << >>, NEW u, ServiceOk(r, in, u),
         NEW c \in Operation, in[1].call = c, r.call[c].st = "sent",
         Dequeues(r, q, c), q.call[c] = FreeCall
  PROVE  /\ ServiceOk(q, Tail(in), u)
         /\ r.call[c].op = "mechanisms" => r.methods # << >> /\ Head(r.methods) = c
  <1>1. PICK in2 : in2 = Tail(in)
    OBVIOUS
  <1>2. /\ 1 \in DOMAIN in
        /\ \A i \in DOMAIN in2 : i + 1 \in DOMAIN in /\ in2[i] = in[i + 1]
        /\ \A i \in DOMAIN in : i # 1 => i - 1 \in DOMAIN in2 /\ in2[i - 1] = in[i]
        /\ DOMAIN in \subseteq Nat \ {0}
    <2>1. DOMAIN in = 1..Len(in)
      BY InboxIs
    <2> QED
      BY <1>1, <2>1, TailIs
  <1>3. /\ q.proxy[Main] = r.proxy[Main] /\ q.link = r.link /\ \A s \in Service : q.proxy[s] = r.proxy[s]
        /\ \A e \in Operation : e # c => q.call[e] = r.call[e]
    BY Slots DEF Dequeues, Aside
  <1>4. Mid(r) /\ InOrder(r, in) /\ ServiceState(r) /\ Linked(r, in, u) /\ ServiceReplies(in)
    BY DEF ServiceOk
  <1>5. ServiceState(q)
    BY <1>3, <1>4, FreeCallType DEF ServiceState
  <1>6. ServiceReplies(in2)
    BY <1>2, <1>4 DEF ServiceReplies
  <1>7. Linked(q, in2, u)
    <2>1. (Lives(q) <=> Lives(r)) /\ q.proxy[Main].path
      BY <1>3, <1>4 DEF Lives, Linked
    <2>2. ASSUME NEW e \in Operation, ~Lives(r), q.call[e].st = "sent", ~q.call[e].lost
          PROVE  AnsweredIn(in2, e)
      <3>1. e # c
        BY <2>2, FreeCallType
      <3>2. PICK i \in DOMAIN in : in[i].call = e
        BY <1>3, <1>4, <2>2, <3>1 DEF Linked, AnsweredIn
      <3>3. i # 1
        BY <3>1, <3>2
      <3>4. i - 1 \in DOMAIN in2 /\ in2[i - 1].call = e
        BY <1>2, <3>2, <3>3
      <3> QED
        BY <3>4 DEF AnsweredIn
    <2> QED
      BY <1>3, <1>4, <2>1, <2>2, FreeCallType DEF Linked
  <1>8. InOrder(q, in2)
    BY <1>1, <1>4, ReadInOrder
  <1>9. ServiceOk(q, in2, u)
    BY <1>5, <1>6, <1>7, <1>8 DEF ServiceOk
  <1>10. r.call[c].op = "mechanisms" => r.methods # << >> /\ Head(r.methods) = c
    BY <1>2, <1>4, FirstAsked
  <1> QED
    BY <1>1, <1>9, <1>10

LEMMA ServedOk ==
  ASSUME NEW r, NEW in \in Seq(Message), NEW u, ServiceOk(r, in, u), Lives(r), NEW c \in Operation,
         NEW m \in Message, IsReply(m), m.call = c, m.result \in {"ok", "denied"},
         \A i, j \in DOMAIN r.methods : i < j /\ r.methods[j] = c => AnsweredIn(in, r.methods[i])
  PROVE  ServiceOk(r, Append(in, m), u)
  <1>1. PICK in2 : in2 = Append(in, m)
    OBVIOUS
  <1>2. PICK e : e = Len(in) + 1
    OBVIOUS
  <1>3. /\ in2[e] = m /\ e \in DOMAIN in2
        /\ \A i \in DOMAIN in : i \in DOMAIN in2 /\ in2[i] = in[i] /\ i < e
        /\ \A i \in DOMAIN in2 : i \in DOMAIN in \/ i = e
    <2>1. DOMAIN in = 1..Len(in) /\ Len(in) \in Nat
      BY InboxIs
    <2>2. DOMAIN in2 = 1..(Len(in) + 1)
      BY <1>1, AppendIs
    <2>3. e \in DOMAIN in2 /\ \A i \in DOMAIN in : i < e
      BY <1>2, <2>1, <2>2
    <2> QED
      BY <1>1, <1>2, <2>3, AppendIs
  <1>4. ServiceReplies(in2)
    BY <1>3 DEF ServiceOk, ServiceReplies
  <1>5. Linked(r, in2, u)
    BY DEF ServiceOk, Linked, Lives
  <1>6. InOrder(r, in2)
    <2>1. ASSUME NEW i \in DOMAIN r.methods, NEW n \in DOMAIN r.methods, NEW j \in DOMAIN in2,
                 i < n, in2[j].call = r.methods[n]
          PROVE  \E l \in DOMAIN in2 : l < j /\ in2[l].call = r.methods[i]
      <3>1. CASE j \in DOMAIN in
        <4>1. PICK l \in DOMAIN in : l < j /\ in[l].call = r.methods[i]
          BY <1>3, <2>1, <3>1 DEF ServiceOk, InOrder
        <4> QED
          BY <1>3, <4>1
      <3>2. CASE j = e
        <4>1. r.methods[n] = c
          BY <1>3, <2>1, <3>2
        <4>2. PICK l \in DOMAIN in : in[l].call = r.methods[i]
          BY <2>1, <4>1 DEF AnsweredIn
        <4> QED
          BY <1>3, <3>2, <4>2
      <3> QED
        BY <1>3, <3>1, <3>2
    <2> QED
      BY <2>1 DEF ServiceOk, InOrder
  <1> QED
    BY <1>1, <1>4, <1>5, <1>6 DEF ServiceOk

-----------------------------------------------------------------------------
\* The service's invariant, kept by its steps.

ServiceInv == IsService => ~remote /\ ServiceOk(k, inbox, lost.unsignalled)

\* What the lemmas need of the client, between two steps.
LEMMA ServiceNow ==
  ASSUME Inv, ServiceInv, IsService, NEW n, n = Now
  PROVE  /\ ServiceOk(n, inbox, lost.unsignalled) /\ Mid(n) /\ ~remote /\ ~IsSession /\ ~IsIdentity
         /\ n.call = k.call /\ n.proxy = k.proxy /\ n.link = k.link /\ n.methods = k.methods /\ n.ended = {}
         /\ inbox \in Seq(Message) /\ lost.unsignalled \in Nat /\ daemon \in BOOLEAN
         /\ \A c \in Call : n.call[c].st # "free" => c \in Operation
  <1>1. /\ Mid(n) /\ n.call = k.call /\ n.proxy = k.proxy /\ n.link = k.link /\ n.methods = k.methods
        /\ n.ended = {}
    BY NowFacts
  <1>2. PICK in : in = inbox
    OBVIOUS
  <1>3. PICK u : u = lost.unsignalled
    OBVIOUS
  <1>4. ServiceOk(k, in, u)
    BY <1>2, <1>3 DEF ServiceInv
  <1>5. ServiceOk(n, in, u)
    BY <1>1, <1>4, SameStateOk
  <1>6. \A c \in Call : n.call[c].st # "free" => c \in Operation
    BY <1>5, Slots DEF ServiceOk, ServiceState, Mid
  <1>7. lost.unsignalled \in Nat
    BY FaultsAssumption DEF Inv, LostOk, LostType
  <1>8. ~remote /\ ~IsSession /\ ~IsIdentity
    BY DEF ServiceInv, IsService, IsSession, IsIdentity
  <1> QED
    BY <1>1, <1>2, <1>3, <1>5, <1>6, <1>7, <1>8 DEF Inv

LEMMA ServiceAsks ==
  ASSUME Inv, ServiceInv, IsService, AskService \/ AskMechanisms
  PROVE  ServiceOk(k', inbox, lost.unsignalled)
  <1>1. PICK n : n = Now
    OBVIOUS
  <1>2. PICK in : in = inbox
    OBVIOUS
  <1>3. PICK u : u = lost.unsignalled
    OBVIOUS
  <1>4. /\ ServiceOk(n, in, u) /\ Mid(n) /\ n.call = k.call /\ daemon \in BOOLEAN
    BY <1>1, <1>2, <1>3, ServiceNow
  <1>5. PICK c : c = Min(FreeCalls(n, Operation))
    OBVIOUS
  <1>6. Room
    BY DEF AskService, AskMechanisms
  <1>7. FreeCalls(n, Operation) # {}
    BY <1>1, <1>6, RoomGives
  <1>8. c \in Operation /\ n.call[c].st = "free"
    BY <1>4, <1>5, <1>7, MinFree
  <1>9. ~AnsweredIn(in, c)
    BY <1>2, <1>4, <1>8 DEF AnsweredIn, ServiceOk, ServiceReplies, Inv, Replies
  <1>10. PICK op \in {"mechanisms", "query"} :
             k' = (IF op = "mechanisms" THEN [SendRequest(n, c, "mechanisms", daemon) EXCEPT !.methods = Append(@, c)]
                   ELSE SendRequest(n, c, "query", daemon))
    <2>1. CASE AskService
      BY <1>1, <1>5, <2>1, Zenon DEF AskService, QueryService
    <2>2. CASE AskMechanisms
      BY <1>1, <1>5, <2>2, Zenon DEF AskMechanisms, QueryMechanisms
    <2> QED
      BY <2>1, <2>2
  <1>11. op \in Ops
    BY DEF Ops
  <1>12. PICK z : z = SendRequest(n, c, op, daemon)
    OBVIOUS
  <1>13. CallAsked(n, z, c, op) /\ SameUsed(n, z)
    BY <1>4, <1>8, <1>11, <1>12, SendRequestAsks
  <1>14. n.proxy[Main].status # "Invalid"
    BY <1>4 DEF ServiceOk, ServiceState
  <1>15. ~Lives(n) => Mute(n, z, c)
    BY <1>4, <1>8, <1>11, <1>12, <1>14, SendMute
  <1>16. /\ Mid(z) /\ z.methods = n.methods /\ SameMain(n, z) /\ Conn(n, z) /\ IsNew(n, z.call[c], op)
         /\ \A e \in Operation : e # c => CallKeeps(n.call[e], z.call[e])
    BY <1>13 DEF CallAsked, Others
  <1>17. k' = (IF op = "mechanisms" THEN [z EXCEPT !.methods = Append(@, c)] ELSE z)
    BY <1>10, <1>12
  <1>18. /\ k' \in AnyClient /\ k'.call = z.call /\ k'.proxy = z.proxy /\ k'.link = z.link
         /\ k'.methods = (IF op = "mechanisms" THEN Append(n.methods, c) ELSE n.methods)
    <2>1. z \in AnyClient /\ Append(z.methods, c) \in Seq(Operation)
      BY <1>8, <1>16 DEF Mid, AnyClient
    <2> QED
      BY <1>16, <1>17, <2>1 DEF AnyClient
  <1>19. PICK q : q = k'
    OBVIOUS
  <1>20. /\ Mid(q) /\ SameMain(n, q) /\ SameUsed(n, q) /\ Conn(n, q) /\ IsNew(n, q.call[c], op)
         /\ \A e \in Operation : e # c => CallKeeps(n.call[e], q.call[e])
         /\ ~Lives(n) => Mute(n, q, c)
    BY <1>13, <1>15, <1>16, <1>18, <1>19 DEF Mid, SameMain, SameUsed, Conn, Mute, Lives
  <1>21. q.methods = (IF op = "mechanisms" THEN Append(n.methods, c) ELSE n.methods)
    BY <1>18, <1>19
  <1>22. ServiceOk(q, in, u)
    BY <1>4, <1>8, <1>9, <1>20, <1>21, NewOk
  <1> QED
    BY <1>2, <1>3, <1>19, <1>22

LEMMA ServiceReads ==
  ASSUME Inv, ServiceInv, IsService, ReadReply
  PROVE  ServiceOk(k', Tail(inbox), lost.unsignalled) /\ EndsWell(Now, k')
  <1>1. PICK n : n = Now
    OBVIOUS
  <1>2. PICK in \in Seq(Message) : in = inbox
    BY DEF Inv
  <1>3. PICK u : u = lost.unsignalled
    OBVIOUS
  <1>4. ServiceOk(n, in, u) /\ Mid(n) /\ n.call = k.call /\ ~IsSession
    BY <1>1, <1>2, <1>3, ServiceNow
  <1>5. PICK c : c = Head(in).call
    OBVIOUS
  <1>6. PICK result : result = Head(in).result
    OBVIOUS
  <1>7. PICK info : info = Head(in).info
    OBVIOUS
  <1>8. in # << >> /\ IsReply(Head(in))
    BY <1>2 DEF ReadReply, IsReply
  <1>9. /\ c \in Call /\ info \in Version /\ n.call[c].st = "sent" /\ Head(in) = in[1] /\ 1 \in DOMAIN in
    BY <1>2, <1>4, <1>5, <1>7, <1>8, HeadReply
  <1>10. c \in Operation /\ result \in {"ok", "denied"}
    BY <1>4, <1>5, <1>6, <1>9 DEF ServiceOk, ServiceReplies
  <1>11. ~ToRequeue(n.call[c], result)
    BY <1>10 DEF ToRequeue
  <1>12. k' = OnFinished(n, c, result, info)
    BY <1>1, <1>2, <1>5, <1>6, <1>7 DEF ReadReply
  <1>13. PICK q : q = k'
    OBVIOUS
  <1>14. Concludes(n, q, c, result) /\ Over(n, q, c) /\ Dequeues(n, q, c)
    BY <1>1, <1>9, <1>11, <1>12, <1>13, FinishedConcludes
  <1>15. Mid(q) /\ q.call[c] = FreeCall
    BY <1>14 DEF Over, Finishes
  <1>16. in[1].call = c
    BY <1>5, <1>9
  <1>17. /\ ServiceOk(q, Tail(in), u)
         /\ n.call[c].op = "mechanisms" => n.methods # << >> /\ Head(n.methods) = c
    BY <1>4, <1>8, <1>9, <1>10, <1>14, <1>15, <1>16, ReadOk
  <1>18. ~Exempt(n, c, result)
    BY <1>4, <1>17 DEF Exempt
  <1>19. EndsWell(n, q)
    BY <1>14, <1>18 DEF Concludes
  <1> QED
    BY <1>1, <1>2, <1>3, <1>13, <1>17, <1>19

LEMMA ServiceCut ==
  ASSUME Inv, ServiceInv, IsService, NEW c \in Call, CallDisconnected(c)
  PROVE  ServiceOk(k', inbox, lost.unsignalled)
  <1>1. PICK n : n = Now
    OBVIOUS
  <1>2. PICK in : in = inbox
    OBVIOUS
  <1>3. PICK u : u = lost.unsignalled
    OBVIOUS
  <1>4. /\ ServiceOk(n, in, u) /\ Mid(n) /\ n.call = k.call /\ ~IsSession /\ ~IsIdentity /\ daemon \in BOOLEAN
        /\ \A e \in Call : n.call[e].st # "free" => e \in Operation
    BY <1>1, <1>2, <1>3, ServiceNow
  <1>5. in = << >> /\ n.call[c].st = "sent" /\ n.call[c].lost
    BY <1>2, <1>4 DEF CallDisconnected
  <1>6. c \in Operation
    BY <1>4, <1>5
  <1>7. ~Lives(n)
    BY <1>4, <1>5, <1>6 DEF ServiceOk, Linked
  <1>8. PICK result : result = "disconnected"
    OBVIOUS
  <1>9. PICK q : q = k'
    OBVIOUS
  <1>10. q = OnFinished(n, c, result, NoVersion) /\ RoomToRetry(c, result)
    BY <1>1, <1>8, <1>9 DEF CallDisconnected
  <1>11. NoVersion \in Version
    BY MaxVersionAssumption DEF NoVersion, Version
  <1>12. CASE ToRequeue(n.call[c], result)
    <2>1. Retries(n, q, c) /\ SameUsed(n, q)
      BY <1>1, <1>5, <1>10, <1>11, <1>12, RetriedConcludes
    <2>2. q = Enqueue(n, c, daemon)
      BY <1>4, <1>10, <1>12 DEF OnFinished, RequeueServiceCall
    <2>3. Mute(n, q, c)
      BY <1>4, <1>5, <1>6, <1>7, <2>2, RequeueMute
    <2>4. ServiceOk(q, in, u)
      BY <1>4, <1>5, <1>6, <1>7, <2>1, <2>3, RetriedOk
    <2> QED
      BY <1>2, <1>3, <1>9, <2>4
  <1>13. CASE ~ToRequeue(n.call[c], result)
    <2>1. Over(n, q, c) /\ Dequeues(n, q, c)
      BY <1>1, <1>5, <1>10, <1>11, <1>13, FinishedConcludes
    <2>2. Mid(q) /\ q.call[c] = FreeCall
      BY <2>1 DEF Over, Finishes
    <2>3. ServiceOk(q, in, u)
      BY <1>4, <1>5, <1>6, <1>7, <2>1, <2>2, EndedOk
    <2> QED
      BY <1>2, <1>3, <1>9, <2>3
  <1> QED
    BY <1>12, <1>13

LEMMA ServiceConnection ==
  ASSUME Inv, ServiceInv, IsService, Disconnected \/ Activated \/ ActivationFailed
  PROVE  ServiceOk(k', inbox, lost'.unsignalled)
  <1>1. PICK n : n = Now
    OBVIOUS
  <1>2. PICK in : in = inbox
    OBVIOUS
  <1>3. PICK u : u = lost.unsignalled
    OBVIOUS
  <1>4. ServiceOk(n, in, u) /\ Mid(n) /\ u \in Nat
    BY <1>1, <1>2, <1>3, ServiceNow
  <1>5. PICK v : v = lost'.unsignalled
    OBVIOUS
  <1>6. PICK q : q = k'
    OBVIOUS
  <1>7. CASE Disconnected
    <2>1. in = << >> /\ u > 0 /\ q = OnDisconnected(n)
      BY <1>1, <1>2, <1>3, <1>6, <1>7 DEF Disconnected
    <2>2. ~Lives(n)
      BY <1>4, <2>1 DEF ServiceOk, Linked
    <2>3. Loses(n, q)
      BY <1>4, <2>1, OnDisconnectedLoses
    <2>4. ServiceOk(q, in, v)
      BY <1>4, <2>1, <2>2, <2>3, LosesOk
    <2> QED
      BY <1>2, <1>5, <1>6, <2>4
  <1>8. CASE Activated \/ ActivationFailed
    <2>1. PICK ok \in BOOLEAN : q = OnActivationDone(n, ok)
      BY <1>1, <1>6, <1>8 DEF Activated, ActivationFailed
    <2>2. u = 0 /\ v = u
      BY <1>3, <1>5, <1>8 DEF Activated, ActivationFailed, ClientOnly
    <2>3. ~Lives(n) => ~n.proxy[Main].path
      BY <1>4, <2>2 DEF ServiceOk, Linked
    <2>4. Connects(n, q)
      BY <1>4, <2>1, OnActivationDoneConnects
    <2>5. ServiceOk(q, in, u)
      BY <1>4, <2>3, <2>4, ConnectedOk
    <2> QED
      BY <1>2, <1>5, <1>6, <2>2, <2>5
  <1> QED
    BY <1>7, <1>8

LEMMA ServiceServes ==
  ASSUME Inv, ServiceInv, IsService, NEW c \in Call, Serve(c)
  PROVE  ~remote' /\ ServiceOk(k', inbox', lost.unsignalled)
  <1>1. PICK n : n = Now
    OBVIOUS
  <1>2. PICK in \in Seq(Message) : in = inbox
    BY DEF Inv
  <1>3. PICK u : u = lost.unsignalled
    OBVIOUS
  <1>4. /\ ServiceOk(n, in, u) /\ Mid(n) /\ n.call = k.call /\ n.methods = k.methods /\ ~remote
        /\ ~IsIdentity
        /\ \A e \in Call : n.call[e].st # "free" => e \in Operation
    BY <1>1, <1>2, <1>3, ServiceNow
  <1>5. Waiting(c)
    BY DEF Serve, Served, ServeUnknown, ServeDenied
  <1>6. /\ n.call[c].st = "sent" /\ ~n.call[c].lost /\ ~Answered(c)
        /\ \A i, j \in DOMAIN n.methods : i < j /\ n.methods[j] = c => Answered(n.methods[i])
    BY <1>4, <1>5 DEF Waiting
  <1>7. c \in Operation
    BY <1>4, <1>6
  <1>8. \A e : Answered(e) <=> AnsweredIn(in, e)
    BY <1>2, <1>4 DEF Answered, AnsweredIn, ServiceOk, ServiceReplies, IsReply
  <1>9. Lives(n)
    BY <1>4, <1>6, <1>7, <1>8 DEF ServiceOk, Linked
  <1>10. ~Gone(c)
    BY <1>4, <1>6, <1>7 DEF Gone, HasObject, ServiceOk, ServiceState
  <1>11. n.call[c].op \in {"mechanisms", "query"}
    BY <1>4, <1>6, <1>7 DEF ServiceOk, ServiceState
  <1>12. PICK result \in {"ok", "denied"} : /\ inbox' = Append(in, Reply(c, result)) /\ k' = n
                                           /\ ~remote' /\ version' = version
    <2>1. CASE Served(c)
      BY <1>1, <1>2, <1>4, <1>11, <2>1 DEF Served
    <2>2. CASE ServeDenied(c)
      BY <1>1, <1>2, <1>4, <2>2 DEF ServeDenied
    <2> QED
      BY <1>10, <2>1, <2>2 DEF Serve, ServeUnknown
  <1>13. PICK m : m = Reply(c, result)
    OBVIOUS
  <1>14. m \in Message /\ IsReply(m) /\ m.call = c /\ m.result = result
    BY <1>12, <1>13 DEF Reply, Message, IsReply, Inv
  <1>15. \A i, j \in DOMAIN n.methods : i < j /\ n.methods[j] = c => AnsweredIn(in, n.methods[i])
    BY <1>6, <1>8
  <1>16. ServiceOk(n, Append(in, m), u)
    BY <1>4, <1>7, <1>9, <1>14, <1>15, ServedOk
  <1> QED
    BY <1>3, <1>12, <1>13, <1>16

LEMMA ServiceDrops ==
  ASSUME Inv, ServiceInv, IsService, Drop
  PROVE  ServiceOk(k', inbox, lost'.unsignalled)
  <1>1. PICK n : n = Now
    OBVIOUS
  <1>2. PICK in : in = inbox
    OBVIOUS
  <1>3. PICK u : u = lost.unsignalled
    OBVIOUS
  <1>4. ServiceOk(n, in, u) /\ u \in Nat /\ n.link = k.link
    BY <1>1, <1>2, <1>3, ServiceNow
  <1>5. PICK q : q = k'
    BY SMTT(20)
  <1>6. Drops(n, q) /\ n.link = "up"
    BY <1>1, <1>4, <1>5, DropDrops DEF Drop
  <1>7. lost'.unsignalled = u + 1
    BY <1>3 DEF Drop, Inv, LostOk, LostType
  <1>8. ServiceOk(q, in, u + 1)
    BY <1>2, <1>4, <1>6, DroppedOk
  <1> QED
    BY <1>2, <1>5, <1>7, <1>8

LEMMA ServiceStep ==
  ASSUME Inv, ServiceInv, IsService, Next
  PROVE  ServiceInv' /\ (ReadReply => EndsWell(Now, k'))
  <1>1. PICK n : n = Now
    OBVIOUS
  <1>2. /\ ServiceOk(n, inbox, lost.unsignalled) /\ ~remote /\ ~IsSession /\ ~IsIdentity
        /\ n.call = k.call
        /\ \A e \in Call : n.call[e].st # "free" => e \in Operation
    BY <1>1, ServiceNow
  <1>3. \A c \in Call : k.call[c].st # "failing"
    BY <1>2 DEF ServiceOk, ServiceState
  <1>4. inbox # << >> => Head(inbox).type = "reply"
    <2> SUFFICES ASSUME inbox # << >> PROVE Head(inbox).type = "reply"
      OBVIOUS
    <2>1. 1 \in DOMAIN inbox /\ Head(inbox) = inbox[1]
      BY TailIs DEF Inv
    <2> QED
      BY <1>2, <2>1 DEF ServiceOk, ServiceReplies, IsReply
  <1>5. ServiceOk(k', inbox', lost'.unsignalled) /\ ~remote'
    <2>1. CASE Application
      <3>1. AskService \/ AskMechanisms
        BY <1>2, <2>1 DEF Application, Query, Verify, StoreIdentity, RemoveIdentity, ProcessRequest,
                          CancelRequest, ChangeId
      <3>2. UNCHANGED <<inbox, lost, remote>>
        BY <3>1 DEF AskService, AskMechanisms, ClientOnly
      <3>3. ServiceOk(k', inbox, lost.unsignalled)
        BY <3>1, ServiceAsks
      <3> QED
        BY <1>2, <3>2, <3>3
    <2>2. CASE ReadReply
      <3>1. /\ inbox' = Tail(inbox) /\ remote' = remote /\ lost'.unsignalled = lost.unsignalled
        BY <2>2 DEF ReadReply, Inv, LostOk, LostType
      <3>2. ServiceOk(k', Tail(inbox), lost.unsignalled)
        BY <2>2, ServiceReads
      <3> QED
        BY <1>2, <3>1, <3>2
    <2>3. CASE Disconnected \/ Activated \/ ActivationFailed
      <3>1. UNCHANGED <<inbox, remote>>
        BY <2>3 DEF Disconnected, Activated, ActivationFailed, ClientOnly
      <3>2. ServiceOk(k', inbox, lost'.unsignalled)
        BY <2>3, ServiceConnection
      <3> QED
        BY <1>2, <3>1, <3>2
    <2>4. CASE \E c \in Call : Ends(c)
      <3>1. PICK c \in Call : Ends(c)
        BY <2>4
      <3>2. CASE CallDisconnected(c)
        <4>1. UNCHANGED <<inbox, lost, remote>>
          BY <3>2 DEF CallDisconnected, ClientOnly
        <4>2. ServiceOk(k', inbox, lost.unsignalled)
          BY <3>2, ServiceCut
        <4> QED
          BY <1>2, <4>1, <4>2
      <3>3. CASE Serve(c)
        <4>1. lost' = lost
          BY <3>3 DEF Serve, Served, ServeUnknown, ServeDenied
        <4> QED
          BY <3>3, <4>1, ServiceServes
      <3> QED
        BY <1>3, <3>1, <3>2, <3>3 DEF Ends, PostedFail
    <2>5. CASE Drop
      <3>1. inbox' = inbox /\ ~remote'
        BY <2>5 DEF Drop
      <3>2. ServiceOk(k', inbox, lost'.unsignalled)
        BY <2>5, ServiceDrops
      <3> QED
        BY <3>1, <3>2
    <2>6. CASE Restart
      <3>1. inbox' = inbox /\ remote' = remote /\ lost' = lost /\ k' = n
        BY <1>1, <2>6 DEF Restart
      <3> QED
        BY <1>2, <3>1
    <2>7. ~ReadSignal /\ ~StoredByOther /\ ~Unregister
      BY <1>2, <1>4 DEF ReadSignal, StoredByOther, Unregister
    <2> QED
      BY <2>1, <2>2, <2>3, <2>4, <2>5, <2>6, <2>7 DEF Next, EventLoop
  <1>6. ReadReply => EndsWell(n, k')
    BY <1>1, ServiceReads
  <1> QED
    BY <1>1, <1>5, <1>6 DEF ServiceInv

-----------------------------------------------------------------------------
\* Every call reports once.

LEMMA ServiceInit == Init => ServiceInv
  <1> SUFFICES ASSUME Init, IsService PROVE ~remote /\ ServiceOk(k, inbox, lost.unsignalled)
    BY DEF ServiceInv
  <1>1. PICK none : none = [NoCalls EXCEPT !.known = (object # "new")]
    OBVIOUS
  <1>2. PICK known \in BOOLEAN : none = [NoCalls EXCEPT !.known = known]
    BY <1>1
  <1>3. PICK new : new = InitConnection(none, daemon)
    OBVIOUS
  <1>4. k = ServiceObject(new)
    <2>1. k = LET made == InitConnection([NoCalls EXCEPT !.known = (object # "new")], daemon)
              IN  CASE IsSession -> InitInterface(made, daemon)
                    [] IsService -> ServiceObject(made)
                    [] IsIdentity -> RegisterIdentity(made, daemon)
      BY Zenon DEF Init
    <2> QED
      BY <1>1, <1>3, <2>1 DEF IsSession, IsService, IsIdentity
  <1>5. daemon \in BOOLEAN /\ ~remote /\ inbox = << >> /\ lost.unsignalled = 0
    BY DEF Init
  <1>6. /\ Mid(none) /\ none.link = "none" /\ none.methods = << >>
        /\ none.proxy[Main].conn = "none" /\ none.proxy[Main].status = "Incomplete"
        /\ \A c \in Call : none.call[c] = FreeCall
        /\ \A s \in Service : ~none.proxy[s].used
    BY <1>2, NoCallsMid
  <1>7. Carries(none, new) /\ Conn(none, new)
    BY <1>3, <1>5, <1>6, InitConnectionConnects DEF Connects
  <1>8. /\ Mid(new) /\ new.methods = << >> /\ \A c \in Operation : new.call[c].st = "free"
        /\ \A s \in Service : ~new.proxy[s].used
        /\ new.proxy[Main].conn \in {"none", "live"} /\ (new.proxy[Main].conn = "none" => new.link = "none")
    BY <1>6, <1>7, FreeCallType, Slots DEF Carries, Conn, Calm, SameObject, SameUsed, CallKeeps
  <1>9. PICK q : q = SetObjectPath(new, Main, TRUE)
    OBVIOUS
  <1>10. MainSet(new, q) /\ q.proxy[Main].path /\ q.proxy[Main].status # "Invalid"
    BY <1>8, <1>9, SetObjectPathSets
  <1>11. /\ Mid(q) /\ q.methods = << >> /\ \A c \in Operation : q.call[c].st = "free"
         /\ \A s \in Service : ~q.proxy[s].used
         /\ q.proxy[Main].conn \in {"none", "live"} /\ (q.proxy[Main].conn = "none" => q.link = "none")
    BY <1>8, <1>10, Slots DEF MainSet, SameObject, SameUsed, CallKeeps, FailsAs
  <1>12. PICK in : in = << >>
    OBVIOUS
  <1>13. DOMAIN in = {} /\ DOMAIN q.methods = {}
    BY <1>11, <1>12
  <1>14. ServiceState(q) /\ ServiceReplies(in) /\ InOrder(q, in)
    BY <1>10, <1>11, <1>13 DEF ServiceState, ServiceReplies, InOrder
  <1>15. Linked(q, in, 0)
    BY <1>10, <1>11, <1>12 DEF Linked, Lives
  <1>16. ServiceOk(q, in, 0)
    BY <1>11, <1>14, <1>15 DEF ServiceOk
  <1>17. k = q
    BY <1>4, <1>9 DEF ServiceObject
  <1> QED
    BY <1>5, <1>12, <1>16, <1>17

\* The kind of object stays what it is.
LEMMA ObjectStays == Next => object' = object
  <1>1. Application => object' = object
    BY DEF Application, Query, Verify, StoreIdentity, RemoveIdentity, ProcessRequest, CancelRequest, ChangeId,
           AskMechanisms, AskService, ClientOnly
  <1>2. EventLoop => object' = object
    BY DEF EventLoop, ReadReply, ReadSignal, Disconnected, Activated, ActivationFailed, ClientOnly
  <1>3. ASSUME NEW c \in Call, Ends(c) PROVE object' = object
    BY <1>3 DEF Ends, PostedFail, CallDisconnected, Serve, Served, ServeUnknown, ServeDenied, ClientOnly
  <1>4. StoredByOther \/ Unregister \/ Drop \/ Restart => object' = object
    BY DEF StoredByOther, Unregister, Drop, Restart
  <1> QED
    BY <1>1, <1>2, <1>3, <1>4 DEF Next

LEMMA ServiceNext == Inv /\ ServiceInv /\ [Next]_vars => ServiceInv'
  <1> SUFFICES ASSUME Inv, ServiceInv, [Next]_vars PROVE ServiceInv'
    OBVIOUS
  <1>1. CASE Next
    <2>1. CASE IsService
      BY <1>1, <2>1, ServiceStep
    <2>2. CASE ~IsService
      BY <1>1, <2>2, ObjectStays DEF ServiceInv, IsService
    <2> QED
      BY <2>1, <2>2
  <1>2. CASE UNCHANGED vars
    <2>1. object' = object /\ k' = k /\ inbox' = inbox /\ remote' = remote /\ lost' = lost
      BY <1>2 DEF vars
    <2> QED
      BY <2>1 DEF ServiceInv, IsService
  <1> QED
    BY <1>1, <1>2

\* Why a call that ends has reported: an end that is not reported is mistaken
\* for a registration's, or was not asked for first.
LEMMA EndsOnceStep ==
  ASSUME Inv, ServiceInv, Next, ~Mistaken, NEW call \in k'.ended, ~call.unnoticed
  PROVE  call.told = 1
  <1>1. PICK n : n = Now
    OBVIOUS
  <1>2. n.ended = {} /\ n.call = k.call /\ n.registering = k.registering /\ Mid(n)
    BY <1>1, NowFacts
  <1>3. EndsWell(n, k') => call.told = 1
    BY <1>2 DEF EndsWell, EndedWell
  <1>4. ASSUME NEW c \in Call, NEW result \in {"ok", "denied", "unknown"}, Unreported(c, result)
        PROVE  EndsWell(n, k')
    <2>1. /\ ReadReply /\ inbox # << >> /\ IsReply(Head(inbox))
          /\ Head(inbox).call = c /\ Head(inbox).result = result
          /\ inbox' = Tail(inbox) /\ Exempt(n, c, result) /\ ~ToRequeue(n.call[c], result)
      BY <1>1, <1>2, <1>4 DEF Unreported, ReadReply
    <2>2. c \in Operation /\ ~IsIdentity
      BY <2>1 DEF Exempt, IsIdentity
    <2>3. CASE IsSession
      <3>1. n.registering /\ result # "ok"
        BY <2>1, <2>3 DEF Exempt
      <3>2. ~n.proxy[Main].path /\ n.call[c].st = "sent"
        BY ZenonT(30), <1>1, <1>2, <2>1, <2>3, <3>1, HeadReply, NowFacts DEF ClientOk
      <3>3. n.call[c].cut
        BY <1>2, <2>2, <3>2 DEF Mid
      <3>4. result = "denied"
        BY <2>1, <3>1, <3>3 DEF ToRequeue
      <3>5. Mistaken
        BY <1>2, <2>1, <2>2, <2>3, <3>1, <3>4 DEF Mistaken, IsReply
      <3> QED
        BY <3>5
    <2>4. CASE IsService
      BY <1>1, <2>1, <2>4, ServiceStep
    <2> QED
      BY <2>2, <2>3, <2>4 DEF IsIdentity
  <1> QED
    BY <1>1, <1>3, <1>4, NextInv DEF Reports

\* A call of the application reports one result or one error when it ends
\* (PendingCall::onFinished(), AsyncDBusProxy::setStatus(), the error slots).
THEOREM EndsOnceHolds == Spec => EndsOnce
  <1>1. Init => Inv /\ ServiceInv
    BY InitInv, ServiceInit
  <1>2. (Inv /\ ServiceInv) /\ [Next]_vars => (Inv /\ ServiceInv)'
    BY NextInv, StutterInv, ServiceNext
  <1>3. Inv /\ ServiceInv /\ [Next]_vars =>
            [~Mistaken => \A call \in k'.ended : ~call.unnoticed => call.told = 1]_vars
    BY EndsOnceStep
  <1> QED
    BY <1>1, <1>2, <1>3, PTL DEF Spec, EndsOnce

-----------------------------------------------------------------------------
\* The identity answers from what the daemon has stored.

\* What a message makes of the identity: a signal; a reply that bears its
\* information; the reply to a store, to a removal or to another call; none.
Kind(r, m) ==
    IF ~IsReply(m) THEN "signal"
    ELSE IF m.result # "ok" THEN "none"
    ELSE IF r.call[m.call].op \in {"register", "getInfo"} THEN "info"
    ELSE r.call[m.call].op

Stores(r, in, i) == Kind(r, in[i]) = "store"
Tells(r, in, i) == Kind(r, in[i]) \in {"signal", "info"}

\* What is not known to be stored is not: neither by the client, nor by the
\* client after a removal whose reply it will read.
Forgets(r, in, v) ==
    /\ ~r.known => r.info = NoVersion
    /\ \A i \in DOMAIN in :
           ~r.known /\ Kind(r, in[i]) = "info" /\ (\A j \in DOMAIN in : j < i => ~Stores(r, in, j))
               => in[i].info = NoVersion
    /\ \A h, i \in DOMAIN in :
           (/\ Kind(r, in[h]) = "remove" /\ Kind(r, in[i]) = "info" /\ h < i
            /\ \A j \in DOMAIN in : h < j /\ j < i => ~Stores(r, in, j))
               => in[i].info = NoVersion
    /\ ~r.known /\ (\A j \in DOMAIN in : ~Stores(r, in, j)) => v = NoVersion
    /\ \A h \in DOMAIN in :
           Kind(r, in[h]) = "remove" /\ (\A j \in DOMAIN in : h < j => ~Stores(r, in, j)) => v = NoVersion

\* What is read last of the identity, or has been read, is what is stored: what
\* has changed since is told by a signal.
Follows(r, in, v, has, missed) ==
    has => /\ \A i \in DOMAIN in :
                  Kind(r, in[i]) = "info" /\ (\A j \in DOMAIN in : i < j => ~Tells(r, in, j))
                      => in[i].info = v
           /\ r.state = "Ready" /\ ~missed /\ (\A j \in DOMAIN in : ~Tells(r, in, j)) => r.info = v

IdentityOk(r, in, v, has, missed) == Forgets(r, in, v) /\ Follows(r, in, v, has, missed)

LEMMA IdentityKept ==
  ASSUME NEW r, NEW q, NEW in, NEW v, NEW has, NEW has2, NEW missed, NEW missed2,
         IdentityOk(r, in, v, has, missed), q.known = r.known, q.info = r.info,
         q.state = "Ready" => r.state = "Ready",
         \A i \in DOMAIN in : Kind(q, in[i]) = Kind(r, in[i]),
         has2 => has, missed => missed2
  PROVE  IdentityOk(q, in, v, has2, missed2)
  <1>1. \A i \in DOMAIN in : Stores(q, in, i) = Stores(r, in, i) /\ Tells(q, in, i) = Tells(r, in, i)
    BY DEF Stores, Tells
  <1>2. Forgets(q, in, v)
    BY <1>1 DEF IdentityOk, Forgets
  <1>3. Follows(q, in, v, has2, missed2)
    BY <1>1 DEF IdentityOk, Follows
  <1> QED
    BY <1>2, <1>3 DEF IdentityOk

\* What reading the message m makes of the identity.
HasRead(r, q, m, missed, missed2) ==
    CASE Kind(r, m) = "info" -> q.known = r.known /\ q.info = m.info
      [] Kind(r, m) = "store" -> /\ q.known /\ q.info = r.info
                                 /\ q.state = "Ready" => r.state = "Ready"
                                 /\ missed => missed2
      [] Kind(r, m) = "remove" -> ~q.known /\ q.info = NoVersion /\ q.state # "Ready"
      [] Kind(r, m) = "signal" -> q.known = r.known /\ q.info = r.info /\ (q.state # "Ready" \/ missed2)
      [] OTHER -> /\ q.known = r.known /\ q.info = r.info
                  /\ q.state = "Ready" => r.state = "Ready"
                  /\ missed => missed2

LEMMA IdentityReads ==
  ASSUME NEW r, NEW q, NEW in \in Seq(Message), in # << >>, NEW v, NEW has, NEW missed, NEW missed2,
         IdentityOk(r, in, v, has, missed), HasRead(r, q, in[1], missed, missed2),
         NEW rest, rest = Tail(in),
         \A i \in DOMAIN rest : Kind(q, rest[i]) = Kind(r, rest[i])
  PROVE  IdentityOk(q, rest, v, has, missed2)
  <1>1. /\ 1 \in DOMAIN in /\ DOMAIN in \subseteq Nat \ {0} /\ DOMAIN rest \subseteq Nat \ {0}
        /\ \A i \in DOMAIN rest : i + 1 \in DOMAIN in /\ rest[i] = in[i + 1]
        /\ \A i \in DOMAIN in : i # 1 => i - 1 \in DOMAIN rest /\ rest[i - 1] = in[i]
    BY TailIs, InboxIs
  <1>2. /\ \A i \in DOMAIN rest : /\ Kind(q, rest[i]) = Kind(r, in[i + 1])
                                  /\ Stores(q, rest, i) <=> Stores(r, in, i + 1)
                                  /\ Tells(q, rest, i) <=> Tells(r, in, i + 1)
    BY <1>1 DEF Stores, Tells
  <1>3. PICK first : first = Kind(r, in[1])
    OBVIOUS
  <1>4. /\ Stores(r, in, 1) <=> first = "store"
        /\ Tells(r, in, 1) <=> first \in {"signal", "info"}
    BY <1>3 DEF Stores, Tells
  \* What holds of all that is read before i, or in between, holds of it in the rest.
  <1>5. \A h \in DOMAIN rest : (\A j \in DOMAIN rest : h < j => ~Stores(q, rest, j))
            => \A j \in DOMAIN in : h + 1 < j => ~Stores(r, in, j)
    <2> SUFFICES ASSUME NEW h \in DOMAIN rest, \A j \in DOMAIN rest : h < j => ~Stores(q, rest, j),
                        NEW j \in DOMAIN in, h + 1 < j
                 PROVE  ~Stores(r, in, j)
      OBVIOUS
    <2>1. j - 1 \in DOMAIN rest /\ h < j - 1 /\ (j - 1) + 1 = j
      BY <1>1
    <2> QED
      BY <1>2, <2>1
  <1>6. \A h, i \in DOMAIN rest : (\A j \in DOMAIN rest : h < j /\ j < i => ~Stores(q, rest, j))
            => \A j \in DOMAIN in : h + 1 < j /\ j < i + 1 => ~Stores(r, in, j)
    <2> SUFFICES ASSUME NEW h \in DOMAIN rest, NEW i \in DOMAIN rest,
                        \A j \in DOMAIN rest : h < j /\ j < i => ~Stores(q, rest, j),
                        NEW j \in DOMAIN in, h + 1 < j, j < i + 1
                 PROVE  ~Stores(r, in, j)
      OBVIOUS
    <2>1. j - 1 \in DOMAIN rest /\ h < j - 1 /\ j - 1 < i /\ (j - 1) + 1 = j
      BY SMTT(20), <1>1
    <2> QED
      BY <1>2, <2>1
  <1>7. \A i \in DOMAIN rest : (\A j \in DOMAIN rest : j < i => ~Stores(q, rest, j))
            => \A j \in DOMAIN in : 1 < j /\ j < i + 1 => ~Stores(r, in, j)
    <2> SUFFICES ASSUME NEW i \in DOMAIN rest, \A j \in DOMAIN rest : j < i => ~Stores(q, rest, j),
                        NEW j \in DOMAIN in, 1 < j, j < i + 1
                 PROVE  ~Stores(r, in, j)
      OBVIOUS
    <2>1. j - 1 \in DOMAIN rest /\ j - 1 < i /\ (j - 1) + 1 = j
      BY <1>1
    <2> QED
      BY <1>2, <2>1
  <1>8. (\A j \in DOMAIN rest : ~Stores(q, rest, j)) => \A j \in DOMAIN in : 1 < j => ~Stores(r, in, j)
    <2> SUFFICES ASSUME \A j \in DOMAIN rest : ~Stores(q, rest, j), NEW j \in DOMAIN in, 1 < j
                 PROVE  ~Stores(r, in, j)
      OBVIOUS
    <2>1. j - 1 \in DOMAIN rest /\ (j - 1) + 1 = j
      BY <1>1
    <2> QED
      BY <1>2, <2>1
  <1>9. (\A j \in DOMAIN rest : ~Tells(q, rest, j)) => \A j \in DOMAIN in : 1 < j => ~Tells(r, in, j)
    <2> SUFFICES ASSUME \A j \in DOMAIN rest : ~Tells(q, rest, j), NEW j \in DOMAIN in, 1 < j
                 PROVE  ~Tells(r, in, j)
      OBVIOUS
    <2>1. j - 1 \in DOMAIN rest /\ (j - 1) + 1 = j
      BY <1>1
    <2> QED
      BY <1>2, <2>1
  <1>10. \A i \in DOMAIN rest : (\A j \in DOMAIN rest : i < j => ~Tells(q, rest, j))
            => \A j \in DOMAIN in : i + 1 < j => ~Tells(r, in, j)
    <2> SUFFICES ASSUME NEW i \in DOMAIN rest, \A j \in DOMAIN rest : i < j => ~Tells(q, rest, j),
                        NEW j \in DOMAIN in, i + 1 < j
                 PROVE  ~Tells(r, in, j)
      OBVIOUS
    <2>1. j - 1 \in DOMAIN rest /\ i < j - 1 /\ (j - 1) + 1 = j
      BY <1>1
    <2> QED
      BY <1>2, <2>1
  <1>11. \A j \in DOMAIN in : j = 1 \/ 1 < j
    BY <1>1
  <1>12. \A h, i \in DOMAIN rest : (h < i <=> h + 1 < i + 1) /\ 1 < i + 1
    BY SMTT(20), <1>1
  \* The client that knows of nothing stored has read a removal, or knew of nothing.
  <1>13. ~q.known => first = "remove" \/ (~r.known /\ first # "store")
    BY <1>3 DEF HasRead
  <1>14. ~q.known => q.info = NoVersion
    <2>1. CASE first = "info"
      <3>1. ~r.known => in[1].info = NoVersion
        <4>1. \A j \in DOMAIN in : ~(j < 1)
          BY <1>1
        <4> QED
          BY <1>1, <1>3, <2>1, <4>1 DEF IdentityOk, Forgets
      <3> QED
        BY <1>3, <2>1, <3>1 DEF HasRead
    <2>2. CASE first # "info"
      BY <1>3, <2>2 DEF HasRead, IdentityOk, Forgets
    <2> QED
      BY <2>1, <2>2
  <1>15. ASSUME NEW i \in DOMAIN rest, ~q.known, Kind(q, rest[i]) = "info",
                \A j \in DOMAIN rest : j < i => ~Stores(q, rest, j)
         PROVE  rest[i].info = NoVersion
    <2>1. /\ i + 1 \in DOMAIN in /\ rest[i] = in[i + 1] /\ Kind(r, in[i + 1]) = "info"
          /\ \A j \in DOMAIN in : 1 < j /\ j < i + 1 => ~Stores(r, in, j)
      BY <1>1, <1>2, <1>7, <1>15
    <2>2. CASE first = "remove"
      <3>1. PICK n : n = i + 1
        OBVIOUS
      <3>2. PICK one : one = 1
        OBVIOUS
      <3>3. /\ one \in DOMAIN in /\ n \in DOMAIN in /\ one < n /\ rest[i] = in[n]
            /\ Kind(r, in[one]) = "remove" /\ Kind(r, in[n]) = "info"
            /\ \A j \in DOMAIN in : one < j /\ j < n => ~Stores(r, in, j)
        BY <1>1, <1>3, <1>12, <2>1, <2>2, <3>1, <3>2
      <3> QED
        BY <3>3 DEF IdentityOk, Forgets
    <2>3. CASE ~r.known /\ first # "store"
      <3>1. \A j \in DOMAIN in : j < i + 1 => ~Stores(r, in, j)
        BY <1>4, <1>11, <2>1, <2>3
      <3> QED
        BY <2>1, <2>3, <3>1 DEF IdentityOk, Forgets
    <2> QED
      BY <1>13, <1>15, <2>2, <2>3
  <1>16. ASSUME NEW h \in DOMAIN rest, NEW i \in DOMAIN rest,
                Kind(q, rest[h]) = "remove", Kind(q, rest[i]) = "info", h < i,
                \A j \in DOMAIN rest : h < j /\ j < i => ~Stores(q, rest, j)
         PROVE  rest[i].info = NoVersion
    <2>1. /\ h + 1 \in DOMAIN in /\ i + 1 \in DOMAIN in /\ rest[i] = in[i + 1]
          /\ Kind(r, in[h + 1]) = "remove" /\ Kind(r, in[i + 1]) = "info" /\ h + 1 < i + 1
          /\ \A j \in DOMAIN in : h + 1 < j /\ j < i + 1 => ~Stores(r, in, j)
      BY <1>1, <1>2, <1>6, <1>12, <1>16
    <2> QED
      BY <2>1 DEF IdentityOk, Forgets
  <1>17. ASSUME ~q.known, \A j \in DOMAIN rest : ~Stores(q, rest, j)
         PROVE  v = NoVersion
    <2>1. \A j \in DOMAIN in : 1 < j => ~Stores(r, in, j)
      BY <1>8, <1>17
    <2>2. CASE first = "remove"
      BY <1>1, <1>3, <2>1, <2>2 DEF IdentityOk, Forgets
    <2>3. CASE ~r.known /\ first # "store"
      <3>1. \A j \in DOMAIN in : ~Stores(r, in, j)
        BY <1>4, <1>11, <2>1, <2>3
      <3> QED
        BY <2>3, <3>1 DEF IdentityOk, Forgets
    <2> QED
      BY <1>13, <1>17, <2>2, <2>3
  <1>18. ASSUME NEW h \in DOMAIN rest, Kind(q, rest[h]) = "remove",
                \A j \in DOMAIN rest : h < j => ~Stores(q, rest, j)
         PROVE  v = NoVersion
    <2>1. /\ h + 1 \in DOMAIN in /\ Kind(r, in[h + 1]) = "remove"
          /\ \A j \in DOMAIN in : h + 1 < j => ~Stores(r, in, j)
      BY <1>1, <1>2, <1>5, <1>18
    <2> QED
      BY <2>1 DEF IdentityOk, Forgets
  <1>19. Forgets(q, rest, v)
    BY <1>14, <1>15, <1>16, <1>17, <1>18 DEF Forgets
  <1>20. ASSUME has, NEW i \in DOMAIN rest, Kind(q, rest[i]) = "info",
                \A j \in DOMAIN rest : i < j => ~Tells(q, rest, j)
         PROVE  rest[i].info = v
    <2>1. /\ i + 1 \in DOMAIN in /\ rest[i] = in[i + 1] /\ Kind(r, in[i + 1]) = "info"
          /\ \A j \in DOMAIN in : i + 1 < j => ~Tells(r, in, j)
      BY <1>1, <1>2, <1>10, <1>20
    <2> QED
      BY <1>20, <2>1 DEF IdentityOk, Follows
  <1>21. ASSUME has, q.state = "Ready", ~missed2, \A j \in DOMAIN rest : ~Tells(q, rest, j)
         PROVE  q.info = v
    <2>1. \A j \in DOMAIN in : 1 < j => ~Tells(r, in, j)
      BY <1>9, <1>21
    <2>2. CASE first = "info"
      <3>1. in[1].info = v
        BY <1>1, <1>3, <1>21, <2>1, <2>2 DEF IdentityOk, Follows
      <3> QED
        BY <1>3, <2>2, <3>1 DEF HasRead
    <2>3. CASE first # "info"
      <3>1. first # "signal" /\ first # "remove"
        BY <1>3, <1>21 DEF HasRead
      <3>2. q.info = r.info /\ r.state = "Ready" /\ ~missed
        BY <1>3, <1>21, <2>3, <3>1 DEF HasRead
      <3>3. \A j \in DOMAIN in : ~Tells(r, in, j)
        BY <1>4, <1>11, <2>1, <2>3, <3>1
      <3> QED
        BY <1>21, <3>2, <3>3 DEF IdentityOk, Follows
    <2> QED
      BY <2>2, <2>3
  <1>22. Follows(q, rest, v, has, missed2)
    BY <1>20, <1>21 DEF Follows
  <1> QED
    BY <1>19, <1>22 DEF IdentityOk

\* A message is sent, with what it tells of.
LEMMA IdentitySent ==
  ASSUME NEW r, NEW in \in Seq(Message), NEW m \in Message, NEW v, NEW v2, NEW has, NEW has2, NEW missed,
         IdentityOk(r, in, v, has, missed),
         Kind(r, m) = "info" => m.info = v2,
         Kind(r, m) = "remove" => v2 = NoVersion,
         v2 \in {v, NoVersion} \/ Kind(r, m) = "store" \/ v # NoVersion,
         has2 /\ (v2 # v \/ ~has) => \/ Kind(r, m) \in {"signal", "info"}
                                     \/ in # << >> /\ Kind(r, in[Len(in)]) = "signal",
         Kind(r, m) = "info" => v2 = v,
         NEW in2, in2 = Append(in, m)
  PROVE  IdentityOk(r, in2, v2, has2, missed)
  <1>1. PICK n : n = Len(in) + 1
    OBVIOUS
  <1>2. /\ n \in DOMAIN in2 /\ in2[n] = m /\ DOMAIN in2 \subseteq Nat \ {0}
        /\ \A i \in DOMAIN in : i \in DOMAIN in2 /\ in2[i] = in[i] /\ i < n
        /\ \A i \in DOMAIN in2 : i \in DOMAIN in \/ i = n
        /\ in # << >> => Len(in) \in DOMAIN in
        /\ \A i \in DOMAIN in : i <= Len(in)
    BY <1>1, AppendIs, InboxIs
  <1>3. PICK last : last = Kind(r, m)
    OBVIOUS
  <1>4. /\ \A i \in DOMAIN in : /\ Stores(r, in2, i) <=> Stores(r, in, i)
                                /\ Tells(r, in2, i) <=> Tells(r, in, i)
        /\ Stores(r, in2, n) <=> last = "store"
        /\ Tells(r, in2, n) <=> last \in {"signal", "info"}
    BY <1>2, <1>3 DEF Stores, Tells
  <1>5. \A i \in DOMAIN in2 : i < n => i \in DOMAIN in
    BY <1>1, <1>2, InboxIs
  <1>6. ASSUME NEW i \in DOMAIN in2, ~r.known, Kind(r, in2[i]) = "info",
               \A j \in DOMAIN in2 : j < i => ~Stores(r, in2, j)
        PROVE  in2[i].info = NoVersion
    <2>1. CASE i \in DOMAIN in
      <3>1. Kind(r, in[i]) = "info" /\ \A j \in DOMAIN in : j < i => ~Stores(r, in, j)
        BY <1>2, <1>4, <1>6, <2>1
      <3> QED
        BY <1>2, <1>6, <2>1, <3>1 DEF IdentityOk, Forgets
    <2>2. CASE i = n
      <3>1. \A j \in DOMAIN in : ~Stores(r, in, j)
        BY <1>2, <1>4, <1>6, <2>2
      <3>2. v = NoVersion
        BY <1>6, <3>1 DEF IdentityOk, Forgets
      <3> QED
        BY <1>2, <1>6, <2>2, <3>2
    <2> QED
      BY <1>2, <2>1, <2>2
  <1>7. ASSUME NEW h \in DOMAIN in2, NEW i \in DOMAIN in2,
               Kind(r, in2[h]) = "remove", Kind(r, in2[i]) = "info", h < i,
               \A j \in DOMAIN in2 : h < j /\ j < i => ~Stores(r, in2, j)
        PROVE  in2[i].info = NoVersion
    <2>1. h \in DOMAIN in
      BY <1>2, <1>5, <1>7
    <2>2. CASE i \in DOMAIN in
      <3>1. /\ Kind(r, in[h]) = "remove" /\ Kind(r, in[i]) = "info"
            /\ \A j \in DOMAIN in : h < j /\ j < i => ~Stores(r, in, j)
        BY <1>2, <1>4, <1>7, <2>1, <2>2
      <3> QED
        BY <1>2, <1>7, <2>1, <2>2, <3>1 DEF IdentityOk, Forgets
    <2>3. CASE i = n
      <3>1. Kind(r, in[h]) = "remove" /\ \A j \in DOMAIN in : h < j => ~Stores(r, in, j)
        BY <1>2, <1>4, <1>7, <2>1, <2>3
      <3>2. v = NoVersion
        BY <2>1, <3>1 DEF IdentityOk, Forgets
      <3> QED
        BY <1>2, <1>7, <2>3, <3>2
    <2> QED
      BY <1>2, <2>2, <2>3
  <1>8. ASSUME ~r.known, \A j \in DOMAIN in2 : ~Stores(r, in2, j)
        PROVE  v2 = NoVersion
    <2>1. (\A j \in DOMAIN in : ~Stores(r, in, j)) /\ last # "store"
      BY <1>2, <1>4, <1>8
    <2>2. v = NoVersion
      BY <1>8, <2>1 DEF IdentityOk, Forgets
    <2> QED
      BY <1>3, <2>1, <2>2
  <1>9. ASSUME NEW h \in DOMAIN in2, Kind(r, in2[h]) = "remove",
               \A j \in DOMAIN in2 : h < j => ~Stores(r, in2, j)
        PROVE  v2 = NoVersion
    <2>1. CASE h \in DOMAIN in
      <3>1. /\ Kind(r, in[h]) = "remove" /\ last # "store"
            /\ \A j \in DOMAIN in : h < j => ~Stores(r, in, j)
        BY <1>2, <1>4, <1>9, <2>1
      <3>2. v = NoVersion
        BY <2>1, <3>1 DEF IdentityOk, Forgets
      <3> QED
        BY <1>3, <3>1, <3>2
    <2>2. CASE h = n
      BY <1>2, <1>9, <2>2
    <2> QED
      BY <1>2, <2>1, <2>2
  <1>10. ~r.known => r.info = NoVersion
    BY DEF IdentityOk, Forgets
  <1>11. Forgets(r, in2, v2)
    BY <1>6, <1>7, <1>8, <1>9, <1>10 DEF Forgets
  <1>12. ASSUME has2, last \notin {"signal", "info"}
         PROVE  (v2 = v /\ has) \/ \E j \in DOMAIN in : /\ Tells(r, in, j) /\ Kind(r, in[j]) = "signal"
                                                        /\ \A i \in DOMAIN in : i <= j
    BY <1>2, <1>3, <1>12 DEF Tells
  <1>13. ASSUME has2, NEW i \in DOMAIN in2, Kind(r, in2[i]) = "info",
                \A j \in DOMAIN in2 : i < j => ~Tells(r, in2, j)
         PROVE  in2[i].info = v2
    <2>1. CASE i = n
      BY <1>2, <1>13, <2>1
    <2>2. CASE i \in DOMAIN in
      <3>1. last \notin {"signal", "info"}
        BY <1>2, <1>4, <1>13, <2>2
      <3>2. Kind(r, in[i]) = "info" /\ \A j \in DOMAIN in : i < j => ~Tells(r, in, j)
        BY <1>2, <1>4, <1>13, <2>2
      <3>3. CASE v2 = v /\ has
        BY <1>2, <2>2, <3>2, <3>3 DEF IdentityOk, Follows
      <3>4. ASSUME NEW j \in DOMAIN in, Tells(r, in, j), Kind(r, in[j]) = "signal", i <= j
            PROVE  FALSE
        <4>1. i # j
          BY <3>2, <3>4
        <4>2. i < j
          BY <1>2, <2>2, <3>4, <4>1
        <4> QED
          BY <3>2, <3>4, <4>2
      <3> QED
        BY <1>12, <1>13, <2>2, <3>1, <3>3, <3>4
    <2> QED
      BY <1>2, <2>1, <2>2
  <1>14. ASSUME has2, r.state = "Ready", ~missed, \A j \in DOMAIN in2 : ~Tells(r, in2, j)
         PROVE  r.info = v2
    <2>1. last \notin {"signal", "info"} /\ \A j \in DOMAIN in : ~Tells(r, in, j)
      BY <1>2, <1>4, <1>14
    <2>2. v2 = v /\ has
      BY <1>12, <1>14, <2>1
    <2> QED
      BY <1>14, <2>1, <2>2 DEF IdentityOk, Follows
  <1>15. Follows(r, in2, v2, has2, missed)
    BY <1>13, <1>14 DEF Follows
  <1> QED
    BY <1>11, <1>15 DEF IdentityOk

IdentityInv == IsIdentity => IdentityOk(k, inbox, version, remote, lost.unheard)

\* A call that waits for its reply keeps what it asks.
LEMMA RepliedKinds ==
  ASSUME NEW r, Mid(r), NEW q, NEW c, Rest(r, q, c), NEW in \in Seq(Message), Replies(r, in),
         \A i \in DOMAIN in : IsReply(in[i]) => in[i].call # c
  PROVE  \A i \in DOMAIN in : Kind(q, in[i]) = Kind(r, in[i])
  <1> SUFFICES ASSUME NEW i \in DOMAIN in, IsReply(in[i])
               PROVE  q.call[in[i].call].op = r.call[in[i].call].op
    BY DEF Kind
  <1>1. PICK e : e = in[i].call
    OBVIOUS
  <1>2. e \in Call /\ e # c /\ r.call[e].st = "sent"
    BY <1>1, InboxIs, MessageType DEF Replies
  <1>3. CASE e \in Operation
    BY <1>1, <1>2, <1>3 DEF Rest, Moves, CallKeeps
  <1>4. CASE e \in Service
    BY <1>1, <1>2, <1>4 DEF Rest, GoesOn, CallKeeps
  <1> QED
    BY <1>2, <1>3, <1>4, Slots

\* A step of the client alone: what is stored, and what has been sent, stay.
LEMMA ClientStep ==
  ASSUME Inv, IdentityInv, IsIdentity, NEW n, n = Now, NEW q, NEW c, Rest(n, q, c),
         \A i \in DOMAIN inbox : IsReply(inbox[i]) => inbox[i].call # c,
         q.known = n.known, q.info = n.info, q.state = "Ready" => n.state = "Ready",
         NEW has, has => remote
  PROVE  IdentityOk(q, inbox, version, has, lost.unheard)
  <1>1. PICK in \in Seq(Message) : in = inbox
    BY DEF Inv
  <1>2. /\ Mid(n) /\ n.call = k.call /\ n.known = k.known /\ n.info = k.info /\ n.state = k.state
    BY NowFacts
  <1>3. Replies(n, in)
    BY <1>1, <1>2 DEF Inv, Replies
  <1>4. \A i \in DOMAIN in : Kind(q, in[i]) = Kind(n, in[i])
    BY <1>1, <1>2, <1>3, RepliedKinds
  <1>5. \A i \in DOMAIN in : Kind(q, in[i]) = Kind(k, in[i])
    BY <1>2, <1>4 DEF Kind
  <1>6. PICK v : v = version
    OBVIOUS
  <1>7. PICK missed : missed = lost.unheard
    OBVIOUS
  <1>8. PICK had : had = remote
    OBVIOUS
  <1>9. IdentityOk(k, in, v, had, missed)
    BY <1>1, <1>6, <1>7, <1>8 DEF IdentityInv
  <1>10. IdentityOk(q, in, v, has, missed)
    BY <1>2, <1>5, <1>8, <1>9, IdentityKept
  <1> QED
    BY <1>1, <1>6, <1>7, <1>10

\* The calls of the application.
LEMMA PosedKept ==
  ASSUME Inv, IdentityInv, IsIdentity, NEW n, n = Now, NEW q, NEW c, n.call[c].st = "free",
         NEW op, Posed(n, q, c, op), q.state = "Ready" => n.state = "Ready"
  PROVE  IdentityOk(q, inbox, version, remote, lost.unheard)
  <1>1. Rest(n, q, c) /\ q.known = n.known /\ q.info = n.info
    BY DEF Posed, Poses
  <1>2. \A i \in DOMAIN inbox : IsReply(inbox[i]) => inbox[i].call # c
    BY NowFacts DEF Inv, Replies
  <1> QED
    BY <1>1, <1>2, ClientStep

LEMMA IdentityPosed ==
  ASSUME Inv, IdentityInv, IsIdentity, Room, NEW n, n = Now, NEW op \in Ops,
         k' = CallIdentity(n, Min(FreeCalls(n, Operation)), op, daemon)
  PROVE  IdentityOk(k', inbox, version, remote, lost.unheard)
  <1>1. PICK c : c = Min(FreeCalls(n, Operation))
    OBVIOUS
  <1>2. PICK q : q = k'
    OBVIOUS
  <1>3. c \in Operation /\ n.call[c].st = "free" /\ HasService(n)
    BY <1>1, RoomGives, MinFree
  <1>4. Mid(n) /\ daemon \in BOOLEAN
    BY NowFacts DEF Inv
  <1>5. Posed(n, q, c, op) /\ IdentityAsks(n, q)
    BY <1>1, <1>2, <1>3, <1>4, IdentityPoses DEF CanRegister
  <1>6. q.state = "Ready" => n.state = "Ready"
    BY <1>5 DEF IdentityAsks
  <1>7. IdentityOk(q, inbox, version, remote, lost.unheard)
    BY <1>3, <1>5, <1>6, PosedKept
  <1> QED
    BY <1>2, <1>7

LEMMA IdentityQueries ==
  ASSUME Inv, IdentityInv, Query
  PROVE  IdentityOk(k', inbox, version, remote, lost.unheard)
  <1>1. PICK n : n = Now
    OBVIOUS
  <1>2. PICK q : q = k'
    OBVIOUS
  <1>3. IsIdentity /\ Room /\ q = QueryInfo(n, daemon)
    BY <1>1, <1>2 DEF Query
  <1>4. Mid(n) /\ daemon \in BOOLEAN /\ n.call = k.call
    BY <1>1, NowFacts DEF Inv
  <1>5. CASE n.state = "Ready"
    <2>1. q = n
      BY <1>3, <1>5 DEF QueryInfo
    <2>2. PICK c : c \notin Call
      BY NoSetContainsEverything
    <2>3. Rest(n, n, c)
      BY <1>4, RestSelf
    <2>4. \A i \in DOMAIN inbox : IsReply(inbox[i]) => inbox[i].call # c
      BY <2>2, InboxIs, MessageType DEF Inv
    <2>5. IdentityOk(n, inbox, version, remote, lost.unheard)
      BY <1>1, <1>3, <2>3, <2>4, ClientStep
    <2> QED
      BY <1>2, <2>1, <2>5
  <1>6. CASE n.state # "Ready"
    <2>1. q = UpdateContents(n, daemon)
      BY <1>3, <1>6 DEF QueryInfo
    <2>2. PICK c : c = Min(FreeCalls(n, Operation))
      OBVIOUS
    <2>3. FreeCalls(n, Operation) # {} /\ HasService(n)
      BY <1>1, <1>3, RoomGives
    <2>4. n.call[c].st = "free"
      BY <2>2, <2>3, MinFree
    <2>5. Posed(n, q, c, "getInfo") /\ q.state = "PendingUpdate"
      BY <1>4, <2>1, <2>2, <2>3, UpdateContentsPoses DEF CanRegister
    <2>6. IdentityOk(q, inbox, version, remote, lost.unheard)
      BY <1>1, <1>3, <2>4, <2>5, PosedKept
    <2> QED
      BY <1>2, <2>6
  <1> QED
    BY <1>5, <1>6

LEMMA IdentityStores ==
  ASSUME Inv, IdentityInv, StoreIdentity
  PROVE  IdentityOk(k', inbox, version, remote, lost.unheard)
  <1>1. PICK n : n = Now
    OBVIOUS
  <1>2. PICK c : c = Min(FreeCalls(n, Operation))
    OBVIOUS
  <1>3. PICK z : z = (IF n.state = "Removed" THEN [n EXCEPT !.state = "NeedsRegistration"] ELSE n)
    OBVIOUS
  <1>4. PICK q : q = k'
    OBVIOUS
  <1>5. IsIdentity /\ Room /\ q = CallIdentity(z, c, "store", daemon)
    BY <1>1, <1>2, <1>3, <1>4, Zenon DEF StoreIdentity, StoreCredentials
  <1>6. Mid(n) /\ daemon \in BOOLEAN /\ n.call = k.call /\ n.ended = {}
    BY <1>1, NowFacts DEF Inv
  <1>7. c \in Operation /\ n.call[c].st = "free" /\ HasService(n)
    BY <1>1, <1>2, <1>5, RoomGives, MinFree
  <1>8. /\ Mid(z) /\ z.call = n.call /\ z.proxy = n.proxy /\ z.link = n.link /\ z.ended = n.ended
        /\ z.info = n.info /\ z.known = n.known /\ z.process = n.process /\ z.registering = n.registering
        /\ z.state = "Ready" => n.state = "Ready"
    <2>1. "NeedsRegistration" \in IdentityStates
      BY DEF IdentityStates
    <2> QED
      BY <1>3, <1>6, <2>1, StateSet
  <1>9. HasService(z)
    BY <1>7, <1>8 DEF HasService
  <1>10. "store" \in Ops
    BY DEF Ops
  <1>11. Posed(z, q, c, "store") /\ IdentityAsks(z, q)
    BY <1>5, <1>6, <1>7, <1>8, <1>9, <1>10, IdentityPoses DEF CanRegister
  <1>12. Posed(n, q, c, "store")
    BY <1>8, <1>11 DEF Posed, Poses, Rest, IsNew, SameMain
  <1>13. q.state = "Ready" => n.state = "Ready"
    BY <1>8, <1>11 DEF IdentityAsks
  <1>14. IdentityOk(q, inbox, version, remote, lost.unheard)
    BY <1>1, <1>5, <1>7, <1>12, <1>13, PosedKept
  <1> QED
    BY <1>4, <1>14

\* A reply is read.
LEMMA IdentityReadsReply ==
  ASSUME Inv, IdentityInv, IsIdentity, ReadReply
  PROVE  IdentityOk(k', Tail(inbox), version, remote, lost'.unheard)
  <1>1. PICK n : n = Now
    OBVIOUS
  <1>2. PICK in \in Seq(Message) : in = inbox
    BY DEF Inv
  <1>3. PICK v : v = version
    OBVIOUS
  <1>4. PICK has : has = remote
    OBVIOUS
  <1>5. PICK missed : missed = lost.unheard
    OBVIOUS
  <1>6. PICK q : q = k'
    OBVIOUS
  <1>7. PICK c : c = Head(in).call
    OBVIOUS
  <1>8. PICK result : result = Head(in).result
    OBVIOUS
  <1>9. PICK info : info = Head(in).info
    OBVIOUS
  <1>10. PICK m : m = Head(in)
    OBVIOUS
  <1>11. in # << >> /\ IsReply(m)
    BY <1>2, <1>10 DEF ReadReply, IsReply
  <1>12. /\ c \in Call /\ info \in Version /\ result \in {"ok", "denied", "unknown"}
         /\ k.call[c].st = "sent" /\ m = in[1] /\ 1 \in DOMAIN in
         /\ \A j \in DOMAIN in : IsReply(in[j]) /\ in[j].call = c => j = 1
    BY <1>2, <1>7, <1>8, <1>9, <1>10, <1>11, HeadReply
  <1>13. /\ Mid(n) /\ n.call = k.call /\ n.known = k.known /\ n.info = k.info /\ n.state = k.state
    BY <1>1, NowFacts
  <1>14. IdentityOk(k, in, v, has, missed)
    BY <1>2, <1>3, <1>4, <1>5 DEF IdentityInv
  <1>15. RoomToRetry(c, result) /\ q = OnFinished(n, c, result, info)
    BY <1>1, <1>2, <1>6, <1>7, <1>8, <1>9 DEF ReadReply
  <1>16. PICK missed2 : missed2 = lost'.unheard
    OBVIOUS
  <1>17. /\ missed2 <=> missed /\ ~(c \in Service /\ result = "ok")
    BY <1>2, <1>5, <1>7, <1>8, <1>16 DEF ReadReply, Inv, LostOk, LostType
  <1>18. n.call[c].st = "sent"
    BY <1>12, <1>13
  <1>19. Concludes(n, q, c, result)
    BY <1>1, <1>12, <1>15, <1>18, OnFinishedConcludes
  <1>20. Rest(n, q, c)
    BY <1>19 DEF Concludes
  <1>21. PICK rest \in Seq(Message) : rest = Tail(in)
    BY <1>11, TailIs
  <1>22. \A i \in DOMAIN rest : i + 1 \in DOMAIN in /\ rest[i] = in[i + 1] /\ i + 1 # 1
    BY <1>11, <1>21, TailIs, InboxIs
  <1>23. Replies(n, rest)
    BY <1>2, <1>13, <1>22 DEF Inv, Replies
  <1>24. \A i \in DOMAIN rest : IsReply(rest[i]) => rest[i].call # c
    BY <1>12, <1>22
  <1>25. \A i \in DOMAIN rest : Kind(q, rest[i]) = Kind(n, rest[i])
    BY <1>13, <1>20, <1>23, <1>24, RepliedKinds
  <1>26. \A i \in DOMAIN rest : Kind(q, rest[i]) = Kind(k, rest[i])
    BY <1>13, <1>25 DEF Kind
  <1>27. PICK op \in Ops : op = k.call[c].op
    BY <1>12, <1>13 DEF Mid, AnyClient, AnyCall
  <1>28. Kind(k, m) = IF result # "ok" THEN "none"
                      ELSE IF op \in {"register", "getInfo"} THEN "info" ELSE op
    BY <1>7, <1>8, <1>10, <1>11, <1>27 DEF Kind
  <1>29. c \in Service => op = "register"
    BY <1>13, <1>27 DEF Mid
  <1>30. CASE result # "ok"
    <2>1. q.known = n.known /\ q.info = n.info /\ (q.state = "Ready" => n.state = "Ready")
      <3>1. CASE ToRequeue(n.call[c], result)
        <4>1. Retries(n, q, c) /\ IdentityAsks(n, q)
          BY <1>1, <1>12, <1>15, <1>18, <3>1, RetriedConcludes
        <4> QED
          BY <4>1 DEF Retries, Others, IdentityAsks
      <3>2. CASE ~ToRequeue(n.call[c], result)
        <4>1. EndsAs(n, q, c, result, info)
          BY <1>1, <1>12, <1>15, <1>18, <3>2, FinishedConcludes
        <4> QED
          BY <1>30, <4>1 DEF EndsAs, Errs
      <3> QED
        BY <3>1, <3>2
    <2>2. Kind(k, m) = "none" /\ (missed => missed2)
      BY <1>17, <1>28, <1>30
    <2>3. HasRead(k, q, m, missed, missed2)
      BY <1>13, <2>1, <2>2 DEF HasRead
    <2> QED
      BY ZenonT(30), <1>2, <1>3, <1>4, <1>6, <1>11, <1>12, <1>14, <1>16, <1>21, <1>26, <2>3, IdentityReads
  <1>31. CASE result = "ok"
    <2>1. ~ToRequeue(n.call[c], result)
      BY <1>31 DEF ToRequeue
    <2>2. EndsAs(n, q, c, result, info)
      BY <1>1, <1>12, <1>15, <1>18, <2>1, FinishedConcludes
    <2>3. Learns(n, q, op, info)
      BY <1>13, <1>27, <1>31, <2>2 DEF EndsAs
    <2>4. HasRead(k, q, m, missed, missed2)
      <3>1. CASE op \in {"register", "getInfo"}
        <4>1. Kind(k, m) = "info"
          BY <1>28, <1>31, <3>1
        <4>2. q.known = k.known
          BY <1>13, <2>3, <3>1 DEF Learns
        <4>3. q.info = m.info
          <5>1. CASE op = "getInfo" \/ k.known
            BY <1>9, <1>10, <1>13, <2>3, <3>1, <5>1 DEF Learns
          <5>2. CASE op = "register" /\ ~k.known
            <6>1. q.info = k.info
              BY <1>13, <2>3, <5>2 DEF Learns
            <6>2. \A j \in DOMAIN in : ~(j < 1)
              BY InboxIs
            <6>3. m.info = NoVersion /\ k.info = NoVersion
              BY <1>12, <1>14, <4>1, <5>2, <6>2 DEF IdentityOk, Forgets
            <6> QED
              BY <6>1, <6>3
          <5> QED
            BY <3>1, <5>1, <5>2
        <4> QED
          BY <4>1, <4>2, <4>3 DEF HasRead
      <3>2. CASE op \notin {"register", "getInfo"}
        <4>1. Kind(k, m) = op /\ op # "info" /\ op # "signal" /\ (missed => missed2)
          BY <1>17, <1>28, <1>29, <1>31, <3>2 DEF Ops
        <4> QED
          BY <1>13, <2>3, <3>2, <4>1 DEF HasRead, Learns
      <3> QED
        BY <3>1, <3>2
    <2> QED
      BY <1>2, <1>3, <1>4, <1>6, <1>11, <1>12, <1>14, <1>16, <1>21, <1>26, <2>4, IdentityReads
  <1> QED
    BY <1>30, <1>31

\* A signal is read.
LEMMA IdentityReadsSignal ==
  ASSUME Inv, IdentityInv, IsIdentity, ReadSignal
  PROVE  IdentityOk(k', Tail(inbox), version, remote, lost'.unheard)
  <1>1. PICK n : n = Now
    OBVIOUS
  <1>2. PICK in \in Seq(Message) : in = inbox
    BY DEF Inv
  <1>3. PICK v : v = version
    OBVIOUS
  <1>4. PICK has : has = remote
    OBVIOUS
  <1>5. PICK missed : missed = lost.unheard
    OBVIOUS
  <1>6. PICK missed2 : missed2 = lost'.unheard
    OBVIOUS
  <1>7. PICK q : q = k'
    OBVIOUS
  <1>8. PICK m : m = Head(in)
    OBVIOUS
  <1>9. in # << >> /\ ~IsReply(m) /\ m.type # "reply"
    BY <1>2, <1>8 DEF ReadSignal, IsReply
  <1>10. m = in[1] /\ m \in Message /\ m.type \in {"updated", "removed", "unregistered"}
    BY <1>8, <1>9, TailIs, MessageType
  <1>11. PICK rest : rest = Tail(in)
    OBVIOUS
  <1>12. /\ Mid(n) /\ n.call = k.call /\ n.known = k.known /\ n.info = k.info /\ n.state = k.state
         /\ n.proxy = k.proxy /\ daemon \in BOOLEAN
    BY <1>1, NowFacts DEF Inv
  <1>13. /\ rest \in Seq(Message) /\ Replies(n, rest) /\ RoomLeft(n, in)
    BY ZenonT(30), <1>1, <1>2, <1>8, <1>9, <1>11, <1>12, SignalRead DEF Inv, RoomLeft, FreeCalls, Unserved
  <1>14. IdentityOk(k, in, v, has, missed)
    BY <1>2, <1>3, <1>4, <1>5 DEF IdentityInv
  <1>15. missed2 <=> missed \/ ~Hears
    BY <1>5, <1>6 DEF ReadSignal, Inv, LostOk, LostType
  <1>16. Kind(k, m) = "signal"
    BY <1>9 DEF Kind
  <1>17. PICK none : none \notin Call
    BY NoSetContainsEverything
  <1>18. /\ q.known = k.known /\ q.info = k.info /\ (q.state # "Ready" \/ missed2)
         /\ \A i \in DOMAIN rest : Kind(q, rest[i]) = Kind(n, rest[i])
    <2>1. CASE ~Hears
      <3>1. q = n
        BY <1>1, <1>7, <2>1 DEF ReadSignal
      <3> QED
        BY <1>12, <1>15, <2>1, <3>1
    <2>2. CASE Hears /\ m.type = "updated"
      <3>1. q = UpdateContents(n, daemon)
        BY <1>1, <1>2, <1>7, <1>8, <2>2, Zenon DEF ReadSignal, InfoUpdated
      <3>2. PICK c : c = Min(FreeCalls(n, Operation))
        OBVIOUS
      <3>3. FreeCalls(n, Operation) # {}
        <4>1. Cardinality(UpdatesIn(rest)) + 1 <= Cardinality(UpdatesIn(in))
          BY <1>8, <1>9, <1>11, <2>2, TailUpdates
        <4>2. /\ Cardinality(UpdatesIn(rest)) \in Nat /\ Cardinality(UpdatesIn(in)) \in Nat
              /\ Cardinality(FreeCalls(n, Operation)) \in Nat /\ Cardinality(Unserved(n, in)) \in Nat
          BY <1>13, InboxIs, RoomIs
        <4>3. Cardinality(FreeCalls(n, Operation)) # 0
          BY <1>13, <4>1, <4>2 DEF RoomLeft
        <4> QED
          BY <4>3, FS_EmptySet
      <3>4. c \in Operation /\ n.call[c].st = "free"
        BY <3>2, <3>3, MinFree
      <3>5. CanRegister(n, n.state = "PendingRegistration")
        BY <1>12, <2>2 DEF CanRegister, Hears, Mid
      <3>6. Posed(n, q, c, "getInfo") /\ q.state = "PendingUpdate"
        BY <1>12, <3>1, <3>2, <3>3, <3>5, UpdateContentsPoses
      <3>7. Rest(n, q, c) /\ q.known = n.known /\ q.info = n.info
        BY <3>6 DEF Posed, Poses
      <3>8. \A i \in DOMAIN rest : IsReply(rest[i]) => rest[i].call # c
        BY <1>13, <3>4 DEF Replies
      <3> QED
        BY <1>12, <1>13, <3>6, <3>7, <3>8, RepliedKinds
    <2>3. CASE Hears /\ m.type = "removed"
      <3>1. q = [n EXCEPT !.state = "Removed"]
        BY <1>1, <1>2, <1>7, <1>8, <2>3 DEF ReadSignal, InfoRemoved
      <3>2. q.call = n.call /\ q.info = n.info /\ q.known = n.known /\ q.state = "Removed"
        BY <1>12, <3>1, StateSet DEF IdentityStates
      <3> QED
        BY <1>12, <3>2 DEF Kind
    <2>4. CASE Hears /\ m.type = "unregistered"
      <3>1. PICK z : z = CallsOld(n)
        OBVIOUS
      <3>2. PICK g : g = SetObjectPath(z, Main, FALSE)
        OBVIOUS
      <3>3. q = [g EXCEPT !.state = "NeedsRegistration"]
        BY <1>1, <1>2, <1>7, <1>8, <2>4, <3>1, <3>2, Zenon DEF ReadSignal, IdentityObjectDestroyed, IsIdentity
      <3>4. PathGone(n, g)
        BY <1>12, <3>1, <3>2, PathGoneStays
      <3>5. Mid(g) /\ SameCalls(n, g) /\ g.info = n.info /\ g.known = n.known
        BY <3>4 DEF PathGone, Stays
      <3>6. q.call = g.call /\ q.info = g.info /\ q.known = g.known /\ q.state = "NeedsRegistration"
        BY <3>3, <3>5, StateSet DEF IdentityStates
      <3>7. \A i \in DOMAIN rest : Kind(q, rest[i]) = Kind(n, rest[i])
        BY <1>13, <3>5, <3>6, InboxIs, MessageType DEF Kind, SameCalls
      <3> QED
        BY <1>12, <3>5, <3>6, <3>7
    <2> QED
      BY <1>10, <2>1, <2>2, <2>3, <2>4
  <1>19. \A i \in DOMAIN rest : Kind(q, rest[i]) = Kind(k, rest[i])
    BY <1>12, <1>18 DEF Kind
  <1>20. HasRead(k, q, m, missed, missed2)
    BY <1>16, <1>18 DEF HasRead
  <1> QED
    BY ZenonT(30), <1>2, <1>3, <1>4, <1>6, <1>7, <1>9, <1>10, <1>11, <1>14, <1>19, <1>20, IdentityReads

\* Calls that end without a reply, or are tried again.
LEMMA IdentityEnds ==
  ASSUME Inv, IdentityInv, IsIdentity, NEW c \in Call, PostedFail(c) \/ CallDisconnected(c)
  PROVE  IdentityOk(k', inbox, version, remote, lost.unheard)
  <1>1. PICK n : n = Now
    OBVIOUS
  <1>2. PICK q : q = k'
    OBVIOUS
  <1>3. Mid(n) /\ n.call = k.call /\ ClientOk(n, IsSession) /\ Quiet(n) /\ n.ended = {}
    BY <1>1, NowFacts
  <1>4. PICK result : result = "disconnected"
    OBVIOUS
  <1>5. NoVersion \in Version
    BY MaxVersionAssumption DEF NoVersion, Version
  <1>6. CASE PostedFail(c)
    <2>1. n.call[c].st = "failing" /\ q = EndCalls(ErrorReply(n, {c}, result), {c})
      BY <1>1, <1>2, <1>3, <1>4, <1>6, Zenon DEF PostedFail, IsIdentity
    <2>2. n.call[c].told = 0
      BY <1>3 DEF ClientOk, Calls, Fit, IsIdentity, IsSession
    <2>3. Over(n, q, c) /\ EndsAs(n, q, c, result, NoVersion)
      <3>1. q = EndCalls(IF result = "ok" THEN IdentityReply(n, c, NoVersion) ELSE ErrorReply(n, {c}, result), {c})
        BY <1>4, <2>1
      <3>2. result = "ok" => n.call[c].st = "sent"
        BY <1>4
      <3>3. n.call[c].st \in {"sent", "failing"}
        BY <2>1
      <3> QED
        BY <1>3, <1>5, <2>2, <3>1, <3>2, <3>3, IdentityFinishedOver
    <2>4. Rest(n, q, c)
      BY <1>3, <2>3, OverOk
    <2>5. q.known = n.known /\ q.info = n.info /\ (q.state = "Ready" => n.state = "Ready")
      BY <1>4, <2>3 DEF EndsAs, Errs
    <2>6. \A i \in DOMAIN inbox : IsReply(inbox[i]) => inbox[i].call # c
      BY <1>3, <2>1 DEF Inv, Replies
    <2>7. IdentityOk(q, inbox, version, remote, lost.unheard)
      BY <1>1, <2>4, <2>5, <2>6, ClientStep
    <2> QED
      BY <1>2, <2>7
  <1>7. CASE CallDisconnected(c)
    <2>1. /\ n.call[c].st = "sent" /\ n.call[c].lost /\ RoomToRetry(c, result)
          /\ q = OnFinished(n, c, result, NoVersion)
      BY <1>1, <1>2, <1>3, <1>4, <1>7 DEF CallDisconnected
    <2>2. Concludes(n, q, c, result)
      BY <1>1, <1>5, <2>1, OnFinishedConcludes
    <2>3. q.known = n.known /\ q.info = n.info /\ (q.state = "Ready" => n.state = "Ready")
      <3>1. CASE ToRequeue(n.call[c], result)
        <4>1. Retries(n, q, c) /\ IdentityAsks(n, q)
          BY <1>1, <1>5, <2>1, <3>1, RetriedConcludes
        <4> QED
          BY <4>1 DEF Retries, Others, IdentityAsks
      <3>2. CASE ~ToRequeue(n.call[c], result)
        <4>1. EndsAs(n, q, c, result, NoVersion)
          BY <1>1, <1>5, <2>1, <3>2, FinishedConcludes
        <4> QED
          BY <1>4, <4>1 DEF EndsAs, Errs
      <3> QED
        BY <3>1, <3>2
    <2>4. \A i \in DOMAIN inbox : IsReply(inbox[i]) => inbox[i].call # c
      BY <1>3, <2>1 DEF Inv, Replies
    <2>5. IdentityOk(q, inbox, version, remote, lost.unheard)
      BY <1>1, <2>2, <2>3, <2>4, ClientStep DEF Concludes
    <2> QED
      BY <1>2, <2>5
  <1> QED
    BY <1>6, <1>7

\* The calls are where they were, and the identity is what it was.
LEMMA StaysKept ==
  ASSUME Inv, IdentityInv, IsIdentity, NEW n, n = Now, NEW q, Mid(q), SameCalls(n, q),
         q.known = n.known, q.info = n.info, q.state = n.state, NEW has, has => remote
  PROVE  IdentityOk(q, inbox, version, has, lost.unheard)
  <1>1. PICK in \in Seq(Message) : in = inbox
    BY DEF Inv
  <1>2. n.call = k.call /\ n.known = k.known /\ n.info = k.info /\ n.state = k.state
    BY NowFacts
  <1>3. \A i \in DOMAIN in : Kind(q, in[i]) = Kind(k, in[i])
    BY <1>1, <1>2, InboxIs, MessageType DEF Kind, SameCalls
  <1>4. PICK v : v = version
    OBVIOUS
  <1>5. PICK missed : missed = lost.unheard
    OBVIOUS
  <1>6. PICK had : had = remote
    OBVIOUS
  <1>7. IdentityOk(k, in, v, had, missed)
    BY <1>1, <1>4, <1>5, <1>6 DEF IdentityInv
  <1>8. IdentityOk(q, in, v, has, missed)
    BY <1>2, <1>3, <1>6, <1>7, IdentityKept
  <1> QED
    BY <1>1, <1>4, <1>5, <1>8

LEMMA IdentityConnection ==
  ASSUME Inv, IdentityInv, IsIdentity, Disconnected \/ Activated \/ ActivationFailed
  PROVE  IdentityOk(k', inbox, version, remote, lost.unheard)
  <1>1. PICK n : n = Now
    OBVIOUS
  <1>2. PICK q : q = k'
    OBVIOUS
  <1>3. Mid(n)
    BY <1>1, NowFacts
  <1>4. Mid(q) /\ Calm(n, q)
    <2>1. CASE Disconnected
      BY <1>1, <1>2, <1>3, <2>1, OnDisconnectedLoses DEF Disconnected, Loses
    <2>2. CASE Activated \/ ActivationFailed
      <3>1. PICK ok \in BOOLEAN : q = OnActivationDone(n, ok)
        BY <1>1, <1>2, <2>2 DEF Activated, ActivationFailed
      <3> QED
        BY <1>3, <3>1, OnActivationDoneConnects DEF Connects, Carries
    <2> QED
      BY <2>1, <2>2
  <1>5. SameCalls(n, q) /\ q.known = n.known /\ q.info = n.info /\ q.state = n.state
    BY <1>4 DEF Calm, SameObject, SameCalls, CallKeeps
  <1>6. IdentityOk(q, inbox, version, remote, lost.unheard)
    BY <1>1, <1>4, <1>5, StaysKept
  <1> QED
    BY <1>2, <1>6

\* The client is what it was, but for what has ended.
LEMMA NowKept ==
  ASSUME Inv, IdentityInv, IsIdentity, NEW n, n = Now
  PROVE  IdentityOk(n, inbox, version, remote, lost.unheard)
  <1>1. Mid(n) /\ SameCalls(n, n)
    BY NowFacts DEF SameCalls
  <1> QED
    BY <1>1, StaysKept

\* A signal, and maybe a reply, of the daemon.
LEMMA IdentityTold ==
  ASSUME NEW r, NEW in \in Seq(Message), NEW m \in Message, ~IsReply(m), NEW v, NEW v2, NEW has, NEW has2, NEW missed,
         IdentityOk(r, in, v, has, missed), v2 = v \/ v # NoVersion,
         NEW in2, in2 = Append(in, m)
  PROVE  /\ IdentityOk(r, in2, v2, has2, missed) /\ in2 \in Seq(Message) /\ in2 # << >>
         /\ Kind(r, in2[Len(in2)]) = "signal"
  <1>1. Kind(r, m) = "signal"
    BY DEF Kind
  <1>2. in2 \in Seq(Message) /\ Len(in2) = Len(in) + 1 /\ in2[Len(in) + 1] = m /\ Len(in) \in Nat
    BY AppendIs, InboxIs
  <1>3. in2 # << >>
    BY <1>2
  <1>4. IdentityOk(r, in2, v2, has2, missed)
    BY <1>1, IdentitySent
  <1> QED
    BY <1>1, <1>2, <1>3, <1>4

LEMMA IdentityServed ==
  ASSUME Inv, IdentityInv, IsIdentity, NEW c \in Call, Serve(c)
  PROVE  IdentityOk(k', inbox', version', remote', lost.unheard)
  <1>1. PICK n : n = Now
    OBVIOUS
  <1>2. PICK in \in Seq(Message) : in = inbox
    BY DEF Inv
  <1>3. PICK v \in Version : v = version
    BY DEF Inv
  <1>4. PICK has \in BOOLEAN : has = remote
    BY DEF Inv
  <1>5. PICK missed : missed = lost.unheard
    OBVIOUS
  <1>6. PICK in2 : in2 = inbox'
    OBVIOUS
  <1>7. PICK v2 : v2 = version'
    OBVIOUS
  <1>8. PICK has2 : has2 = remote'
    OBVIOUS
  <1>9. Mid(n) /\ n.call = k.call
    BY <1>1, NowFacts
  <1>10. IdentityOk(n, in, v, has, missed)
    BY <1>1, <1>2, <1>3, <1>4, <1>5, NowKept
  <1>11. k' = n /\ ~IsService
    BY <1>1 DEF Serve, Served, ServeUnknown, ServeDenied, IsIdentity
  <1>12. CASE ServeUnknown(c) \/ ServeDenied(c)
    <2>1. PICK result \in {"unknown", "denied"} : in2 = Append(in, Reply(c, result)) /\ v2 = v /\ has2 = has
      BY <1>2, <1>3, <1>4, <1>6, <1>7, <1>8, <1>12 DEF ServeUnknown, ServeDenied
    <2>2. PICK m : m = Reply(c, result)
      OBVIOUS
    <2>3. m \in Message /\ Kind(n, m) = "none"
      BY <1>3, <1>7, <2>1, <2>2 DEF Reply, Message, Kind, IsReply
    <2>4. IdentityOk(n, in2, v2, has2, missed)
      BY <1>10, <2>1, <2>2, <2>3, IdentitySent
    <2> QED
      BY <1>5, <1>6, <1>7, <1>8, <1>11, <2>4
  <1>13. CASE Served(c)
    <2>1. PICK op : op = n.call[c].op
      OBVIOUS
    <2>2. op \in Ops
      BY <1>9, <2>1 DEF Mid, AnyClient, AnyCall
    <2>3. PICK m : m = Reply(c, "ok")
      OBVIOUS
    <2>4. v2 \in Version
      BY <1>3, <1>7, <1>13, MaxVersionAssumption DEF Served, Version, NoVersion
    <2>5. m \in Message /\ IsReply(m) /\ m.call = c /\ m.result = "ok" /\ m.info = v2
      BY <1>7, <2>3, <2>4 DEF Reply, Message, IsReply
    <2>6. Kind(n, m) = IF op \in {"register", "getInfo"} THEN "info" ELSE op
      BY <2>1, <2>5 DEF Kind
    <2>7. has2
      BY <1>8, <1>11, <1>13 DEF Served
    <2>8. has \/ op = "register"
      <3>1. CASE c \in Service
        BY <1>9, <2>1, <3>1 DEF Mid
      <3>2. CASE c \in Operation
        BY <1>4, <1>11, <1>13, <3>2 DEF Served, Gone, HasObject
      <3> QED
        BY <3>1, <3>2, Slots
    <2>9. CASE op = "store" \/ op = "remove"
      <3>1. PICK s \in Message : /\ ~IsReply(s) /\ in2 = in \o <<s, m>>
                                 /\ op = "remove" => v2 = NoVersion
        <4>1. CASE op = "store"
          <5>1. PICK s : s = Signal("updated")
            OBVIOUS
          <5>2. s \in Message /\ ~IsReply(s)
            BY <5>1 DEF Signal, Message, IsReply
          <5>3. in2 = in \o <<s, m>>
            BY <1>2, <1>6, <1>9, <1>13, <2>1, <2>3, <4>1, <5>1 DEF Served
          <5> QED
            BY <4>1, <5>2, <5>3
        <4>2. CASE op = "remove"
          <5>1. PICK s : s = Signal("removed")
            OBVIOUS
          <5>2. s \in Message /\ ~IsReply(s)
            BY <5>1 DEF Signal, Message, IsReply
          <5>3. in2 = in \o <<s, m>> /\ v2 = NoVersion
            BY <1>2, <1>6, <1>7, <1>9, <1>13, <2>1, <2>3, <4>2, <5>1 DEF Served
          <5> QED
            BY <5>2, <5>3
        <4> QED
          BY <2>9, <4>1, <4>2
      <3>2. PICK told : told = Append(in, s)
        OBVIOUS
      <3>3. in2 = Append(told, m)
        BY <2>5, <3>1, <3>2, TwoSent
      <3>4. /\ IdentityOk(n, told, v, has, missed) /\ told \in Seq(Message) /\ told # << >>
            /\ Kind(n, told[Len(told)]) = "signal"
        BY <1>10, <3>1, <3>2, IdentityTold
      <3>5. Kind(n, m) = op /\ op \in {"store", "remove"}
        BY <2>6, <2>9
      <3>6. IdentityOk(n, in2, v2, has2, missed)
        BY <2>5, <3>1, <3>3, <3>4, <3>5, IdentitySent
      <3> QED
        BY <1>5, <1>6, <1>7, <1>8, <1>11, <3>6
    <2>10. CASE op # "store" /\ op # "remove"
      <3>1. in2 = Append(in, m) /\ v2 = v
        BY <1>2, <1>3, <1>6, <1>7, <1>9, <1>13, <2>1, <2>3, <2>10 DEF Served
      <3>2. Kind(n, m) # "remove" /\ (Kind(n, m) = "info" \/ has)
        BY <2>6, <2>8, <2>10
      <3>3. IdentityOk(n, in2, v2, has2, missed)
        BY <1>10, <2>5, <3>1, <3>2, IdentitySent
      <3> QED
        BY <1>5, <1>6, <1>7, <1>8, <1>11, <3>3
    <2> QED
      BY <2>9, <2>10
  <1> QED
    BY <1>12, <1>13 DEF Serve

LEMMA IdentityStoredByOther ==
  ASSUME Inv, IdentityInv, StoredByOther
  PROVE  IdentityOk(k', inbox', version', remote', lost.unheard)
  <1>1. PICK n : n = Now
    OBVIOUS
  <1>2. PICK in \in Seq(Message) : in = inbox
    BY DEF Inv
  <1>3. PICK s : s = Signal("updated")
    OBVIOUS
  <1>4. s \in Message /\ ~IsReply(s)
    BY <1>3 DEF Signal, Message, IsReply
  <1>5. /\ IsIdentity /\ version # NoVersion /\ inbox' = Append(in, s) /\ k' = n /\ remote' = remote
    BY <1>1, <1>2, <1>3 DEF StoredByOther
  <1>6. PICK v : v = version
    OBVIOUS
  <1>7. PICK v2 : v2 = version'
    OBVIOUS
  <1>8. PICK has : has = remote
    OBVIOUS
  <1>9. PICK missed : missed = lost.unheard
    OBVIOUS
  <1>10. PICK in2 : in2 = Append(in, s)
    OBVIOUS
  <1>11. IdentityOk(n, in, v, has, missed)
    BY <1>1, <1>2, <1>5, <1>6, <1>8, <1>9, NowKept
  <1>12. IdentityOk(n, in2, v2, has, missed)
    BY <1>4, <1>5, <1>6, <1>10, <1>11, IdentityTold
  <1> QED
    BY <1>5, <1>7, <1>8, <1>9, <1>10, <1>12

\* The remote object goes, with a signal or with the connection.
LEMMA IdentityLoses ==
  ASSUME Inv, IdentityInv, IsIdentity, Unregister \/ Drop
  PROVE  IdentityOk(k', inbox', version', remote', lost'.unheard)
  <1>1. PICK n : n = Now
    OBVIOUS
  <1>2. PICK q : q = k'
    OBVIOUS
  <1>3. PICK v : v = version
    OBVIOUS
  <1>4. PICK missed : missed = lost.unheard
    OBVIOUS
  <1>5. Mid(n)
    BY <1>1, NowFacts
  <1>6. Stays(n, q) /\ q.known = n.known /\ q.info = n.info /\ q.state = n.state
    <2>1. CASE Unregister
      <3>1. q = CallsOld(n)
        BY <1>1, <1>2, <2>1 DEF Unregister
      <3> QED
        BY <1>5, <3>1, CallsOldStays
    <2>2. CASE Drop
      BY <1>1, <1>2, <2>2, DropDrops DEF Drops
    <2> QED
      BY <2>1, <2>2
  <1>7. ~remote' /\ version' = v /\ lost'.unheard = missed
    BY <1>3, <1>4 DEF Unregister, Drop, Inv, LostOk, LostType
  <1>8. PICK has : has = remote'
    OBVIOUS
  <1>9. PICK in \in Seq(Message) : in = inbox
    BY DEF Inv
  <1>10. IdentityOk(q, in, v, has, missed)
    BY <1>1, <1>3, <1>4, <1>6, <1>7, <1>8, <1>9, StaysKept DEF Stays
  <1>11. CASE Unregister
    <2>1. PICK s : s = Signal("unregistered")
      OBVIOUS
    <2>2. s \in Message /\ ~IsReply(s)
      BY <2>1 DEF Signal, Message, IsReply
    <2>3. PICK in2 : in2 = Append(in, s)
      OBVIOUS
    <2>4. inbox' = in2
      BY <1>9, <1>11, <2>1, <2>3 DEF Unregister
    <2>5. IdentityOk(q, in2, v, has, missed)
      BY <1>9, <1>10, <2>2, <2>3, IdentityTold
    <2> QED
      BY <1>2, <1>7, <1>8, <2>4, <2>5
  <1>12. CASE Drop
    <2>1. inbox' = in
      BY <1>9, <1>12 DEF Drop
    <2> QED
      BY <1>2, <1>7, <1>8, <1>10, <2>1
  <1> QED
    BY <1>11, <1>12

LEMMA IdentityStep ==
  ASSUME Inv, IdentityInv, IsIdentity, Next
  PROVE  IdentityOk(k', inbox', version', remote', lost'.unheard)
  <1>1. IsIdentity => ~IsSession /\ ~IsService
    BY DEF IsIdentity
  <1>2. CASE Application
    <2>1. Query \/ Verify \/ StoreIdentity \/ RemoveIdentity
      BY <1>1, <1>2 DEF Application, ProcessRequest, CancelRequest, ChangeId, AskMechanisms, AskService
    <2>2. inbox' = inbox /\ version' = version /\ remote' = remote /\ lost' = lost
      BY <2>1 DEF Query, Verify, StoreIdentity, RemoveIdentity, ClientOnly
    <2>3. IdentityOk(k', inbox, version, remote, lost.unheard)
      <3>1. CASE Query
        BY <3>1, IdentityQueries
      <3>2. CASE StoreIdentity
        BY <3>2, IdentityStores
      <3>3. CASE Verify \/ RemoveIdentity
        <4>1. PICK n : n = Now
          OBVIOUS
        <4>2. FreeCalls(n, Operation) = FreeCalls(k, Operation) /\ Room
          BY <3>3, <4>1, RoomGives DEF Verify, RemoveIdentity
        <4>3. PICK op \in {"verify", "remove"} : k' = CallIdentity(n, Min(FreeCalls(n, Operation)), op, daemon)
          BY <3>3, <4>1, <4>2 DEF Verify, RemoveIdentity
        <4>4. op \in Ops
          BY DEF Ops
        <4> QED
          BY <4>1, <4>2, <4>3, <4>4, IdentityPosed
      <3> QED
        BY <2>1, <3>1, <3>2, <3>3
    <2> QED
      BY <2>2, <2>3
  <1>3. CASE ReadReply \/ ReadSignal
    <2>1. inbox' = Tail(inbox) /\ version' = version /\ remote' = remote
      BY <1>3 DEF ReadReply, ReadSignal
    <2>2. IdentityOk(k', Tail(inbox), version, remote, lost'.unheard)
      BY <1>3, IdentityReadsReply, IdentityReadsSignal
    <2> QED
      BY <2>1, <2>2
  <1>4. CASE Disconnected \/ Activated \/ ActivationFailed
    <2>1. inbox' = inbox /\ version' = version /\ remote' = remote /\ lost'.unheard = lost.unheard
      BY <1>4 DEF Disconnected, Activated, ActivationFailed, ClientOnly, Inv, LostOk, LostType
    <2> QED
      BY <1>4, <2>1, IdentityConnection
  <1>5. ASSUME NEW c \in Call, Ends(c)
        PROVE  IdentityOk(k', inbox', version', remote', lost'.unheard)
    <2>1. CASE PostedFail(c) \/ CallDisconnected(c)
      <3>1. inbox' = inbox /\ version' = version /\ remote' = remote /\ lost' = lost
        BY <2>1 DEF PostedFail, CallDisconnected, ClientOnly
      <3> QED
        BY <2>1, <3>1, IdentityEnds
    <2>2. CASE Serve(c)
      <3>1. lost' = lost
        BY <2>2 DEF Serve, Served, ServeUnknown, ServeDenied
      <3> QED
        BY <2>2, <3>1, IdentityServed
    <2> QED
      BY <1>5, <2>1, <2>2 DEF Ends
  <1>6. CASE StoredByOther
    <2>1. lost' = lost
      BY <1>6 DEF StoredByOther
    <2> QED
      BY <1>6, <2>1, IdentityStoredByOther
  <1>7. CASE Unregister \/ Drop
    BY <1>7, IdentityLoses
  <1>8. CASE Restart
    <2>1. inbox' = inbox /\ version' = version /\ remote' = remote /\ lost' = lost /\ k' = Now
      BY <1>8 DEF Restart
    <2> QED
      BY <2>1, NowKept
  <1> QED
    BY <1>2, <1>3, <1>4, <1>5, <1>6, <1>7, <1>8 DEF Next, EventLoop

LEMMA IdentityNext == Inv /\ IdentityInv /\ [Next]_vars => IdentityInv'
  <1> SUFFICES ASSUME Inv, IdentityInv, [Next]_vars PROVE IdentityInv'
    OBVIOUS
  <1>1. CASE Next
    <2>1. CASE IsIdentity
      BY <1>1, <2>1, IdentityStep DEF IdentityInv
    <2>2. CASE ~IsIdentity
      BY <1>1, <2>2, ObjectStays DEF IdentityInv, IsIdentity, IsSession, IsService
    <2> QED
      BY <2>1, <2>2
  <1>2. CASE UNCHANGED vars
    <2>1. object' = object /\ k' = k /\ inbox' = inbox /\ version' = version /\ remote' = remote /\ lost' = lost
      BY <1>2 DEF vars
    <2> QED
      BY <2>1 DEF IdentityInv, IsIdentity, IsSession, IsService
  <1> QED
    BY <1>1, <1>2

LEMMA IdentityInit == Init => IdentityInv
  <1> SUFFICES ASSUME Init, IsIdentity PROVE IdentityOk(k, inbox, version, remote, lost.unheard)
    BY DEF IdentityInv
  <1>1. PICK known \in BOOLEAN : known = (object # "new")
    OBVIOUS
  <1>2. PICK none : none = [NoCalls EXCEPT !.known = known]
    OBVIOUS
  <1>3. PICK new : new = InitConnection(none, daemon)
    OBVIOUS
  <1>4. PICK q : q = RegisterIdentity(new, daemon)
    OBVIOUS
  <1>5. k = q
    <2>1. k = LET made == InitConnection([NoCalls EXCEPT !.known = (object # "new")], daemon)
              IN  CASE IsSession -> InitInterface(made, daemon)
                    [] IsService -> ServiceObject(made)
                    [] IsIdentity -> RegisterIdentity(made, daemon)
      BY Zenon DEF Init
    <2> QED
      BY <1>1, <1>2, <1>3, <1>4, <2>1 DEF IsSession, IsService, IsIdentity
  <1>6. daemon \in BOOLEAN /\ remote = FALSE /\ inbox = << >> /\ (~known => version = NoVersion)
    BY <1>1 DEF Init
  <1>7. Mid(none) /\ none.known = known /\ none.info = NoVersion /\ \A s \in Service : ~none.proxy[s].used
    <2>1. none.known = known /\ none.info = NoVersion
      BY <1>2 DEF NoCalls
    <2> QED
      BY <1>2, <2>1, NoCallsMid
  <1>8. Carries(none, new)
    BY <1>3, <1>6, <1>7, InitConnectionConnects DEF Connects
  <1>9. Mid(new) /\ new.known = known /\ new.info = NoVersion /\ \A s \in Service : ~new.proxy[s].used
    BY <1>7, <1>8, Slots DEF Carries, Calm, SameObject, SameUsed
  <1>10. HasService(new)
    BY <1>9, CallsAssumption DEF HasService
  <1>11. q.known = known /\ q.info = NoVersion
    BY <1>4, <1>6, <1>9, <1>10, RegisterIdentityAsks DEF Asked
  <1>12. PICK in : in = inbox
    OBVIOUS
  <1>13. DOMAIN in = {}
    BY <1>6, <1>12
  <1>14. PICK v : v = version
    OBVIOUS
  <1>15. PICK has : has = remote
    OBVIOUS
  <1>16. PICK missed : missed = lost.unheard
    OBVIOUS
  <1>17. Forgets(q, in, v)
    BY <1>6, <1>11, <1>13, <1>14 DEF Forgets
  <1>18. Follows(q, in, v, has, missed)
    BY <1>6, <1>15 DEF Follows
  <1>19. IdentityOk(q, in, v, has, missed)
    BY <1>17, <1>18 DEF IdentityOk
  <1> QED
    BY <1>5, <1>12, <1>14, <1>15, <1>16, <1>19

\* What an identity answers from in Ready is what the daemon has stored, once what
\* has come is read (queryInfo(), registerReply(), getInfoReply(), infoUpdated(),
\* infoRemoved(), removeReply(), remoteObjectDestroyed()).
THEOREM InfoCurrentHolds == Spec => []InfoCurrent
  <1>1. Init => Inv /\ IdentityInv
    BY InitInv, IdentityInit
  <1>2. (Inv /\ IdentityInv) /\ [Next]_vars => (Inv /\ IdentityInv)'
    BY NextInv, StutterInv, IdentityNext
  <1>3. Inv /\ IdentityInv => InfoCurrent
    <2> SUFFICES ASSUME IdentityInv, IsIdentity, k.state = "Ready", ~lost.unheard, remote, inbox = << >>
                 PROVE  k.info = version
      BY DEF InfoCurrent
    <2>1. PICK in : in = inbox
      OBVIOUS
    <2>2. DOMAIN in = {}
      BY <2>1
    <2>3. Follows(k, in, version, remote, lost.unheard)
      BY <2>1 DEF IdentityInv, IdentityOk
    <2> QED
      BY <2>2, <2>3 DEF Follows
  <1> QED
    BY <1>1, <1>2, <1>3, PTL DEF Spec
=============================================================================
