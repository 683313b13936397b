----------------------------- MODULE MetaDataDB -----------------------------
(* The metadata database of signond: class MetaDataDB of credentialsdb.cpp,  *)
(* the SQLite tables it creates and the triggers that stand in for foreign   *)
(* keys.                                                                     *)
(*                                                                           *)
(* Every method runs in one handler of the daemon's event loop, in one       *)
(* transaction: an operator takes the tables d and the statement f of the    *)
(* transaction that fails ("none", or one of Statements) and gives the       *)
(* tables afterwards with what the method returns and with err, whether      *)
(* lastError() is left set.  A statement that succeeds clears the error of   *)
(* the one before it; commit sets none, and begin does in transactionalExec() *)
(* only.                                                                     *)
EXTENDS Integers, FiniteSets

CONSTANTS MaxId,       \* bound: rows ever inserted in CREDENTIALS
          MaxMethodId, \* bound: rows ever inserted in METHODS
          User,        \* user names
          Method, Mechanism, Realm, Reference,
          Token,       \* security tokens: the identifiers of applications
          Null         \* SQL's NULL, and Qt's null string

ASSUME MaxIdAssumption == MaxId \in Nat /\ MaxMethodId \in Nat
ASSUME MethodAssumption == IsFiniteSet(Method)
ASSUME NullAssumption ==
    Null \notin User \cup Method \cup Mechanism \cup Realm \cup Reference \cup Token

\* The statements of updateIdentity() whose results are not looked at: what it
\* inserts in METHODS, MECHANISMS, TOKENS, ACL and OWNER, and what it deletes before
\* it inserts.  As a fault each stands for every statement of its kind in one call.
Unchecked == {"method", "mechanism", "token", "acl", "owner",
              "deleteRealms", "deleteAcl", "deleteOwner"}
Statements == {"begin", "exec", "realm", "commit"} \cup Unchecked

\* Identities, and SIGNOND_NEW_IDENTITY.
Id == 1..MaxId
NewIdentity == 0
MethodId == 1..MaxMethodId

\* CREDENTIALS: the flags RememberPassword and UserNameIsSecret, and the user
\* name, which is not kept here when it is secret.
Row == [user : User \cup {Null}, remember : BOOLEAN, secretName : BOOLEAN]
NoRow == [user |-> Null, remember |-> FALSE, secretName |-> FALSE, none |-> TRUE]

\* The tables.  A method is referred to by its number in the secrets database
\* too; mechs and tokens are referred to by nothing outside these tables
\* and stand for their numbers.  AUTOINCREMENT: a number is never used twice.
Tables == [rows : [Id -> Row \cup {NoRow}],
           nextId : 1..MaxId + 1,
           methods : [Method -> 0..MaxMethodId],
           nextMethod : 1..MaxMethodId + 1,
           mechs : SUBSET Mechanism,
           tokens : SUBSET Token,
           acl : SUBSET (Id \X (Method \cup {Null}) \X (Mechanism \cup {Null})
                            \X (Token \cup {Null})),
           owner : SUBSET (Id \X (Token \cup {Null})),
           realms : SUBSET (Id \X Realm),
           refs : SUBSET (Id \X (Token \cup {Null}) \X Reference)]

CreateTables == [rows |-> [i \in Id |-> NoRow], nextId |-> 1,
                 methods |-> [m \in Method |-> 0], nextMethod |-> 1,
                 mechs |-> {}, tokens |-> {}, acl |-> {}, owner |-> {}, realms |-> {}, refs |-> {}]

\* updateDB() from version 1, which had no table OWNER: whoever may use an
\* identity becomes its owner.
UpdateFrom1(d) == [d EXCEPT !.owner = {<<a[1], a[4]>> : a \in d.acl}]

Exists(d, id) == id \in Id /\ d.rows[id] # NoRow

\* What the triggers and the order of the statements keep of the tables: no row
\* refers to an identity, a method, a mechanism or a token that is not there.
Coherent(d) ==
    /\ \A i \in Id : Exists(d, i) => i < d.nextId
    /\ \A q \in d.refs : Exists(d, q[1])
    /\ \A a \in d.acl : /\ a[2] # Null => d.methods[a[2]] # 0
                        /\ a[3] \in d.mechs \cup {Null}
                        /\ a[4] \in d.tokens \cup {Null}
    /\ \A o \in d.owner : o[2] \in d.tokens \cup {Null}

\* What SignonIdentityInfo holds.  methods gives each method its mechanisms;
\* pass is only there when hasPass.
NoInfo == [id |-> NewIdentity, user |-> Null, pass |-> Null, hasPass |-> FALSE,
           remember |-> FALSE, secretName |-> FALSE, methods |-> [m \in {} |-> {}],
           acl |-> {}, owners |-> {}, realms |-> {}]

-----------------------------------------------------------------------------
\* The triggers.  fki_*: a row of REALMS, ACL or REFS can only be inserted for
\* an identity of CREDENTIALS; the transaction is rolled back otherwise.  OWNER
\* has no such trigger.
ViolatesForeignKey(d, id, new) == ~Exists(d, id) /\ new # {}

\* fkdc_*: what the deletion of an identity deletes with it.
CascadeIdentity(d, ids) ==
    [d EXCEPT !.realms = {r \in @ : r[1] \notin ids},
              !.acl = {a \in @ : a[1] \notin ids},
              !.refs = {r \in @ : r[1] \notin ids}]

\* fkdc_*: and the deletion of tokens, with OWNER's own trigger.
CascadeToken(d, tokens) ==
    [d EXCEPT !.acl = {a \in @ : a[4] \notin tokens},
              !.refs = {r \in @ : r[2] \notin tokens},
              !.owner = {o \in @ : o[2] \notin tokens}]

-----------------------------------------------------------------------------
\* Queries.

MethodIdOf(d, m) == IF m \in Method THEN d.methods[m] ELSE 0

AccessControlList(d, id) == {a[4] : a \in {b \in d.acl : b[1] = id}} \cap d.tokens
OwnerList(d, id) == {o[2] : o \in {p \in d.owner : p[1] = id}} \cap d.tokens

\* methods(): for every token, or for one.
Methods(d, id, token) ==
    {a[2] : a \in {b \in d.acl : b[1] = id /\ (token = Null \/ b[4] = token)}}
        \cap {m \in Method : d.methods[m] # 0}

MechanismsOf(d, id, m) ==
    {a[3] : a \in {b \in d.acl : b[1] = id /\ b[2] = m}} \cap d.mechs

\* identity(): no row is no error, and gives an info that is new.
Identity(d, id) ==
    IF ~Exists(d, id)
    THEN NoInfo
    ELSE [NoInfo EXCEPT
            !.id = id,
            !.user = d.rows[id].user,
            !.remember = d.rows[id].remember,
            !.secretName = d.rows[id].secretName,
            !.methods = [m \in Methods(d, id, Null) |-> MechanismsOf(d, id, m)],
            !.acl = AccessControlList(d, id),
            !.owners = OwnerList(d, id),
            !.realms = {r \in Realm : <<id, r>> \in d.realms}]

Identities(d) == {Identity(d, id) : id \in {i \in Id : Exists(d, i)}}

\* references(): no token stands for every token.
References(d, id, token) ==
    {r[3] : r \in {q \in d.refs : q[1] = id /\ (token = Null \/ q[2] = token)}}

-----------------------------------------------------------------------------
Failed(d, err) == [st |-> d, ok |-> FALSE, err |-> err]
Done(d) == [st |-> d, ok |-> TRUE, err |-> FALSE]

\* transactionalExec(): the first statement that fails, or a failed commit,
\* undoes the others.
TransactionalExec(d, new, f) ==
    IF f \in {"begin", "exec", "commit"} THEN Failed(d, f # "commit") ELSE Done(new)

\* insertMethods(), insertMethod(): a name that is there keeps its number.
InsertMethods(d, ms) ==
    LET new == {m \in ms : d.methods[m] = 0}
        last == d.nextMethod + Cardinality(new)
        number == CHOOSE g \in [new -> d.nextMethod..last - 1] :
                      \A m, n \in new : m # n => g[m] # g[n]
    IN  [d EXCEPT !.methods = [m \in Method |-> IF m \in new THEN number[m] ELSE @[m]],
                  !.nextMethod = last]

\* The rows that updateIdentity() inserts in ACL: one for each method, mechanism
\* and token, with NULL where there is none, and none at all for nothing.
AclRows(id, info) ==
    LET OrNull(set) == IF set = {} THEN {Null} ELSE set
    IN  IF DOMAIN info.methods = {}
        THEN {<<id, Null, Null, t>> : t \in info.acl}
        ELSE UNION {{<<id, m, k, t>> : k \in OrNull(info.methods[m]),
                                       t \in OrNull(info.acl)}
                    : m \in DOMAIN info.methods}

\* updateCredentials() of the table CREDENTIALS.
UpdateRow(d, id, info) ==
    LET row == [user |-> IF info.secretName THEN Null ELSE info.user,
                remember |-> info.remember, secretName |-> info.secretName]
    IN  IF info.id = NewIdentity
        THEN [d EXCEPT !.rows[id] = row, !.nextId = id + 1]
        ELSE IF Exists(d, id) THEN [d EXCEPT !.rows[id] = row] ELSE d

\* The names of info are there, with their numbers, but for those that could not be
\* inserted.
NamesInserted(d, info, f) ==
    [(IF f = "method" THEN d ELSE InsertMethods(d, DOMAIN info.methods)) EXCEPT
        !.mechs = IF f = "mechanism" THEN @
                  ELSE @ \cup UNION {info.methods[m] : m \in DOMAIN info.methods},
        !.tokens = IF f = "token" THEN @ ELSE @ \cup info.acl \cup info.owners]

\* (SELECT id FROM table WHERE ...): NULL, where it is not there.
Selected(x, table) == IF x \in table THEN x ELSE Null

AclInserted(d, id, info, f) ==
    IF f = "acl" THEN {}
    ELSE {<<id, Selected(a[2], {m \in Method : d.methods[m] # 0}),
            Selected(a[3], d.mechs), Selected(a[4], d.tokens)>> : a \in AclRows(id, info)}

OwnerInserted(d, id, info, f) ==
    IF f = "owner" THEN {} ELSE {<<id, Selected(t, d.tokens)>> : t \in info.owners}

\* What is left after the deletion of an identity's rows, which a new one has none
\* of.
NotDeleted(rows, id, info, failed) ==
    {x \in rows : x[1] # id \/ (failed /\ info.id # NewIdentity)}

\* A defect: the access control list is added to.
UpdateListsKept(d, id, info, f) ==
    LET named == NamesInserted(d, info, f)
    IN  [named EXCEPT
            !.realms = NotDeleted(@, id, info, f = "deleteRealms")
                           \cup {<<id, r>> : r \in info.realms},
            !.acl = @ \cup AclInserted(named, id, info, f),
            !.owner = NotDeleted(@, id, info, f = "deleteOwner")
                          \cup OwnerInserted(named, id, info, f)]

\* The rest of updateIdentity(): the lists are replaced.  Only the inserts in REALMS
\* are looked at.
UpdateLists(d, id, info, f) ==
    LET named == NamesInserted(d, info, f)
    IN  [named EXCEPT
            !.realms = NotDeleted(@, id, info, f = "deleteRealms")
                           \cup {<<id, r>> : r \in info.realms},
            !.acl = NotDeleted(@, id, info, f = "deleteAcl")
                        \cup AclInserted(named, id, info, f),
            !.owner = NotDeleted(@, id, info, f = "deleteOwner")
                          \cup OwnerInserted(named, id, info, f)]

\* The error that is left is that of the last statement.
ListsError(id, info, f) ==
    \/ f = "owner" /\ info.owners # {}
    \/ f = "acl" /\ AclRows(id, info) # {} /\ info.owners = {}
    \/ f = "deleteOwner" /\ info.id # NewIdentity /\ AclRows(id, info) = {} /\ info.owners = {}

\* An UPDATE of a row that is not there is no error.  The trigger of ACL then
\* rolls the transaction back unnoticed, so that the owners are inserted on
\* their own (a token the rollback has taken away is NULL) and commit() fails.
UpdateOfMissing(d, info, f) ==
    [st |-> [d EXCEPT !.owner = @ \cup OwnerInserted(d, info.id, info, f)],
     ok |-> FALSE, err |-> info.owners = {} \/ f = "owner"]

\* A defect: no rollback after the row is written.
UpdateIdentityPartly(d, info, f) ==
    LET id == IF info.id = NewIdentity THEN d.nextId ELSE info.id
        row == UpdateRow(d, id, info)
        failed == \/ f \in {"begin", "exec", "realm", "commit"}
                  \/ ViolatesForeignKey(row, id, info.realms \cup AclRows(id, info))
    IN  [st |-> IF failed THEN row ELSE UpdateLists(row, id, info, f),
         id |-> IF failed THEN NewIdentity ELSE id, err |-> failed]

\* updateIdentity(), with the id that it returns.
UpdateIdentity(d, info, f) ==
    LET id == IF info.id = NewIdentity THEN d.nextId ELSE info.id
        row == UpdateRow(d, id, info)
        res == IF f \in {"begin", "exec"} THEN Failed(d, f = "exec")
               ELSE IF \/ ViolatesForeignKey(row, id, info.realms)
                       \/ f = "realm" /\ info.realms # {}
               THEN Failed(d, TRUE)
               ELSE IF ViolatesForeignKey(row, id, AclInserted(row, id, info, f))
               THEN UpdateOfMissing(d, info, f)
               ELSE IF f = "commit" THEN Failed(d, FALSE)
               ELSE [Done(UpdateLists(row, id, info, f)) EXCEPT !.err = ListsError(id, info, f)]
    IN  [st |-> res.st, id |-> IF res.ok THEN id ELSE NewIdentity, err |-> res.err]

\* A defect: OWNER is left to the triggers.
RemoveIdentityOnly(d, id, f) ==
    TransactionalExec(d, [CascadeIdentity(d, {id}) EXCEPT !.rows[id] = NoRow], f)

RemoveIdentity(d, id, f) ==
    LET cascaded == IF Exists(d, id) THEN CascadeIdentity(d, {id}) ELSE d
        new == [cascaded EXCEPT !.rows[id] = NoRow,
                                !.acl = {a \in @ : a[1] # id},
                                !.realms = {r \in @ : r[1] # id},
                                !.owner = {o \in @ : o[1] # id}]
    IN  TransactionalExec(d, new, f)

\* clear(): REFS is only cleared by the triggers.
ClearMetaData(d, f) ==
    LET cascaded == CascadeToken(CascadeIdentity(d, {i \in Id : Exists(d, i)}), d.tokens)
        new == [cascaded EXCEPT !.rows = [i \in Id |-> NoRow],
                                !.methods = [m \in Method |-> 0], !.mechs = {},
                                !.acl = {}, !.realms = {}, !.tokens = {}, !.owner = {}]
    IN  TransactionalExec(d, new, f)

\* The rows of a caller without a token have a NULL in its place.
AddReference(d, id, token, ref, f) ==
    IF f = "begin" THEN Failed(d, FALSE)
    ELSE IF f = "exec" \/ ViolatesForeignKey(d, id, {ref}) THEN Failed(d, TRUE)
    ELSE IF f = "commit" THEN Failed(d, FALSE)
    ELSE Done([d EXCEPT !.tokens = @ \cup ({token} \ {Null}),
                        !.refs = @ \cup {<<id, token, ref>>}])

\* A null reference stands for all those of the token.  What is counted for a
\* caller without a token is every reference; what is deleted is none, as
\* nothing equals NULL.
RemoveReference(d, id, token, ref, f) ==
    LET found == References(d, id, token)
        gone == {q \in d.refs : /\ q[1] = id
                                /\ token # Null /\ q[2] = token
                                /\ ref = Null \/ q[3] = ref}
    IN  IF found = {} \/ (ref # Null /\ ref \notin found)
        THEN Failed(d, FALSE)
        ELSE TransactionalExec(d, [d EXCEPT !.refs = @ \ gone], f)
=============================================================================
