------------------------- MODULE CredentialsDBProofs -------------------------
(* What the operations of MetaDataDB and CredentialsDB keep and return: the   *)
(* lemmas that the proofs about their callers rest on.                        *)
EXTENDS CredentialsDB, FiniteSetTheorems, TLAPS

-----------------------------------------------------------------------------
(* The numbers of methods *)

\* As many numbers as there are names, from the next one on, number them all.
LEMMA NumberingExists ==
    ASSUME NEW new, IsFiniteSet(new), NEW first \in Nat
    PROVE  /\ Cardinality(new) \in Nat
           /\ \E g \in [new -> first..first + Cardinality(new) - 1] :
                 \A m, n \in new : m # n => g[m] # g[n]
<1> DEFINE n == Cardinality(new)
<1>1. n \in Nat /\ ExistsBijection(1..n, new)
  BY FS_CardinalityType
<1> HIDE DEF n
<1>2. PICK b \in Bijection(1..n, new) : TRUE
  BY <1>1 DEF ExistsBijection
<1>3. /\ b \in [1..n -> new]
      /\ \A m \in new : \E i \in 1..n : b[i] = m
  BY <1>2 DEF Bijection, Injection, Surjection
<1> DEFINE place == [m \in new |-> CHOOSE i \in 1..n : b[i] = m]
           g == [m \in new |-> first + place[m] - 1]
<1>4. \A m \in new : place[m] \in 1..n /\ b[place[m]] = m
  BY <1>3
<1> HIDE DEF place
<1>5. \A m \in new : g[m] \in first..first + n - 1
  BY <1>1, <1>4
<1>6. \A m, k \in new : m # k => g[m] # g[k]
  <2> SUFFICES ASSUME NEW m \in new, NEW k \in new, g[m] = g[k]
               PROVE  m = k
    OBVIOUS
  <2>1. place[m] = place[k]
    BY <1>1, <1>4
  <2>2. QED BY <1>4, <2>1
<1>7. g \in [new -> first..first + n - 1]
  BY <1>5
<1> HIDE DEF g
<1>8. QED BY <1>1, <1>6, <1>7 DEF n

\* insertMethods(): a method that is there keeps its number, and each of ms has
\* one afterwards.
LEMMA MethodsNumbered ==
    ASSUME NEW d \in Tables, NEW ms \in SUBSET Method
    PROVE  LET t == InsertMethods(d, ms)
               new == {m \in ms : d.methods[m] = 0}
           IN  /\ t = [d EXCEPT !.methods = t.methods, !.nextMethod = t.nextMethod]
               /\ Cardinality(new) \in Nat
               /\ t.nextMethod = d.nextMethod + Cardinality(new)
               /\ t.methods \in [Method -> Nat]
               /\ \A m \in Method : d.methods[m] # 0 => t.methods[m] = d.methods[m]
               /\ \A m \in Method \ ms : t.methods[m] = d.methods[m]
               /\ \A m \in ms : t.methods[m] # 0
               /\ t.nextMethod <= MaxMethodId + 1 => t \in Tables
<1> DEFINE new == {m \in ms : d.methods[m] = 0}
           n == Cardinality(new)
           last == d.nextMethod + n
           Numberings == [new -> d.nextMethod..last - 1]
           Apart(g) == \A m, k \in new : m # k => g[m] # g[k]
           number == CHOOSE g \in Numberings : Apart(g)
           methods == [m \in Method |-> IF m \in new THEN number[m] ELSE d.methods[m]]
           t == [d EXCEPT !.methods = methods, !.nextMethod = last]
<1>1. d.nextMethod \in Nat /\ d.nextMethod >= 1 /\ d.methods \in [Method -> 0..MaxMethodId]
      /\ d.nextMethod \in 1..MaxMethodId + 1
  BY MaxIdAssumption DEF Tables
<1>2. IsFiniteSet(new)
  BY MethodAssumption, FS_Subset
<1>3. n \in Nat /\ number \in [new -> d.nextMethod..last - 1]
  <2> DEFINE first == d.nextMethod
  <2>1. first \in Nat
    BY <1>1
  <2> HIDE DEF new, first
  <2>2. n \in Nat
    BY <1>2, <2>1, NumberingExists
  <2>3. PICK g \in [new -> first..first + n - 1] : \A m, k \in new : m # k => g[m] # g[k]
    BY <1>2, <2>1, NumberingExists
  <2> HIDE DEF n
  <2>4. g \in Numberings
    BY <1>1, <2>2, <2>3 DEF first
  <2>5. Apart(g)
    BY <2>3
  <2> HIDE DEF Numberings, Apart
  <2>6. number \in Numberings
    BY <2>4, <2>5
  <2>7. QED BY <2>2, <2>6 DEF Numberings
<1>4. InsertMethods(d, ms) = t
  BY DEF InsertMethods
<1>5. \A m \in new : number[m] \in Nat /\ number[m] >= 1 /\ number[m] < last
  <2> HIDE DEF new, n, number
  <2>1. QED BY <1>1, <1>3
<1> HIDE DEF n, number
<1>6. /\ methods \in [Method -> Nat]
      /\ \A m \in Method : d.methods[m] # 0 => methods[m] = d.methods[m]
      /\ \A m \in Method \ ms : methods[m] = d.methods[m]
      /\ \A m \in ms : methods[m] # 0
  BY <1>1, <1>5
<1>7. ASSUME last <= MaxMethodId + 1
      PROVE  methods \in [Method -> 0..MaxMethodId] /\ last \in 1..MaxMethodId + 1
  BY <1>1, <1>3, <1>5, <1>7, MaxIdAssumption
<1> HIDE DEF new, methods, last
<1>8. t = [d EXCEPT !.methods = t.methods, !.nextMethod = t.nextMethod]
      /\ t.methods = methods /\ t.nextMethod = last
  BY DEF Tables
<1>9. last <= MaxMethodId + 1 => t \in Tables
  BY <1>7 DEF Tables
<1> HIDE DEF t
<1>10. QED BY <1>3, <1>4, <1>6, <1>8, <1>9 DEF new, n, last
-----------------------------------------------------------------------------
(* MetaDataDB *)

LEMMA InfoFields ==
    ASSUME NEW info \in Info
    PROVE  /\ info.id \in 0..MaxId
           /\ info.user \in User \cup {Null} /\ info.pass \in Pass \cup {Null}
           /\ info.hasPass \in BOOLEAN
           /\ info.remember \in BOOLEAN /\ info.secretName \in BOOLEAN
           /\ DOMAIN info.methods \in SUBSET Method
           /\ info.methods \in [DOMAIN info.methods -> SUBSET Mechanism]
           /\ info.acl \in SUBSET Token /\ info.owners \in SUBSET Token
           /\ info.realms \in SUBSET Realm
<1>1. PICK ms \in SUBSET Method : info.methods \in [ms -> SUBSET Mechanism]
  BY DEF Info
<1>2. QED BY <1>1 DEF Info

\* A row is told from the lack of one by its fields.
LEMMA RowIsThere == \A row \in Row : row # NoRow
<1> SUFFICES ASSUME NEW row \in Row, row = NoRow
             PROVE  FALSE
  OBVIOUS
<1>1. "none" \notin DOMAIN row
  BY DEF Row
<1>2. "none" \in DOMAIN NoRow
  BY DEF NoRow
<1>3. QED BY <1>1, <1>2

\* The mechanisms that an identity may be used with.
MechanismsNamed(info) == UNION {info.methods[m] : m \in DOMAIN info.methods}

\* The rows of ACL are the identity's own, and name what it may be used with.
LEMMA AclRowsTyped ==
    ASSUME NEW id \in Id, NEW info \in Info
    PROVE  /\ AclRows(id, info) \subseteq
                 Id \X (Method \cup {Null}) \X (Mechanism \cup {Null}) \X (Token \cup {Null})
           /\ \A a \in AclRows(id, info) : /\ a[1] = id
                                           /\ a[2] \in DOMAIN info.methods \cup {Null}
                                           /\ a[3] \in MechanismsNamed(info) \cup {Null}
                                           /\ a[4] \in info.acl \cup {Null}
<1> DEFINE mechs == MechanismsNamed(info)
<1>1. DOMAIN info.methods \in SUBSET Method /\ info.acl \in SUBSET Token
  BY InfoFields
<1>2. mechs \in SUBSET Mechanism /\ \A m \in DOMAIN info.methods : info.methods[m] \subseteq mechs
  BY InfoFields DEF MechanismsNamed
<1> HIDE DEF mechs
<1>3. SUFFICES ASSUME NEW a \in AclRows(id, info)
               PROVE  \E m \in DOMAIN info.methods \cup {Null}, k \in mechs \cup {Null},
                         t \in info.acl \cup {Null} : a = <<id, m, k, t>>
  <2>1. \A b \in AclRows(id, info) :
           \E m \in DOMAIN info.methods \cup {Null}, k \in mechs \cup {Null},
              t \in info.acl \cup {Null} : b = <<id, m, k, t>>
    OBVIOUS
  <2> HIDE DEF AclRows
  <2>2. QED BY <1>1, <1>2, <2>1 DEF mechs
<1> DEFINE OrNull(set) == IF set = {} THEN {Null} ELSE set
<1>4. CASE DOMAIN info.methods = {}
  BY <1>4 DEF AclRows
<1>5. CASE DOMAIN info.methods # {}
  <2>1. PICK m \in DOMAIN info.methods :
           a \in {<<id, m, k, t>> : k \in OrNull(info.methods[m]), t \in OrNull(info.acl)}
    BY <1>5 DEF AclRows
  <2>2. PICK k \in OrNull(info.methods[m]), t \in OrNull(info.acl) : a = <<id, m, k, t>>
    BY <2>1
  <2>3. k \in mechs \cup {Null} /\ t \in info.acl \cup {Null}
    BY <1>2, <2>2
  <2>4. QED BY <2>2, <2>3
<1>6. QED BY <1>4, <1>5

\* The table CREDENTIALS: an identity that is there keeps its number, and a new
\* one gets the next.
LEMMA RowUpdated ==
    ASSUME NEW d \in Tables, NEW info \in Info, NEW id \in Id
    PROVE  LET t == UpdateRow(d, id, info)
           IN  /\ t \in Tables
               /\ t.methods = d.methods /\ t.nextMethod = d.nextMethod /\ t.mechs = d.mechs
               /\ t.tokens = d.tokens /\ t.acl = d.acl /\ t.owner = d.owner
               /\ t.realms = d.realms /\ t.refs = d.refs
               /\ info.id = NewIdentity => t.nextId = id + 1
               /\ info.id # NewIdentity => t.nextId = d.nextId
               /\ \A i \in Id \ {id} : t.rows[i] = d.rows[i]
               /\ Exists(t, id) <=> info.id = NewIdentity \/ Exists(d, id)
               /\ Exists(t, id) =>
                     t.rows[id] = [user |-> IF info.secretName THEN Null ELSE info.user,
                                   remember |-> info.remember, secretName |-> info.secretName]
<1> DEFINE row == [user |-> IF info.secretName THEN Null ELSE info.user,
                   remember |-> info.remember, secretName |-> info.secretName]
<1>1. row \in Row /\ row # NoRow
  BY InfoFields, RowIsThere DEF Row
<1>2. id + 1 \in 1..MaxId + 1
  BY MaxIdAssumption DEF Id
<1> HIDE DEF row
<1> DEFINE new == [d EXCEPT !.rows[id] = row, !.nextId = id + 1]
           old == [d EXCEPT !.rows[id] = row]
<1>3. /\ new \in Tables /\ old \in Tables
      /\ new.methods = d.methods /\ new.nextMethod = d.nextMethod /\ new.mechs = d.mechs
      /\ new.tokens = d.tokens /\ new.acl = d.acl /\ new.owner = d.owner
      /\ new.realms = d.realms /\ new.refs = d.refs
      /\ old.methods = d.methods /\ old.nextMethod = d.nextMethod /\ old.mechs = d.mechs
      /\ old.tokens = d.tokens /\ old.acl = d.acl /\ old.owner = d.owner
      /\ old.realms = d.realms /\ old.refs = d.refs
      /\ new.nextId = id + 1 /\ old.nextId = d.nextId
      /\ new.rows[id] = row /\ old.rows[id] = row
      /\ \A i \in Id \ {id} : new.rows[i] = d.rows[i] /\ old.rows[i] = d.rows[i]
  BY <1>1, <1>2 DEF Tables
<1> HIDE DEF new, old
<1>4. CASE info.id = NewIdentity
  BY <1>1, <1>3, <1>4 DEF UpdateRow, Exists, new, row
<1>5. CASE info.id # NewIdentity /\ Exists(d, id)
  BY <1>1, <1>3, <1>5 DEF UpdateRow, Exists, old, row
<1>6. CASE info.id # NewIdentity /\ ~Exists(d, id)
  BY <1>3, <1>6 DEF UpdateRow
<1>7. QED BY <1>4, <1>5, <1>6

\* The names that updateIdentity() inserts: what is there stays there.
LEMMA NamesAdded ==
    ASSUME NEW d \in Tables, Coherent(d), NEW info \in Info, NEW f,
           InsertMethods(d, DOMAIN info.methods).nextMethod <= MaxMethodId + 1
    PROVE  LET t == NamesInserted(d, info, f)
           IN  /\ t \in Tables
               /\ t.rows = d.rows /\ t.nextId = d.nextId /\ t.refs = d.refs
               /\ t.realms = d.realms /\ t.acl = d.acl /\ t.owner = d.owner
               /\ \A m \in Method : d.methods[m] # 0 => t.methods[m] = d.methods[m]
               /\ f # "method" => \A m \in DOMAIN info.methods : t.methods[m] # 0
               /\ d.mechs \subseteq t.mechs
               /\ t.mechs \subseteq d.mechs \cup MechanismsNamed(info)
               /\ f # "mechanism" => MechanismsNamed(info) \subseteq t.mechs
               /\ d.tokens \subseteq t.tokens
               /\ t.tokens \subseteq d.tokens \cup info.acl \cup info.owners
               /\ f # "token" => info.acl \cup info.owners \subseteq t.tokens
<1> DEFINE ms == DOMAIN info.methods
           numbered == IF f = "method" THEN d ELSE InsertMethods(d, ms)
           mechs == IF f = "mechanism" THEN d.mechs
                    ELSE d.mechs \cup MechanismsNamed(info)
           tokens == IF f = "token" THEN d.tokens ELSE d.tokens \cup info.acl \cup info.owners
           t == [numbered EXCEPT !.mechs = mechs, !.tokens = tokens]
<1>1. ms \in SUBSET Method /\ mechs \in SUBSET Mechanism /\ tokens \in SUBSET Token
  BY InfoFields DEF Tables, MechanismsNamed
<1>2. /\ numbered \in Tables
      /\ numbered = [d EXCEPT !.methods = numbered.methods, !.nextMethod = numbered.nextMethod]
      /\ \A m \in Method : d.methods[m] # 0 => numbered.methods[m] = d.methods[m]
      /\ f # "method" => \A m \in ms : numbered.methods[m] # 0
  <2> HIDE DEF ms
  <2>1. CASE f = "method"
    BY <2>1 DEF Tables
  <2>2. CASE f # "method"
    <3> DEFINE n == InsertMethods(d, ms)
    <3>1. /\ n = [d EXCEPT !.methods = n.methods, !.nextMethod = n.nextMethod]
          /\ \A m \in Method : d.methods[m] # 0 => n.methods[m] = d.methods[m]
          /\ \A m \in ms : n.methods[m] # 0
          /\ n.nextMethod <= MaxMethodId + 1 => n \in Tables
      BY <1>1, MethodsNumbered
    <3>2. n.nextMethod <= MaxMethodId + 1
      BY DEF ms
    <3> HIDE DEF n
    <3>3. numbered = n
      BY <2>2 DEF n
    <3>4. QED BY <3>1, <3>2, <3>3
  <2>3. QED BY <2>1, <2>2
<1> HIDE DEF numbered
<1>3. /\ numbered.rows = d.rows /\ numbered.nextId = d.nextId /\ numbered.refs = d.refs
      /\ numbered.realms = d.realms /\ numbered.acl = d.acl /\ numbered.owner = d.owner
      /\ numbered.mechs = d.mechs /\ numbered.tokens = d.tokens
  BY <1>2 DEF Tables
<1>4. NamesInserted(d, info, f) = t
  BY <1>3 DEF NamesInserted, numbered, MechanismsNamed
<1> HIDE DEF mechs, tokens, ms
<1>5. /\ t \in Tables
      /\ t.rows = numbered.rows /\ t.nextId = numbered.nextId /\ t.refs = numbered.refs
      /\ t.realms = numbered.realms /\ t.acl = numbered.acl /\ t.owner = numbered.owner
      /\ t.methods = numbered.methods /\ t.mechs = mechs /\ t.tokens = tokens
  BY <1>1, <1>2 DEF Tables
<1> HIDE DEF t
<1>6. QED BY <1>2, <1>3, <1>4, <1>5 DEF mechs, tokens, ms

\* A row that is inserted names what is in the tables, of what is to be named.
LEMMA AclInsertedTyped ==
    ASSUME NEW d \in Tables, NEW info \in Info, NEW id \in Id, NEW f
    PROVE  /\ AclInserted(d, id, info, f) \subseteq
                 Id \X (Method \cup {Null}) \X (Mechanism \cup {Null}) \X (Token \cup {Null})
           /\ \A a \in AclInserted(d, id, info, f) :
                 /\ a[1] = id
                 /\ a[2] # Null => d.methods[a[2]] # 0
                 /\ a[3] \in d.mechs \cup {Null} /\ a[4] \in d.tokens \cup {Null}
                 /\ \E b \in AclRows(id, info) : /\ a[2] \in {b[2], Null}
                                                 /\ a[3] \in {b[3], Null}
                                                 /\ a[4] \in {b[4], Null}
<1> DEFINE there == {m \in Method : d.methods[m] # 0}
           row(b) == <<id, Selected(b[2], there), Selected(b[3], d.mechs),
                       Selected(b[4], d.tokens)>>
<1>1. \A b \in AclRows(id, info) : b[3] \in Mechanism \cup {Null} /\ b[4] \in Token \cup {Null}
  BY AclRowsTyped
<1>2. ASSUME NEW a \in AclInserted(d, id, info, f)
      PROVE  \E b \in AclRows(id, info) : a = row(b)
  BY <1>2 DEF AclInserted
<1>3. ASSUME NEW b \in AclRows(id, info)
      PROVE  /\ row(b)[1] = id
             /\ row(b)[2] \in {b[2], Null} /\ row(b)[2] \in there \cup {Null}
             /\ row(b)[3] \in {b[3], Null} /\ row(b)[3] \in d.mechs \cup {Null}
             /\ row(b)[4] \in {b[4], Null} /\ row(b)[4] \in d.tokens \cup {Null}
             /\ row(b) \in Id \X (there \cup {Null}) \X (d.mechs \cup {Null})
                              \X (d.tokens \cup {Null})
  BY DEF Selected
<1> HIDE DEF row
<1>4. /\ there \subseteq Method /\ d.mechs \subseteq Mechanism /\ d.tokens \subseteq Token
      /\ \A m \in there : d.methods[m] # 0
  BY DEF Tables
<1> HIDE DEF there
<1>5. ASSUME NEW a \in AclInserted(d, id, info, f)
      PROVE  /\ a \in Id \X (there \cup {Null}) \X (d.mechs \cup {Null}) \X (d.tokens \cup {Null})
             /\ a[1] = id
             /\ a[2] # Null => d.methods[a[2]] # 0
             /\ a[3] \in d.mechs \cup {Null} /\ a[4] \in d.tokens \cup {Null}
             /\ \E b \in AclRows(id, info) : /\ a[2] \in {b[2], Null}
                                             /\ a[3] \in {b[3], Null}
                                             /\ a[4] \in {b[4], Null}
  <2>1. PICK b \in AclRows(id, info) : a = row(b)
    BY <1>2
  <2>2. QED BY <1>3, <1>4, <2>1
<1>6. QED BY <1>4, <1>5

LEMMA OwnerInsertedTyped ==
    ASSUME NEW d \in Tables, NEW info \in Info, NEW id \in Id, NEW f
    PROVE  /\ OwnerInserted(d, id, info, f) \in SUBSET (Id \X (Token \cup {Null}))
           /\ \A o \in OwnerInserted(d, id, info, f) :
                 o[1] = id /\ o[2] \in d.tokens \cup {Null} /\ o[2] \in info.owners \cup {Null}
<1>1. d.tokens \subseteq Token
  BY DEF Tables
<1>2. \A o \in OwnerInserted(d, id, info, f) :
         \E x \in info.owners : o = <<id, Selected(x, d.tokens)>>
  BY DEF OwnerInserted
<1>3. \A x \in info.owners : /\ Selected(x, d.tokens) \in d.tokens \cup {Null}
                             /\ Selected(x, d.tokens) \in info.owners \cup {Null}
  BY DEF Selected
<1>4. QED BY <1>1, <1>2, <1>3

\* The lists of an identity that is there, or that has none: the tables stay
\* coherent, and keep all that is about the others.
LEMMA ListsUpdated ==
    ASSUME NEW d \in Tables, Coherent(d), NEW info \in Info, NEW id \in Id, NEW f,
           InsertMethods(d, DOMAIN info.methods).nextMethod <= MaxMethodId + 1
    PROVE  LET t == UpdateLists(d, id, info, f)
               named == NamesInserted(d, info, f)
           IN  /\ t \in Tables /\ Coherent(t)
               /\ t.rows = d.rows /\ t.nextId = d.nextId /\ t.refs = d.refs
               /\ t.methods = named.methods /\ t.nextMethod = named.nextMethod
               /\ t.mechs = named.mechs /\ t.tokens = named.tokens
               /\ t.realms = NotDeleted(d.realms, id, info, f = "deleteRealms")
                                \cup {<<id, x>> : x \in info.realms}
               /\ t.acl = NotDeleted(d.acl, id, info, f = "deleteAcl")
                             \cup AclInserted(named, id, info, f)
               /\ t.owner = NotDeleted(d.owner, id, info, f = "deleteOwner")
                               \cup OwnerInserted(named, id, info, f)
<1> DEFINE named == NamesInserted(d, info, f)
<1>1. /\ named \in Tables
      /\ named.rows = d.rows /\ named.nextId = d.nextId /\ named.refs = d.refs
      /\ named.realms = d.realms /\ named.acl = d.acl /\ named.owner = d.owner
      /\ \A m \in Method : d.methods[m] # 0 => named.methods[m] = d.methods[m]
      /\ d.mechs \subseteq named.mechs /\ d.tokens \subseteq named.tokens
  BY NamesAdded
<1> HIDE DEF named
<1> DEFINE rows == AclInserted(named, id, info, f)
           owners == OwnerInserted(named, id, info, f)
           realms == NotDeleted(d.realms, id, info, f = "deleteRealms")
                        \cup {<<id, x>> : x \in info.realms}
           acl == NotDeleted(d.acl, id, info, f = "deleteAcl") \cup rows
           owner == NotDeleted(d.owner, id, info, f = "deleteOwner") \cup owners
           t == [named EXCEPT !.realms = realms, !.acl = acl, !.owner = owner]
<1>2. UpdateLists(d, id, info, f) = t
  BY <1>1 DEF UpdateLists, named
<1>3. /\ rows \subseteq Id \X (Method \cup {Null}) \X (Mechanism \cup {Null})
                           \X (Token \cup {Null})
      /\ \A a \in rows : /\ a[2] # Null => named.methods[a[2]] # 0
                         /\ a[3] \in named.mechs \cup {Null}
                         /\ a[4] \in named.tokens \cup {Null}
  BY <1>1, AclInsertedTyped
<1>4. /\ owners \in SUBSET (Id \X (Token \cup {Null}))
      /\ \A o \in owners : o[2] \in named.tokens \cup {Null}
  BY <1>1, OwnerInsertedTyped
<1> HIDE DEF rows, owners
<1>5. realms \in SUBSET (Id \X Realm)
  BY InfoFields DEF Tables, NotDeleted
<1>6. acl \in SUBSET (Id \X (Method \cup {Null}) \X (Mechanism \cup {Null})
                         \X (Token \cup {Null}))
  BY <1>3 DEF Tables, NotDeleted
<1>7. owner \in SUBSET (Id \X (Token \cup {Null}))
  BY <1>4 DEF Tables, NotDeleted
<1>8. \A a \in acl : /\ a[2] # Null => named.methods[a[2]] # 0
                     /\ a[3] \in named.mechs \cup {Null}
                     /\ a[4] \in named.tokens \cup {Null}
  <2> SUFFICES ASSUME NEW a \in acl, a \in d.acl
               PROVE  /\ a[2] # Null => named.methods[a[2]] # 0
                      /\ a[3] \in named.mechs \cup {Null}
                      /\ a[4] \in named.tokens \cup {Null}
    BY <1>3 DEF NotDeleted
  <2>1. a[2] \in Method \cup {Null}
    BY DEF Tables
  <2>2. QED BY <1>1, <2>1 DEF Coherent
<1>9. \A o \in owner : o[2] \in named.tokens \cup {Null}
  BY <1>1, <1>4 DEF Coherent, NotDeleted
<1> HIDE DEF realms, acl, owner
<1>10. /\ t \in Tables
       /\ t.rows = d.rows /\ t.nextId = d.nextId /\ t.refs = d.refs
       /\ t.methods = named.methods /\ t.nextMethod = named.nextMethod
       /\ t.mechs = named.mechs /\ t.tokens = named.tokens
       /\ t.realms = realms /\ t.acl = acl /\ t.owner = owner
  BY <1>1, <1>5, <1>6, <1>7 DEF Tables
<1> HIDE DEF t
<1>11. Coherent(t)
  BY <1>8, <1>9, <1>10 DEF Coherent, Exists
<1>12. QED
  BY <1>2, <1>10, <1>11 DEF realms, acl, owner, rows, owners, named

\* The number under which an identity is stored.
StoredId(d, info) == IF info.id = NewIdentity THEN d.nextId ELSE info.id

LEMMA RowKeepsCoherence ==
    ASSUME NEW d \in Tables, Coherent(d), NEW info \in Info,
           info.id = NewIdentity => d.nextId \in Id
    PROVE  LET id == StoredId(d, info)
           IN  id \in Id /\ Coherent(UpdateRow(d, id, info))
<1> DEFINE id == StoredId(d, info)
           t == UpdateRow(d, id, info)
<1>1. id \in Id
  BY InfoFields DEF StoredId, Id, NewIdentity
<1>2. d.nextId \in Nat
  BY MaxIdAssumption DEF Tables
<1>3. info.id = NewIdentity => id = d.nextId
  BY DEF StoredId
<1> HIDE DEF id
<1>4. /\ t.methods = d.methods /\ t.mechs = d.mechs /\ t.tokens = d.tokens
      /\ t.acl = d.acl /\ t.owner = d.owner /\ t.refs = d.refs
      /\ info.id = NewIdentity => t.nextId = id + 1
      /\ info.id # NewIdentity => t.nextId = d.nextId
      /\ \A i \in Id \ {id} : t.rows[i] = d.rows[i]
      /\ Exists(t, id) <=> info.id = NewIdentity \/ Exists(d, id)
  BY <1>1, RowUpdated
<1> HIDE DEF t
<1>6. \A i \in Id : Exists(t, i) => i < t.nextId
  BY <1>2, <1>3, <1>4 DEF Coherent, Exists, Id
<1>7. \A i \in Id : Exists(d, i) => Exists(t, i)
  BY <1>4 DEF Exists
<1>8. \A x \in t.refs : Exists(t, x[1])
  BY <1>4, <1>7 DEF Coherent, Exists
<1>9. QED BY <1>1, <1>4, <1>6, <1>8 DEF Coherent, t, id

\* updateIdentity() stores an identity whole, or returns none and changes nothing
\* but the owners of an identity that is not there.
LEMMA IdentityUpdated ==
    ASSUME NEW d \in Tables, Coherent(d), NEW info \in Info, NEW f,
           info.id = NewIdentity => d.nextId \in Id,
           InsertMethods(d, DOMAIN info.methods).nextMethod <= MaxMethodId + 1
    PROVE  LET res == UpdateIdentity(d, info, f)
               id == StoredId(d, info)
               row == UpdateRow(d, id, info)
           IN  /\ res.st \in Tables /\ Coherent(res.st)
               /\ res.id \in {NewIdentity, id}
               /\ res.id = NewIdentity =>
                     \/ res.st = d
                     \/ /\ ~Exists(d, id) /\ info.id # NewIdentity
                        /\ res.st = [d EXCEPT !.owner = res.st.owner]
                        /\ d.owner \subseteq res.st.owner
                        /\ \A o \in res.st.owner \ d.owner : o[1] = id
               /\ res.id # NewIdentity =>
                     /\ res.st = UpdateLists(row, id, info, f)
                     /\ InsertMethods(row, DOMAIN info.methods).nextMethod <= MaxMethodId + 1
<1> DEFINE id == StoredId(d, info)
           row == UpdateRow(d, id, info)
           named == InsertMethods(row, DOMAIN info.methods)
           lists == UpdateLists(row, id, info, f)
           missing == UpdateOfMissing(d, info, f)
           res == UpdateIdentity(d, info, f)
<1>1. id \in Id /\ Coherent(row)
  BY RowKeepsCoherence
<1>2. id = IF info.id = NewIdentity THEN d.nextId ELSE info.id
  BY DEF StoredId
<1> HIDE DEF id
<1>3. /\ row \in Tables
      /\ row.methods = d.methods /\ row.nextMethod = d.nextMethod
      /\ Exists(row, id) <=> info.id = NewIdentity \/ Exists(d, id)
  BY <1>1, RowUpdated
<1> HIDE DEF row
<1>4. named.nextMethod <= MaxMethodId + 1
  <2>1. named.nextMethod = InsertMethods(d, DOMAIN info.methods).nextMethod
    BY <1>3 DEF InsertMethods, Tables
  <2>2. QED BY <2>1
<1>5. lists \in Tables /\ Coherent(lists)
  BY <1>1, <1>3, <1>4, ListsUpdated
<1> HIDE DEF lists, named
<1>6. ASSUME info.id # NewIdentity
      PROVE  /\ missing.st \in Tables /\ Coherent(missing.st)
             /\ missing.st = [d EXCEPT !.owner = missing.st.owner]
             /\ d.owner \subseteq missing.st.owner
             /\ \A o \in missing.st.owner \ d.owner : o[1] = id
  <2> DEFINE inserted == OwnerInserted(d, info.id, info, f)
             owner == d.owner \cup inserted
             t == [d EXCEPT !.owner = owner]
  <2>1. info.id = id
    BY <1>2, <1>6
  <2>2. /\ inserted \in SUBSET (Id \X (Token \cup {Null}))
        /\ \A o \in inserted : o[1] = id /\ o[2] \in d.tokens \cup {Null}
    BY <1>1, <2>1, OwnerInsertedTyped
  <2> HIDE DEF inserted
  <2>3. /\ d.owner \subseteq owner /\ owner \in SUBSET (Id \X (Token \cup {Null}))
        /\ \A o \in owner \ d.owner : o[1] = id /\ o[2] \in d.tokens \cup {Null}
    BY <2>2 DEF Tables
  <2>4. missing.st = t
    BY DEF UpdateOfMissing, inserted
  <2> HIDE DEF owner
  <2>5. t \in Tables /\ t.owner = owner /\ t = [d EXCEPT !.owner = t.owner]
    BY <2>3 DEF Tables
  <2>6. Coherent(t)
    BY <2>3 DEF Coherent, Exists, Tables
  <2> HIDE DEF t
  <2>7. QED BY <2>3, <2>4, <2>5, <2>6
<1>7. missing.ok = FALSE
  BY DEF UpdateOfMissing
<1> DEFINE inserted == AclInserted(row, id, info, f)
<1>8. CASE ViolatesForeignKey(row, id, info.realms \cup inserted)
  <2>1. ~Exists(d, id) /\ info.id # NewIdentity
    BY <1>3, <1>8 DEF ViolatesForeignKey
  <2>2. res.id = NewIdentity /\ res.st \in {d, missing.st}
    BY <1>2, <1>7, <1>8 DEF UpdateIdentity, ViolatesForeignKey, Failed, row
  <2> HIDE DEF missing, res
  <2>3. QED BY <1>6, <2>1, <2>2 DEF res, id, row
<1>9. CASE ~ViolatesForeignKey(row, id, info.realms \cup inserted)
  <2>1. \/ res.id = NewIdentity /\ res.st = d
        \/ res.id = id /\ res.st = lists
    BY <1>2, <1>9 DEF UpdateIdentity, ViolatesForeignKey, Failed, Done, lists, row
  <2>2. id # NewIdentity
    BY <1>1 DEF Id, NewIdentity
  <2> HIDE DEF res
  <2>3. QED BY <1>4, <1>5, <2>1, <2>2 DEF res, id, row, lists, named
<1>10. QED BY <1>8, <1>9
\* storeData() gives a method its number.
LEMMA MethodsKeepCoherence ==
    ASSUME NEW d \in Tables, Coherent(d), NEW ms \in SUBSET Method,
           InsertMethods(d, ms).nextMethod <= MaxMethodId + 1
    PROVE  LET t == InsertMethods(d, ms)
           IN  /\ t \in Tables /\ Coherent(t)
               /\ t.rows = d.rows /\ t.nextId = d.nextId
               /\ t.mechs = d.mechs /\ t.tokens = d.tokens
               /\ t.acl = d.acl /\ t.owner = d.owner /\ t.realms = d.realms
               /\ t.refs = d.refs
               /\ \A m \in Method : d.methods[m] # 0 => t.methods[m] = d.methods[m]
<1> DEFINE t == InsertMethods(d, ms)
<1>1. /\ t = [d EXCEPT !.methods = t.methods, !.nextMethod = t.nextMethod]
      /\ \A m \in Method : d.methods[m] # 0 => t.methods[m] = d.methods[m]
      /\ t \in Tables
  BY MethodsNumbered
<1> HIDE DEF t
<1>2. /\ t.rows = d.rows /\ t.nextId = d.nextId
      /\ t.mechs = d.mechs /\ t.tokens = d.tokens
      /\ t.acl = d.acl /\ t.owner = d.owner /\ t.realms = d.realms
      /\ t.refs = d.refs
  BY <1>1 DEF Tables
<1>3. \A a \in t.acl : a[2] \in Method \cup {Null}
  BY <1>1 DEF Tables
<1>4. Coherent(t)
  BY <1>1, <1>2, <1>3 DEF Coherent, Exists
<1>5. QED BY <1>1, <1>2, <1>4 DEF t

LEMMA CreatedTables == CreateTables \in Tables /\ Coherent(CreateTables)
<1>1. CreateTables \in Tables
  BY MaxIdAssumption DEF CreateTables, Tables
<1>2. Coherent(CreateTables)
  BY DEF CreateTables, Coherent, Exists
<1>3. QED BY <1>1, <1>2

LEMMA TablesConverted ==
    ASSUME NEW d \in Tables, Coherent(d)
    PROVE  UpdateFrom1(d) \in Tables /\ Coherent(UpdateFrom1(d))
<1> DEFINE owner == {<<a[1], a[4]>> : a \in d.acl}
           t == [d EXCEPT !.owner = owner]
<1>1. owner \in SUBSET (Id \X (Token \cup {Null}))
  BY DEF Tables
<1>2. \A o \in owner : o[2] \in d.tokens \cup {Null}
  BY DEF Coherent
<1> HIDE DEF owner
<1>3. t \in Tables
  BY <1>1 DEF Tables
<1>4. Coherent(t)
  BY <1>2 DEF Coherent, Exists, Tables
<1>5. QED BY <1>3, <1>4 DEF UpdateFrom1, owner

\* The triggers take rows away, and nothing else.
LEMMA IdentityCascades ==
    ASSUME NEW d \in Tables, NEW ids
    PROVE  LET t == CascadeIdentity(d, ids)
           IN  /\ t \in Tables
               /\ t.rows = d.rows /\ t.nextId = d.nextId /\ t.methods = d.methods
               /\ t.nextMethod = d.nextMethod /\ t.mechs = d.mechs
               /\ t.tokens = d.tokens /\ t.owner = d.owner
               /\ t.realms = {x \in d.realms : x[1] \notin ids}
               /\ t.acl = {a \in d.acl : a[1] \notin ids}
               /\ t.refs = {q \in d.refs : q[1] \notin ids}
<1> DEFINE realms == {x \in d.realms : x[1] \notin ids}
           acl == {a \in d.acl : a[1] \notin ids}
           refs == {q \in d.refs : q[1] \notin ids}
           t == [d EXCEPT !.realms = realms, !.acl = acl, !.refs = refs]
<1>1. realms \subseteq d.realms /\ acl \subseteq d.acl /\ refs \subseteq d.refs
  OBVIOUS
<1>2. CascadeIdentity(d, ids) = t
  BY DEF CascadeIdentity
<1> HIDE DEF realms, acl, refs
<1>3. /\ t \in Tables
      /\ t.rows = d.rows /\ t.nextId = d.nextId /\ t.methods = d.methods
      /\ t.nextMethod = d.nextMethod /\ t.mechs = d.mechs
      /\ t.tokens = d.tokens /\ t.owner = d.owner
      /\ t.realms = realms /\ t.acl = acl /\ t.refs = refs
  BY <1>1 DEF Tables
<1> HIDE DEF t
<1>4. QED BY <1>2, <1>3 DEF realms, acl, refs

LEMMA TokensCascade ==
    ASSUME NEW d \in Tables, NEW tokens
    PROVE  LET t == CascadeToken(d, tokens)
           IN  /\ t \in Tables
               /\ t.rows = d.rows /\ t.nextId = d.nextId
               /\ t.refs \subseteq d.refs
<1> DEFINE acl == {a \in d.acl : a[4] \notin tokens}
           refs == {q \in d.refs : q[2] \notin tokens}
           owner == {o \in d.owner : o[2] \notin tokens}
           t == [d EXCEPT !.acl = acl, !.refs = refs, !.owner = owner]
<1>1. acl \subseteq d.acl /\ refs \subseteq d.refs /\ owner \subseteq d.owner
  OBVIOUS
<1>2. CascadeToken(d, tokens) = t
  BY DEF CascadeToken
<1> HIDE DEF acl, refs, owner
<1>3. /\ t \in Tables
      /\ t.rows = d.rows /\ t.nextId = d.nextId /\ t.refs = refs
  BY <1>1 DEF Tables
<1> HIDE DEF t
<1>4. QED BY <1>1, <1>2, <1>3

\* remove() leaves no row of the identity, in OWNER and REFS too, or everything.
LEMMA IdentityRemoved ==
    ASSUME NEW d \in Tables, Coherent(d), NEW id \in Id, NEW f
    PROVE  LET res == RemoveIdentity(d, id, f)
               t == res.st
           IN  /\ t \in Tables /\ Coherent(t)
               /\ res.ok \in BOOLEAN
               /\ ~res.ok => t = d
               /\ t.nextId = d.nextId /\ t.methods = d.methods
               /\ t.nextMethod = d.nextMethod /\ t.mechs = d.mechs
               /\ t.tokens = d.tokens
               /\ \A i \in Id \ {id} :
                     /\ t.rows[i] = d.rows[i]
                     /\ \A a \in d.acl : a[1] = i => a \in t.acl
                     /\ \A o \in d.owner : o[1] = i => o \in t.owner
                     /\ \A x \in d.realms : x[1] = i => x \in t.realms
               /\ t.acl \subseteq d.acl /\ t.owner \subseteq d.owner
               /\ t.realms \subseteq d.realms /\ t.refs \subseteq d.refs
               /\ res.ok => /\ t.rows[id] = NoRow
                            /\ \A o \in t.owner : o[1] # id
                            /\ \A q \in t.refs : q[1] # id
<1> DEFINE cascaded == IF Exists(d, id) THEN CascadeIdentity(d, {id}) ELSE d
           acl == {a \in cascaded.acl : a[1] # id}
           realms == {x \in cascaded.realms : x[1] # id}
           owner == {o \in cascaded.owner : o[1] # id}
           removed == [cascaded EXCEPT !.rows[id] = NoRow, !.acl = acl,
                                       !.realms = realms, !.owner = owner]
           res == RemoveIdentity(d, id, f)
<1>1. /\ cascaded \in Tables
      /\ cascaded.rows = d.rows /\ cascaded.nextId = d.nextId
      /\ cascaded.methods = d.methods /\ cascaded.nextMethod = d.nextMethod
      /\ cascaded.mechs = d.mechs /\ cascaded.tokens = d.tokens
      /\ cascaded.owner = d.owner
      /\ cascaded.realms \subseteq d.realms
      /\ \A x \in d.realms : x[1] # id => x \in cascaded.realms
      /\ cascaded.acl \subseteq d.acl
      /\ \A a \in d.acl : a[1] # id => a \in cascaded.acl
      /\ cascaded.refs \subseteq d.refs
      /\ \A q \in cascaded.refs : q[1] # id
  <2>1. CASE Exists(d, id)
    BY <2>1, IdentityCascades
  <2>2. CASE ~Exists(d, id)
    BY <2>2 DEF Coherent
  <2>3. QED BY <2>1, <2>2
<1> HIDE DEF cascaded
<1>2. /\ acl \subseteq d.acl /\ realms \subseteq d.realms /\ owner \subseteq d.owner
      /\ \A a \in d.acl : a[1] # id => a \in acl
      /\ \A x \in d.realms : x[1] # id => x \in realms
      /\ \A o \in d.owner : o[1] # id => o \in owner
      /\ \A a \in acl : a[1] # id
      /\ \A o \in owner : o[1] # id
      /\ acl \subseteq cascaded.acl /\ realms \subseteq cascaded.realms
      /\ owner \subseteq cascaded.owner
  BY <1>1
<1>3. \/ res.st = d /\ res.ok = FALSE
      \/ res.st = removed /\ res.ok = TRUE
  BY DEF RemoveIdentity, TransactionalExec, Failed, Done, cascaded
<1> HIDE DEF acl, realms, owner
<1>4. /\ removed \in Tables
      /\ removed.nextId = d.nextId /\ removed.methods = d.methods
      /\ removed.nextMethod = d.nextMethod /\ removed.mechs = d.mechs
      /\ removed.tokens = d.tokens
      /\ \A i \in Id \ {id} : removed.rows[i] = d.rows[i]
      /\ removed.rows[id] = NoRow
      /\ removed.acl = acl /\ removed.realms = realms
      /\ removed.refs = cascaded.refs /\ removed.owner = owner
  BY <1>1, <1>2 DEF Tables
<1> HIDE DEF removed, res
<1>5. Coherent(removed)
  BY <1>1, <1>2, <1>4 DEF Coherent, Exists
<1>6. CASE res.st = d /\ res.ok = FALSE
  BY <1>6 DEF res
<1>7. CASE res.st = removed /\ res.ok = TRUE
  BY <1>1, <1>2, <1>4, <1>5, <1>7 DEF res
<1>8. QED BY <1>3, <1>6, <1>7

\* clear() empties the tables, REFS too, or leaves them.
LEMMA TablesCleared ==
    ASSUME NEW d \in Tables, Coherent(d), NEW f
    PROVE  LET res == ClearMetaData(d, f)
           IN  /\ res.st \in Tables /\ Coherent(res.st)
               /\ res.st = d \/ \A i \in Id : ~Exists(res.st, i)
               /\ res.st.nextId = d.nextId
<1> DEFINE ids == {i \in Id : Exists(d, i)}
           alone == CascadeIdentity(d, ids)
           cascaded == CascadeToken(alone, d.tokens)
           rows == [i \in Id |-> NoRow]
           methods == [m \in Method |-> 0]
           new == [cascaded EXCEPT !.rows = rows, !.methods = methods, !.mechs = {},
                                   !.acl = {}, !.realms = {}, !.tokens = {}, !.owner = {}]
<1>1. /\ cascaded \in Tables /\ cascaded.nextId = d.nextId
      /\ cascaded.refs \subseteq {q \in d.refs : q[1] \notin ids}
  <2> HIDE DEF ids
  <2>1. /\ alone \in Tables /\ alone.nextId = d.nextId
        /\ alone.refs = {q \in d.refs : q[1] \notin ids}
    BY IdentityCascades
  <2> HIDE DEF alone
  <2>2. QED BY <2>1, TokensCascade
<1>2. ClearMetaData(d, f).st \in {d, new}
  BY DEF ClearMetaData, TransactionalExec, Failed, Done
<1>3. rows \in [Id -> Row \cup {NoRow}] /\ methods \in [Method -> 0..MaxMethodId]
  BY MaxIdAssumption
<1> HIDE DEF cascaded, rows, methods
<1>4. /\ new \in Tables /\ new.nextId = d.nextId
      /\ new.rows = rows /\ new.acl = {} /\ new.owner = {}
      /\ new.refs = cascaded.refs
  BY <1>1, <1>3 DEF Tables
<1> HIDE DEF new
<1>5. new.refs = {}
  BY <1>1, <1>4 DEF Coherent, Exists
<1>6. Coherent(new) /\ \A i \in Id : ~Exists(new, i)
  BY <1>4, <1>5 DEF Coherent, Exists, rows
<1>7. QED BY <1>2, <1>4, <1>6

\* The references, whose triggers ask for the identity.
LEMMA ReferenceAdded ==
    ASSUME NEW d \in Tables, Coherent(d), NEW id \in Id, NEW token \in Token \cup {Null},
           NEW ref \in Reference, NEW f
    PROVE  LET t == AddReference(d, id, token, ref, f).st
           IN  /\ t \in Tables /\ Coherent(t)
               /\ t.rows = d.rows /\ t.nextId = d.nextId /\ t.methods = d.methods
               /\ t.nextMethod = d.nextMethod /\ t.mechs = d.mechs
               /\ d.tokens \subseteq t.tokens
               /\ t.acl = d.acl /\ t.owner = d.owner /\ t.realms = d.realms
<1> DEFINE tokens == d.tokens \cup ({token} \ {Null})
           refs == d.refs \cup {<<id, token, ref>>}
           new == [d EXCEPT !.tokens = tokens, !.refs = refs]
           t == AddReference(d, id, token, ref, f).st
<1>1. t = d \/ (t = new /\ Exists(d, id))
  BY DEF AddReference, Failed, Done, ViolatesForeignKey
<1>2. tokens \in SUBSET Token /\ d.tokens \subseteq tokens
  BY DEF Tables
<1>3. /\ refs \in SUBSET (Id \X (Token \cup {Null}) \X Reference)
      /\ \A q \in refs : q \in d.refs \/ q[1] = id
  BY DEF Tables
<1> HIDE DEF tokens, refs
<1>4. /\ new \in Tables
      /\ new.rows = d.rows /\ new.nextId = d.nextId /\ new.methods = d.methods
      /\ new.nextMethod = d.nextMethod /\ new.mechs = d.mechs
      /\ new.tokens = tokens
      /\ new.acl = d.acl /\ new.owner = d.owner /\ new.realms = d.realms
      /\ new.refs = refs
  BY <1>2, <1>3 DEF Tables
<1> HIDE DEF new, t
<1>5. ASSUME Exists(d, id)
      PROVE  Coherent(new)
  BY <1>2, <1>3, <1>4, <1>5 DEF Coherent, Exists
<1>6. QED BY <1>1, <1>2, <1>4, <1>5 DEF t

LEMMA ReferenceRemoved ==
    ASSUME NEW d \in Tables, Coherent(d), NEW id, NEW token, NEW ref, NEW f
    PROVE  LET t == RemoveReference(d, id, token, ref, f).st
           IN  /\ t \in Tables /\ Coherent(t)
               /\ t.rows = d.rows /\ t.nextId = d.nextId /\ t.methods = d.methods
               /\ t.nextMethod = d.nextMethod /\ t.mechs = d.mechs
               /\ t.tokens = d.tokens
               /\ t.acl = d.acl /\ t.owner = d.owner /\ t.realms = d.realms
<1> DEFINE gone == {q \in d.refs : /\ q[1] = id
                                   /\ token # Null /\ q[2] = token
                                   /\ ref = Null \/ q[3] = ref}
           new == [d EXCEPT !.refs = @ \ gone]
           t == RemoveReference(d, id, token, ref, f).st
<1>1. t \in {d, new}
  BY DEF RemoveReference, TransactionalExec, Failed, Done
<1> HIDE DEF gone
<1>2. /\ new \in Tables
      /\ new.rows = d.rows /\ new.nextId = d.nextId /\ new.methods = d.methods
      /\ new.nextMethod = d.nextMethod /\ new.mechs = d.mechs
      /\ new.tokens = d.tokens
      /\ new.acl = d.acl /\ new.owner = d.owner /\ new.realms = d.realms
      /\ new.refs \subseteq d.refs
  BY DEF Tables
<1> HIDE DEF new, t
<1>3. Coherent(new)
  BY <1>2 DEF Coherent, Exists
<1>4. QED BY <1>1, <1>2, <1>3 DEF t
-----------------------------------------------------------------------------
(* CredentialsDB *)

\* The secrets: the database's, and the cache's.
SameDatabase(s, t) == t.creds = s.creds /\ t.store = s.store
SameCache(s, t) == t.cache = s.cache /\ t.blobs = s.blobs

\* What storing the secrets of an identity may do.
NothingStored(s, t) ==
    t.creds = s.creds /\ t.open = s.open /\ SameCache(s, t)

LostWithDaemon(s, t) ==
    /\ t.creds = s.creds /\ t.open = FALSE
    /\ t.cache = NoEntries /\ t.blobs = NoBlobs

StoredInDatabase(s, t, id, pass) ==
    /\ t.open = s.open /\ SameCache(s, t)
    /\ t.creds[id] \in Secret /\ t.creds[id].pass = pass
    /\ \A i \in Id \ {id} : t.creds[i] = s.creds[i]

StoredInCache(s, t, id, user, pass, keep) ==
    /\ t.open = s.open /\ t.creds = s.creds /\ t.blobs = s.blobs
    /\ t.cache[id] \in Entry /\ t.cache[id].user = user /\ t.cache[id].pass = pass
    /\ t.cache[id].keep = keep
    /\ \A i \in Id \ {id} : t.cache[i] = s.cache[i]

\* What is stored as the user name.
SecretUser(info) == IF info.secretName THEN info.user ELSE Null

LEMMA EntriesTyped ==
    /\ NoEntries \in [Id -> Secret \cup {NoSecret}]
    /\ NoEntries \in [Id -> Entry \cup {NoSecret}]
    /\ NoBlobs \in [Id \X MethodId -> Blob \cup {Null}]
BY DEF NoEntries, NoBlobs

LEMMA SecretIsThere ==
    /\ \A e \in Secret : e # NoSecret
    /\ \A e \in Entry : e # NoSecret
<1>1. ASSUME NEW e \in Secret \cup Entry, e = NoSecret
      PROVE  FALSE
  <2>1. "none" \notin DOMAIN e
    BY DEF Secret, Entry
  <2>2. "none" \in DOMAIN NoSecret
    BY DEF NoSecret
  <2>3. QED BY <1>1, <2>1, <2>2
<1>2. QED BY <1>1

LEMMA CrashLeaves ==
    ASSUME NEW s \in State
    PROVE  LET t == Crash(s)
           IN  /\ t \in State /\ t.meta = s.meta /\ SameDatabase(s, t)
               /\ t.open = FALSE /\ t.cache = NoEntries /\ t.blobs = NoBlobs
BY EntriesTyped DEF Crash, State, SameDatabase

LEMMA SecretsWritten ==
    ASSUME NEW s \in State, NEW id \in Id, NEW user \in User \cup {Null},
           NEW pass \in Pass \cup {Null}, NEW f
    PROVE  LET t == SecretsUpdate(s, id, user, pass, f)
           IN  /\ t \in State /\ t.meta = s.meta /\ t.store = s.store
               /\ f = "secrets" => NothingStored(s, t)
               /\ f # "secrets" => StoredInDatabase(s, t, id, pass)
<1> DEFINE secret == [user |-> user, pass |-> pass]
           t == [s EXCEPT !.creds[id] = secret]
<1>1. secret \in Secret /\ secret.user = user /\ secret.pass = pass
  BY DEF Secret
<1> HIDE DEF secret
<1>2. /\ t \in State /\ t.meta = s.meta /\ t.store = s.store
      /\ t.open = s.open /\ t.cache = s.cache /\ t.blobs = s.blobs
      /\ t.creds[id] = secret
      /\ \A i \in Id \ {id} : t.creds[i] = s.creds[i]
  BY <1>1 DEF State
<1>3. SecretsUpdate(s, id, user, pass, f) = IF f = "secrets" THEN s ELSE t
  BY DEF SecretsUpdate, secret
<1> HIDE DEF t
<1>4. CASE f = "secrets"
  BY <1>3, <1>4 DEF NothingStored, SameCache
<1>5. CASE f # "secrets"
  BY <1>1, <1>2, <1>3, <1>5 DEF StoredInDatabase, SameCache
<1>6. QED BY <1>4, <1>5

LEMMA EntryWritten ==
    ASSUME NEW s \in State, NEW id \in Id, NEW user \in User \cup {Null},
           NEW pass \in Pass \cup {Null}, NEW keep \in BOOLEAN
    PROVE  LET t == CacheUpdate(s, id, user, pass, keep)
           IN  /\ t \in State /\ t.meta = s.meta /\ SameDatabase(s, t)
               /\ t.open = s.open /\ t.blobs = s.blobs
               /\ t.cache[id] \in Entry
               /\ t.cache[id].user = user /\ t.cache[id].pass = pass
               /\ t.cache[id].keep = keep
               /\ \A i \in Id \ {id} : t.cache[i] = s.cache[i]
<1> DEFINE entry == [user |-> user, pass |-> pass, keep |-> keep]
           t == [s EXCEPT !.cache[id] = entry]
<1>1. entry \in Entry /\ entry.user = user /\ entry.pass = pass /\ entry.keep = keep
  BY DEF Entry
<1>2. CacheUpdate(s, id, user, pass, keep) = t
  BY DEF CacheUpdate
<1> HIDE DEF entry
<1>3. /\ t \in State /\ t.meta = s.meta /\ t.creds = s.creds /\ t.store = s.store
      /\ t.open = s.open /\ t.blobs = s.blobs
      /\ t.cache[id] = entry
      /\ \A i \in Id \ {id} : t.cache[i] = s.cache[i]
  BY <1>1 DEF State
<1> HIDE DEF t
<1>4. QED BY <1>1, <1>2, <1>3 DEF SameDatabase

\* The secrets of an identity go to the database, to the cache, or nowhere.
LEMMA SecretsStored ==
    ASSUME NEW s \in State, NEW info \in Info, NEW res, NEW f,
           res.st \in Tables, res.id \in 0..MaxId
    PROVE  LET new == StoreSecrets(s, info, res, f)
               t == new.st
           IN  /\ new.id = res.id /\ new.err = res.err
               /\ t \in State /\ t.meta = res.st /\ t.store = s.store
               /\ \/ /\ \/ res.id = NewIdentity
                        \/ f # "crash" /\ ~HasSecrets(info)
                        \/ f = "secrets" /\ HasSecrets(info) /\ info.remember /\ s.open
                     /\ NothingStored(s, t)
                  \/ /\ res.id \in Id /\ f = "crash"
                     /\ LostWithDaemon(s, t)
                  \/ /\ res.id \in Id /\ f \notin {"crash", "secrets"}
                     /\ HasSecrets(info) /\ info.remember /\ s.open
                     /\ StoredInDatabase(s, t, res.id, info.pass)
                  \/ /\ res.id \in Id /\ f # "crash"
                     /\ HasSecrets(info) /\ ~(info.remember /\ s.open)
                     /\ StoredInCache(s, t, res.id, SecretUser(info), info.pass, info.remember)
<1> DEFINE id == res.id
           updated == [s EXCEPT !.meta = res.st]
           user == SecretUser(info)
           pass == info.pass
           keep == info.remember
           crashed == Crash(updated)
           kept == SecretsUpdate(updated, id, user, pass, f)
           cached == CacheUpdate(updated, id, user, pass, keep)
           new == StoreSecrets(s, info, res, f)
<1>1. /\ updated \in State /\ updated.meta = res.st /\ updated.creds = s.creds
      /\ updated.store = s.store /\ updated.cache = s.cache /\ updated.blobs = s.blobs
      /\ updated.open = s.open
  BY DEF State
<1>2. /\ user \in User \cup {Null} /\ pass \in Pass \cup {Null} /\ keep \in BOOLEAN
  BY InfoFields DEF SecretUser
<1>3. id # NewIdentity => id \in Id
  BY DEF NewIdentity, Id
<1>4. new = [st |-> IF id = NewIdentity THEN updated
                    ELSE IF f = "crash" THEN crashed
                    ELSE IF ~HasSecrets(info) THEN updated
                    ELSE IF keep /\ s.open THEN kept ELSE cached,
             id |-> id, err |-> res.err]
  BY DEF StoreSecrets, SecretUser
<1> HIDE DEF new, updated, user, pass, keep, id
<1>5. /\ crashed \in State /\ crashed.meta = res.st /\ crashed.store = s.store
      /\ LostWithDaemon(s, crashed)
  <2>1. /\ crashed \in State /\ crashed.meta = updated.meta /\ SameDatabase(updated, crashed)
        /\ crashed.open = FALSE /\ crashed.cache = NoEntries /\ crashed.blobs = NoBlobs
    BY <1>1, CrashLeaves
  <2> HIDE DEF crashed
  <2>2. QED BY <1>1, <2>1 DEF SameDatabase, LostWithDaemon
<1>6. ASSUME id \in Id
      PROVE  /\ kept \in State /\ kept.meta = res.st /\ kept.store = s.store
             /\ f = "secrets" => NothingStored(s, kept)
             /\ f # "secrets" => StoredInDatabase(s, kept, id, pass)
  <2>1. /\ kept \in State /\ kept.meta = updated.meta /\ kept.store = updated.store
        /\ f = "secrets" => NothingStored(updated, kept)
        /\ f # "secrets" => StoredInDatabase(updated, kept, id, pass)
    BY <1>1, <1>2, <1>6, SecretsWritten
  <2> HIDE DEF kept
  <2>2. QED BY <1>1, <2>1 DEF SameCache, NothingStored, StoredInDatabase
<1>7. ASSUME id \in Id
      PROVE  /\ cached \in State /\ cached.meta = res.st /\ cached.store = s.store
             /\ StoredInCache(s, cached, id, user, pass, keep)
  <2>1. /\ cached \in State /\ cached.meta = updated.meta /\ SameDatabase(updated, cached)
        /\ cached.open = updated.open /\ cached.blobs = updated.blobs
        /\ cached.cache[id] \in Entry
        /\ cached.cache[id].user = user /\ cached.cache[id].pass = pass
        /\ cached.cache[id].keep = keep
        /\ \A i \in Id \ {id} : cached.cache[i] = updated.cache[i]
    BY <1>1, <1>2, <1>7, EntryWritten
  <2> HIDE DEF cached
  <2>2. QED BY <1>1, <2>1 DEF SameDatabase, StoredInCache
<1>8. NothingStored(s, updated)
  BY <1>1 DEF NothingStored, SameCache
<1>9. new.id = id /\ new.err = res.err
  BY <1>4
<1> HIDE DEF crashed, kept, cached
<1>10. CASE id = NewIdentity \/ (f # "crash" /\ ~HasSecrets(info))
  <2>1. new.st = updated
    BY <1>4, <1>10
  <2>2. QED BY <1>1, <1>8, <1>9, <1>10, <2>1 DEF new, id
<1>11. CASE id # NewIdentity /\ f = "crash"
  <2>1. new.st = crashed
    BY <1>4, <1>11
  <2>2. QED BY <1>3, <1>5, <1>9, <1>11, <2>1 DEF new, id
<1>12. CASE id # NewIdentity /\ f # "crash" /\ HasSecrets(info) /\ keep /\ s.open
  <2>1. new.st = kept
    BY <1>4, <1>12
  <2>2. QED BY <1>3, <1>6, <1>9, <1>12, <2>1 DEF new, id, pass, keep
<1>13. CASE id # NewIdentity /\ f # "crash" /\ HasSecrets(info) /\ ~(keep /\ s.open)
  <2>1. new.st = cached
    BY <1>4, <1>13
  <2>2. QED BY <1>3, <1>7, <1>9, <1>13, <2>1 DEF new, id, user, pass, keep
<1>14. QED BY <1>10, <1>11, <1>12, <1>13
\* What removing secrets may do.
SecretsGone(s, t, ids) ==
    /\ \A i \in Id : t.creds[i] = IF i \in ids THEN NoSecret ELSE s.creds[i]
    /\ \A x \in Id \X MethodId : t.store[x] = IF x[1] \in ids THEN Null ELSE s.store[x]

GoneOnly(s, t, ids) == SecretsGone(s, t, ids) /\ t.open = s.open /\ SameCache(s, t)

GoneWithDaemon(s, t, ids) ==
    /\ SecretsGone(s, t, ids) /\ t.open = FALSE
    /\ t.cache = NoEntries /\ t.blobs = NoBlobs

LEMMA SecretsRemoved ==
    ASSUME NEW s \in State, NEW id \in Id
    PROVE  LET t == SecretsRemove(s, id)
           IN  t \in State /\ t.meta = s.meta /\ GoneOnly(s, t, {id})
<1> DEFINE creds == [s.creds EXCEPT ![id] = NoSecret]
           store == [x \in Id \X MethodId |-> IF x[1] = id THEN Null ELSE s.store[x]]
           t == [s EXCEPT !.creds = creds, !.store = store]
<1>1. /\ creds \in [Id -> Secret \cup {NoSecret}]
      /\ \A i \in Id : creds[i] = IF i \in {id} THEN NoSecret ELSE s.creds[i]
  BY DEF State
<1>2. /\ store \in [Id \X MethodId -> Blob \cup {Null}]
      /\ \A x \in Id \X MethodId : store[x] = IF x[1] \in {id} THEN Null ELSE s.store[x]
  BY DEF State
<1>3. SecretsRemove(s, id) = t
  BY DEF SecretsRemove, State
<1> HIDE DEF creds, store
<1>4. /\ t \in State /\ t.meta = s.meta /\ t.creds = creds /\ t.store = store
      /\ t.open = s.open /\ t.cache = s.cache /\ t.blobs = s.blobs
  BY <1>1, <1>2 DEF State
<1> HIDE DEF t
<1>5. QED BY <1>1, <1>2, <1>3, <1>4 DEF GoneOnly, SecretsGone, SameCache

LEMMA SecretsCleared ==
    ASSUME NEW s \in State
    PROVE  LET t == SecretsClear(s)
           IN  t \in State /\ t.meta = s.meta /\ GoneOnly(s, t, Id)
<1> DEFINE t == [s EXCEPT !.creds = NoEntries, !.store = NoBlobs]
<1>1. /\ t \in State /\ t.meta = s.meta /\ t.creds = NoEntries /\ t.store = NoBlobs
      /\ t.open = s.open /\ t.cache = s.cache /\ t.blobs = s.blobs
  BY EntriesTyped DEF State
<1>2. SecretsClear(s) = t
  BY DEF SecretsClear
<1> HIDE DEF t
<1>3. \A x \in Id \X MethodId : x[1] \in Id
  OBVIOUS
<1>4. QED BY <1>1, <1>2, <1>3 DEF GoneOnly, SecretsGone, SameCache, NoEntries, NoBlobs

LEMMA GoneStays ==
    ASSUME NEW s, NEW t \in State, NEW ids, GoneOnly(s, t, ids), NEW meta \in Tables
    PROVE  /\ Crash(t) \in State /\ Crash(t).meta = t.meta
           /\ GoneWithDaemon(s, Crash(t), ids)
           /\ LET u == [t EXCEPT !.meta = meta]
              IN  u \in State /\ u.meta = meta /\ GoneOnly(s, u, ids)
<1> DEFINE dead == Crash(t)
           u == [t EXCEPT !.meta = meta]
<1>1. /\ dead \in State /\ dead.meta = t.meta /\ SameDatabase(t, dead)
      /\ dead.open = FALSE /\ dead.cache = NoEntries /\ dead.blobs = NoBlobs
  BY CrashLeaves
<1>2. /\ u \in State /\ u.meta = meta /\ u.creds = t.creds /\ u.store = t.store
      /\ u.open = t.open /\ u.cache = t.cache /\ u.blobs = t.blobs
  BY DEF State
<1> HIDE DEF dead, u
<1>3. GoneWithDaemon(s, dead, ids)
  BY <1>1 DEF GoneWithDaemon, GoneOnly, SecretsGone, SameDatabase
<1>4. GoneOnly(s, u, ids)
  BY <1>2 DEF GoneOnly, SecretsGone, SameCache
<1>5. QED BY <1>1, <1>2, <1>3, <1>4 DEF dead, u

\* The secrets go first, the metadata in a transaction of its own.
LEMMA CredentialsRemoved ==
    ASSUME NEW s \in State, Coherent(s.meta), NEW id \in Id, NEW f
    PROVE  LET res == RemoveCredentials(s, id, f)
               meta == RemoveIdentity(s.meta, id, f)
           IN  /\ res.st \in State /\ res.ok \in BOOLEAN
               /\ \/ (~s.open \/ f = "secrets") /\ res.st = s /\ ~res.ok
                  \/ /\ s.open /\ f = "crash"
                     /\ res.st.meta = s.meta /\ ~res.ok
                     /\ GoneWithDaemon(s, res.st, {id})
                  \/ /\ s.open /\ f \notin {"crash", "secrets"}
                     /\ res.st.meta = meta.st /\ res.ok = meta.ok
                     /\ GoneOnly(s, res.st, {id})
<1> DEFINE removed == SecretsRemove(s, id)
           meta == RemoveIdentity(s.meta, id, f)
           done == [removed EXCEPT !.meta = meta.st]
           res == RemoveCredentials(s, id, f)
<1>1. removed \in State /\ removed.meta = s.meta /\ GoneOnly(s, removed, {id})
  BY SecretsRemoved
<1>2. s.meta \in Tables
  BY DEF State
<1>3. meta.st \in Tables /\ meta.ok \in BOOLEAN
  BY <1>2, IdentityRemoved
<1>4. meta = [st |-> meta.st, ok |-> meta.ok, err |-> meta.err]
  BY DEF RemoveIdentity, TransactionalExec, Failed, Done
<1> HIDE DEF removed, meta
<1>5. /\ Crash(removed) \in State /\ Crash(removed).meta = s.meta
      /\ GoneWithDaemon(s, Crash(removed), {id})
      /\ done \in State /\ done.meta = meta.st /\ GoneOnly(s, done, {id})
  BY <1>1, <1>3, GoneStays
<1>6. \/ (~s.open \/ f = "secrets") /\ res.st = s /\ res.ok = FALSE
      \/ s.open /\ f = "crash" /\ res.st = Crash(removed) /\ res.ok = FALSE
      \/ s.open /\ f \notin {"crash", "secrets"} /\ res.st = done /\ res.ok = meta.ok
  BY <1>4 DEF RemoveCredentials, NoSecretsDB, removed, meta
<1> HIDE DEF done, res
<1>7. QED BY <1>3, <1>5, <1>6 DEF res, meta

LEMMA CredentialsCleared ==
    ASSUME NEW s \in State, Coherent(s.meta), NEW f
    PROVE  LET res == ClearCredentials(s, f)
               meta == ClearMetaData(s.meta, f)
           IN  /\ res.st \in State
               /\ \/ (~s.open \/ f = "secrets") /\ res.st = s
                  \/ /\ s.open /\ f = "crash"
                     /\ res.st.meta = s.meta
                     /\ GoneWithDaemon(s, res.st, Id)
                  \/ /\ s.open /\ f \notin {"crash", "secrets"}
                     /\ res.st.meta = meta.st
                     /\ GoneOnly(s, res.st, Id)
<1> DEFINE cleared == SecretsClear(s)
           meta == ClearMetaData(s.meta, f)
           done == [cleared EXCEPT !.meta = meta.st]
           res == ClearCredentials(s, f)
<1>1. cleared \in State /\ cleared.meta = s.meta /\ GoneOnly(s, cleared, Id)
  BY SecretsCleared
<1>2. s.meta \in Tables
  BY DEF State
<1>3. meta.st \in Tables
  BY <1>2, TablesCleared
<1>4. meta = [st |-> meta.st, ok |-> meta.ok, err |-> meta.err]
  BY DEF ClearMetaData, TransactionalExec, Failed, Done
<1> HIDE DEF cleared, meta
<1>5. /\ Crash(cleared) \in State /\ Crash(cleared).meta = s.meta
      /\ GoneWithDaemon(s, Crash(cleared), Id)
      /\ done \in State /\ done.meta = meta.st /\ GoneOnly(s, done, Id)
  BY <1>1, <1>3, GoneStays
<1>6. \/ (~s.open \/ f = "secrets") /\ res.st = s
      \/ s.open /\ f = "crash" /\ res.st = Crash(cleared)
      \/ s.open /\ f \notin {"crash", "secrets"} /\ res.st = done
  BY <1>4 DEF ClearCredentials, NoSecretsDB, cleared, meta
<1> HIDE DEF done, res
<1>7. QED BY <1>3, <1>5, <1>6 DEF res, meta
\* What storing and removing the data of a method may do.
DataStored(s, t, x, data) ==
    /\ NothingStored(s, t)
    /\ t.store[x] = data
    /\ \A y \in (Id \X MethodId) \ {x} : t.store[y] = s.store[y]

DataCached(s, t, x, data) ==
    /\ t.open = s.open /\ SameDatabase(s, t)
    /\ t.blobs[x] = data
    /\ \A y \in (Id \X MethodId) \ {x} : t.blobs[y] = s.blobs[y]
    /\ \A i \in Id : i # x[1] \/ s.cache[i] # NoSecret => t.cache[i] = s.cache[i]
    /\ s.cache[x[1]] = NoSecret => /\ t.cache[x[1]] \in Entry
                                   /\ t.cache[x[1]].pass = Null

DataGone(s, t, id, ns) ==
    /\ NothingStored(s, t)
    /\ \A y \in Id \X MethodId :
          t.store[y] = IF y[1] = id /\ y[2] \in ns THEN Null ELSE s.store[y]

LEMMA BlobStored ==
    ASSUME NEW s \in State, NEW id \in Id, NEW n \in MethodId, NEW data \in Blob, NEW f
    PROVE  LET res == SecretsStoreData(s, id, n, data, f)
           IN  /\ res.st \in State /\ res.st.meta = s.meta
               /\ \/ /\ f = "secrets" \/ data \in Huge
                     /\ res.st = s /\ ~res.ok
                  \/ /\ data \notin Huge
                     /\ res.ok /\ DataStored(s, res.st, <<id, n>>, data)
<1> DEFINE x == <<id, n>>
           t == [s EXCEPT !.store[x] = data]
           res == SecretsStoreData(s, id, n, data, f)
<1>1. x \in Id \X MethodId
  OBVIOUS
<1>2. \/ (f = "secrets" \/ data \in Huge) /\ res.st = s /\ res.ok = FALSE
      \/ data \notin Huge /\ res.st = t /\ res.ok = TRUE
  BY DEF SecretsStoreData
<1> HIDE DEF x, res
<1>3. /\ t \in State /\ t.meta = s.meta /\ t.creds = s.creds /\ t.open = s.open
      /\ t.cache = s.cache /\ t.blobs = s.blobs
      /\ t.store[x] = data
      /\ \A y \in (Id \X MethodId) \ {x} : t.store[y] = s.store[y]
  BY <1>1 DEF State
<1> HIDE DEF t
<1>4. DataStored(s, t, x, data)
  BY <1>3 DEF DataStored, NothingStored, SameCache
<1>5. QED BY <1>2, <1>3, <1>4 DEF res, x

LEMMA BlobCached ==
    ASSUME NEW s \in State, NEW id \in Id, NEW n \in MethodId, NEW data \in Blob
    PROVE  LET t == CacheData(s, id, n, data)
           IN  t \in State /\ t.meta = s.meta /\ DataCached(s, t, <<id, n>>, data)
<1> DEFINE x == <<id, n>>
           entry == IF s.cache[id] = NoSecret
                    THEN [user |-> Null, pass |-> Null, keep |-> FALSE] ELSE s.cache[id]
           t == [s EXCEPT !.blobs[x] = data, !.cache[id] = entry]
<1>1. x \in Id \X MethodId /\ x[1] = id
  OBVIOUS
<1>2. /\ entry \in Entry \cup {NoSecret}
      /\ s.cache[id] = NoSecret => entry \in Entry /\ entry.pass = Null
      /\ s.cache[id] # NoSecret => entry = s.cache[id]
  BY DEF State, Entry
<1>3. CacheData(s, id, n, data) = t
  BY DEF CacheData, State
<1> HIDE DEF x, entry
<1>4. /\ t \in State /\ t.meta = s.meta /\ t.creds = s.creds /\ t.open = s.open
      /\ t.store = s.store
      /\ t.blobs[x] = data
      /\ \A y \in (Id \X MethodId) \ {x} : t.blobs[y] = s.blobs[y]
      /\ t.cache[id] = entry
      /\ \A i \in Id \ {id} : t.cache[i] = s.cache[i]
  BY <1>1, <1>2 DEF State
<1> HIDE DEF t
<1>5. DataCached(s, t, x, data)
  BY <1>1, <1>2, <1>4 DEF DataCached, SameDatabase
<1>6. QED BY <1>3, <1>4, <1>5 DEF x

\* storeData(), once the method has its number n.
LEMMA DataOutcome ==
    ASSUME NEW s \in State, Coherent(s.meta), NEW id \in Id, NEW m \in Method,
           NEW data \in Blob, NEW f,
           InsertMethods(s.meta, {m}).nextMethod <= MaxMethodId + 1
    PROVE  LET res == StoreData(s, id, m, data, f)
               meta == InsertMethods(s.meta, {m})
               x == <<id, meta.methods[m]>>
               t == res.st
           IN  /\ t \in State
               /\ meta.methods[m] \in MethodId
               /\ \/ f = "exec" /\ t = s /\ ~res.ok
                  \/ /\ f = "crash" /\ ~res.ok
                     /\ t.meta = meta /\ t.store = s.store /\ LostWithDaemon(s, t)
                  \/ /\ f # "crash" /\ s.open /\ ~res.ok
                     /\ t.meta = meta /\ t.store = s.store /\ NothingStored(s, t)
                  \/ /\ f # "crash" /\ s.open /\ res.ok
                     /\ data \notin Huge
                     /\ t.meta = meta /\ DataStored(s, t, x, data)
                  \/ /\ f # "crash" /\ ~s.open /\ res.ok
                     /\ t.meta = meta /\ DataCached(s, t, x, data)
<1> DEFINE meta == InsertMethods(s.meta, {m})
           n == meta.methods[m]
           x == <<id, n>>
           named == [s EXCEPT !.meta = meta]
           crashed == Crash(named)
           kept == SecretsStoreData(named, id, n, data, f)
           cached == CacheData(named, id, n, data)
           res == StoreData(s, id, m, data, f)
<1>1. s.meta \in Tables /\ {m} \in SUBSET Method
  BY DEF State
<1>2. meta \in Tables /\ n # 0
  BY <1>1, MethodsNumbered
<1> HIDE DEF meta
<1>3. n \in MethodId
  BY <1>2 DEF Tables, MethodId
<1> HIDE DEF n
<1>4. /\ named \in State /\ named.meta = meta /\ named.creds = s.creds
      /\ named.store = s.store /\ named.cache = s.cache /\ named.blobs = s.blobs
      /\ named.open = s.open
  BY <1>2 DEF State
<1>5. \/ f = "exec" /\ res.st = s /\ res.ok = FALSE
      \/ f = "crash" /\ res.st = crashed /\ res.ok = FALSE
      \/ f # "crash" /\ s.open /\ res = kept
      \/ f # "crash" /\ ~s.open /\ res.st = cached /\ res.ok = TRUE
  BY DEF StoreData, meta, n
<1> HIDE DEF named, res
<1>6. /\ crashed \in State /\ crashed.meta = meta /\ crashed.store = s.store
      /\ LostWithDaemon(s, crashed)
  <2>1. /\ crashed \in State /\ crashed.meta = named.meta /\ SameDatabase(named, crashed)
        /\ crashed.open = FALSE /\ crashed.cache = NoEntries /\ crashed.blobs = NoBlobs
    BY <1>4, CrashLeaves
  <2> HIDE DEF crashed
  <2>2. QED BY <1>4, <2>1 DEF SameDatabase, LostWithDaemon
<1>7. /\ kept.st \in State /\ kept.st.meta = meta
      /\ \/ kept.st.store = s.store /\ NothingStored(s, kept.st) /\ ~kept.ok
         \/ data \notin Huge /\ kept.ok /\ DataStored(s, kept.st, x, data)
  <2>1. /\ kept.st \in State /\ kept.st.meta = named.meta
        /\ \/ /\ f = "secrets" \/ data \in Huge
              /\ kept.st = named /\ ~kept.ok
           \/ data \notin Huge /\ kept.ok /\ DataStored(named, kept.st, x, data)
    BY <1>3, <1>4, BlobStored
  <2> HIDE DEF kept, x
  <2>2. NothingStored(s, named)
    BY <1>4 DEF NothingStored, SameCache
  <2>3. ASSUME DataStored(named, kept.st, x, data)
        PROVE  DataStored(s, kept.st, x, data)
    BY <1>4, <2>3 DEF DataStored, NothingStored, SameCache
  <2>4. QED BY <1>4, <2>1, <2>2, <2>3
<1>8. cached \in State /\ cached.meta = meta /\ DataCached(s, cached, x, data)
  <2>1. cached \in State /\ cached.meta = named.meta /\ DataCached(named, cached, x, data)
    BY <1>3, <1>4, BlobCached
  <2> HIDE DEF cached, x
  <2>2. QED BY <1>4, <2>1 DEF DataCached, SameDatabase
<1> HIDE DEF crashed, kept, cached, x
<1>9. QED BY <1>3, <1>5, <1>6, <1>7, <1>8, <1>1, <1>4 DEF res, x, n, meta

LEMMA DataRemoved ==
    ASSUME NEW s \in State, NEW id \in Id, NEW m \in Method \cup {Null}, NEW f
    PROVE  LET res == RemoveData(s, id, m, f)
               t == res.st
               ns == IF m = Null THEN MethodId ELSE {MethodIdOf(s.meta, m)}
           IN  /\ t \in State
               /\ \/ ~res.ok /\ t = s
                  \/ /\ res.ok /\ s.open
                     /\ t.meta = s.meta /\ DataGone(s, t, id, ns)
<1> DEFINE n == IF m = Null THEN 0 ELSE MethodIdOf(s.meta, m)
           ns == IF m = Null THEN MethodId ELSE {MethodIdOf(s.meta, m)}
           store == [x \in Id \X MethodId |-> IF x[1] = id /\ n \in {0, x[2]}
                                              THEN Null ELSE s.store[x]]
           t == [s EXCEPT !.store = store]
           res == RemoveData(s, id, m, f)
<1>1. \/ res.ok = FALSE /\ res.st = s
      \/ res.ok = TRUE /\ s.open /\ res.st = t /\ (m = Null \/ n # 0)
  BY DEF RemoveData, SecretsRemoveData, State
<1>2. ASSUME m = Null \/ n # 0
      PROVE  \A x \in Id \X MethodId : (n \in {0, x[2]}) <=> (x[2] \in ns)
  BY <1>2
<1>3. store \in [Id \X MethodId -> Blob \cup {Null}]
  BY DEF State
<1> HIDE DEF ns, n, res
<1>4. ASSUME m = Null \/ n # 0
      PROVE  \A y \in Id \X MethodId :
                store[y] = IF y[1] = id /\ y[2] \in ns THEN Null ELSE s.store[y]
  BY <1>2, <1>4
<1> HIDE DEF store
<1>5. /\ t \in State /\ t.meta = s.meta /\ t.creds = s.creds /\ t.store = store
      /\ t.open = s.open /\ t.cache = s.cache /\ t.blobs = s.blobs
  BY <1>3 DEF State
<1> HIDE DEF t
<1>6. CASE res.ok = FALSE /\ res.st = s
  BY <1>6 DEF res
<1>7. CASE res.ok = TRUE /\ s.open /\ res.st = t /\ (m = Null \/ n # 0)
  <2>1. DataGone(s, t, id, ns)
    BY <1>4, <1>5, <1>7 DEF DataGone, NothingStored, SameCache
  <2>2. QED BY <1>5, <1>7, <2>1 DEF res, ns
<1>8. QED BY <1>1, <1>6, <1>7
-----------------------------------------------------------------------------
(* The secrets database comes and goes *)

\* What of the cache is written back when it is opened.
WritesBack(s, lost, i) ==
    i \notin lost /\ s.cache[i] # NoSecret /\ Written(s.cache[i]) # [user |-> Null, pass |-> Null]
WritesDataBack(s, lost, x) ==
    x[1] \notin lost /\ s.cache[x[1]] # NoSecret /\ s.blobs[x] \notin Huge \cup {Null}

Opened(s, t, lost) ==
    /\ t.open = TRUE /\ t.cache = NoEntries /\ t.blobs = NoBlobs
    /\ \A i \in Id : /\ WritesBack(s, lost, i) => t.creds[i] = Written(s.cache[i])
                     /\ ~WritesBack(s, lost, i) => t.creds[i] = s.creds[i]
    /\ \A x \in Id \X MethodId :
          t.store[x] = IF WritesDataBack(s, lost, x) THEN s.blobs[x] ELSE s.store[x]

LEMMA EntryIsWritten ==
    \A e \in Entry : Written(e) \in Secret /\ Written(e).pass \in {e.pass, Null}
                     /\ (e.keep => Written(e).pass = e.pass)
                     /\ (~e.keep => Written(e).pass = Null)
<1> SUFFICES ASSUME NEW e \in Entry
             PROVE  /\ Written(e) \in Secret /\ Written(e).pass \in {e.pass, Null}
                    /\ e.keep => Written(e).pass = e.pass
                    /\ ~e.keep => Written(e).pass = Null
  OBVIOUS
<1>1. e.user \in User \cup {Null} /\ e.pass \in Pass \cup {Null}
  BY DEF Entry
<1>2. (IF e.keep THEN e.pass ELSE Null) \in Pass \cup {Null}
  BY <1>1
<1>3. QED BY <1>1, <1>2 DEF Written, Secret

\* openSecretsDB(): what was in the cache is in the database then, but for the
\* entries whose storing failed; or the database is not there.
LEMMA DatabaseOpened ==
    ASSUME NEW s \in State, NEW lost, NEW f
    PROVE  LET t == OpenSecretsDB(s, lost, f)
           IN  /\ t \in State /\ t.meta = s.meta
               /\ f # "secrets" => Opened(s, t, lost)
               /\ f = "secrets" => /\ t.open = FALSE
                                   /\ SameDatabase(s, t) /\ SameCache(s, t)
<1> DEFINE opened == [s EXCEPT !.open = f # "secrets"]
           creds == [i \in Id |-> IF WritesBack(s, lost, i) THEN Written(s.cache[i])
                                  ELSE s.creds[i]]
           store == [x \in Id \X MethodId |-> IF WritesDataBack(s, lost, x) THEN s.blobs[x]
                                              ELSE s.store[x]]
           t == OpenSecretsDB(s, lost, f)
<1>1. /\ opened \in State /\ opened.meta = s.meta /\ SameDatabase(s, opened)
      /\ SameCache(s, opened)
      /\ opened.open = (f # "secrets")
  <2>1. (f # "secrets") \in BOOLEAN
    OBVIOUS
  <2>2. QED BY <2>1 DEF State, SameDatabase, SameCache
<1>2. creds \in [Id -> Secret \cup {NoSecret}]
  <2> SUFFICES ASSUME NEW i \in Id, WritesBack(s, lost, i)
               PROVE  Written(s.cache[i]) \in Secret
    BY DEF State
  <2>1. s.cache[i] \in Entry
    BY DEF State, WritesBack
  <2>2. QED BY <2>1, EntryIsWritten
<1>3. store \in [Id \X MethodId -> Blob \cup {Null}]
  BY DEF State
<1>4. StoreToDB(opened, lost) = [opened EXCEPT !.creds = creds, !.store = store]
  BY <1>1 DEF StoreToDB, WritesBack, WritesDataBack, SameDatabase, SameCache
<1>5. t = IF opened.open THEN ClearCache(StoreToDB(opened, lost)) ELSE opened
  BY DEF OpenSecretsDB, Initialize
<1>6. /\ \A i \in Id : /\ WritesBack(s, lost, i) => creds[i] = Written(s.cache[i])
                       /\ ~WritesBack(s, lost, i) => creds[i] = s.creds[i]
      /\ \A x \in Id \X MethodId :
            store[x] = IF WritesDataBack(s, lost, x) THEN s.blobs[x] ELSE s.store[x]
  OBVIOUS
<1> HIDE DEF opened, creds, store, t
<1>7. CASE f = "secrets"
  <2>1. t = opened
    BY <1>1, <1>5, <1>7
  <2>2. QED BY <1>1, <1>7, <2>1 DEF t
<1>8. CASE f # "secrets"
  <2> DEFINE new == [[opened EXCEPT !.creds = creds, !.store = store]
                        EXCEPT !.cache = NoEntries, !.blobs = NoBlobs]
  <2>1. t = new
    BY <1>1, <1>4, <1>5, <1>8 DEF ClearCache
  <2>2. /\ new \in State /\ new.meta = s.meta /\ new.creds = creds /\ new.store = store
        /\ new.cache = NoEntries /\ new.blobs = NoBlobs /\ new.open = TRUE
    BY <1>1, <1>2, <1>3, <1>8, EntriesTyped DEF State
  <2> HIDE DEF new
  <2>3. Opened(s, t, lost)
    BY <1>6, <2>1, <2>2 DEF Opened
  <2>4. QED BY <1>8, <2>1, <2>2, <2>3 DEF t
<1>9. QED BY <1>7, <1>8

LEMMA DatabaseClosed ==
    ASSUME NEW s \in State
    PROVE  LET t == CloseStorage(s)
           IN  /\ t \in State /\ t.meta = s.meta /\ t.open = FALSE
               /\ SameDatabase(s, t) /\ SameCache(s, t)
BY DEF CloseStorage, State, SameDatabase, SameCache

\* A new state of the secrets: nothing is known, or there.
LEMMA NewStateTyped ==
    ASSUME NEW d \in Tables
    PROVE  LET t == NewState(d)
           IN  /\ t \in State /\ t.meta = d /\ t.open = FALSE
               /\ t.creds = NoEntries /\ t.store = NoBlobs
               /\ t.cache = NoEntries /\ t.blobs = NoBlobs
BY EntriesTyped DEF NewState, State

\* Another state of the tables leaves the secrets.
LEMMA TablesReplaced ==
    ASSUME NEW s \in State, NEW d \in Tables
    PROVE  LET t == [s EXCEPT !.meta = d]
           IN  /\ t \in State /\ t.meta = d /\ t.open = s.open
               /\ SameDatabase(s, t) /\ SameCache(s, t)
BY DEF State, SameDatabase, SameCache
\* What updateIdentity() does to the rows and the next number.
LEMMA RowsUpdated ==
    ASSUME NEW d \in Tables, Coherent(d), NEW info \in Info, NEW f,
           info.id = NewIdentity => d.nextId \in Id,
           InsertMethods(d, DOMAIN info.methods).nextMethod <= MaxMethodId + 1
    PROVE  LET res == UpdateIdentity(d, info, f)
               t == res.st
           IN  /\ d.nextId <= t.nextId
               /\ res.id \in Id => /\ res.id = StoredId(d, info)
                                   /\ info.id = NewIdentity => t.nextId = res.id + 1
               /\ \A i \in Id \ {res.id} : t.rows[i] = d.rows[i]
               /\ res.id \in Id /\ Exists(t, res.id) =>
                     /\ t.rows[res.id].remember = info.remember
                     /\ info.id = NewIdentity \/ Exists(d, res.id)
<1> DEFINE res == UpdateIdentity(d, info, f)
           t == res.st
           id == StoredId(d, info)
           row == UpdateRow(d, id, info)
<1>1. /\ res.id \in {NewIdentity, id}
      /\ res.id = NewIdentity => t = d \/ t = [d EXCEPT !.owner = t.owner]
      /\ res.id # NewIdentity =>
            /\ t = UpdateLists(row, id, info, f)
            /\ InsertMethods(row, DOMAIN info.methods).nextMethod <= MaxMethodId + 1
  BY IdentityUpdated
<1>2. id \in Id /\ Coherent(row)
  BY RowKeepsCoherence
<1>3. d.nextId \in Nat /\ MaxId \in Nat
  BY MaxIdAssumption DEF Tables
<1>4. /\ row \in Tables
      /\ info.id = NewIdentity => row.nextId = id + 1
      /\ info.id # NewIdentity => row.nextId = d.nextId
      /\ \A i \in Id \ {id} : row.rows[i] = d.rows[i]
      /\ Exists(row, id) <=> info.id = NewIdentity \/ Exists(d, id)
      /\ Exists(row, id) =>
            row.rows[id] = [user |-> IF info.secretName THEN Null ELSE info.user,
                            remember |-> info.remember, secretName |-> info.secretName]
  BY <1>2, RowUpdated
<1>5. info.id = NewIdentity => id = d.nextId
  BY DEF StoredId
<1> HIDE DEF res, id, row
<1>6. CASE res.id = NewIdentity
  <2>1. t.rows = d.rows /\ t.nextId = d.nextId
    BY <1>1, <1>6 DEF Tables
  <2> HIDE DEF t
  <2>2. res.id \notin Id
    BY <1>6 DEF Id, NewIdentity
  <2>3. QED BY <1>3, <2>1, <2>2 DEF t, res
<1>7. CASE res.id # NewIdentity
  <2>1. t.rows = row.rows /\ t.nextId = row.nextId
    BY <1>1, <1>2, <1>4, <1>7, ListsUpdated
  <2>2. res.id = id
    BY <1>1, <1>7
  <2> HIDE DEF t
  <2>3. d.nextId <= t.nextId
    BY <1>2, <1>3, <1>4, <1>5, <2>1 DEF Id
  <2>4. \A i \in Id \ {id} : t.rows[i] = d.rows[i]
    BY <1>4, <2>1
  <2>5. Exists(t, id) => t.rows[id].remember = info.remember
                         /\ (info.id = NewIdentity \/ Exists(d, id))
    BY <1>4, <2>1 DEF Exists
  <2>6. info.id = NewIdentity => t.nextId = id + 1
    BY <1>4, <2>1
  <2>7. QED BY <2>2, <2>3, <2>4, <2>5, <2>6 DEF t, res, id
<1>8. QED BY <1>6, <1>7
-----------------------------------------------------------------------------
(* What is read of an identity *)

LEMMA IdentityRead ==
    ASSUME NEW d \in Tables, NEW id \in Id, Exists(d, id)
    PROVE  LET i == Identity(d, id)
           IN  /\ i.id = id /\ i.user = d.rows[id].user
               /\ i.remember = d.rows[id].remember /\ i.secretName = d.rows[id].secretName
               /\ i.methods = [m \in Methods(d, id, Null) |-> MechanismsOf(d, id, m)]
               /\ i.acl = AccessControlList(d, id) /\ i.owners = OwnerList(d, id)
               /\ i.realms = {r \in Realm : <<id, r>> \in d.realms}
BY DEF Identity, NoInfo

\* The rows of an identity, of which t may have more tokens and methods around.
SameRowsOf(d, t, id) ==
    /\ t.rows[id] = d.rows[id]
    /\ \A a : a[1] = id => (a \in t.acl <=> a \in d.acl)
    /\ \A o : o[1] = id => (o \in t.owner <=> o \in d.owner)
    /\ \A x : x[1] = id => (x \in t.realms <=> x \in d.realms)
    /\ d.mechs \subseteq t.mechs /\ d.tokens \subseteq t.tokens
    /\ \A m \in Method : d.methods[m] # 0 => t.methods[m] # 0

\* They are read as before: the tokens and the methods they name were there.
LEMMA IdentityKept ==
    ASSUME NEW d \in Tables, Coherent(d), NEW t \in Tables, NEW id \in Id,
           Exists(t, id), SameRowsOf(d, t, id)
    PROVE  Exists(d, id) /\ Identity(t, id) = Identity(d, id)
<1>1. Exists(d, id)
  BY DEF Exists, SameRowsOf
<1>2. {a \in t.acl : a[1] = id} = {a \in d.acl : a[1] = id}
  BY DEF SameRowsOf
<1>3. {o \in t.owner : o[1] = id} = {o \in d.owner : o[1] = id}
  BY DEF SameRowsOf
<1>4. AccessControlList(t, id) = AccessControlList(d, id)
  <2>1. \A a \in d.acl : a[4] \in t.tokens => a[4] \in d.tokens
    BY NullAssumption DEF Coherent, Tables
  <2>2. QED BY <1>2, <2>1 DEF AccessControlList, SameRowsOf
<1>5. OwnerList(t, id) = OwnerList(d, id)
  <2>1. \A o \in d.owner : o[2] \in t.tokens => o[2] \in d.tokens
    BY NullAssumption DEF Coherent, Tables
  <2>2. QED BY <1>3, <2>1 DEF OwnerList, SameRowsOf
<1>6. Methods(t, id, Null) = Methods(d, id, Null)
  <2>1. \A a \in d.acl : a[2] \in Method => d.methods[a[2]] # 0
    BY NullAssumption DEF Coherent
  <2>2. QED BY <1>2, <2>1 DEF Methods, SameRowsOf
<1>7. \A m : MechanismsOf(t, id, m) = MechanismsOf(d, id, m)
  <2> SUFFICES ASSUME NEW m PROVE MechanismsOf(t, id, m) = MechanismsOf(d, id, m)
    OBVIOUS
  <2>1. {a \in t.acl : a[1] = id /\ a[2] = m} = {a \in d.acl : a[1] = id /\ a[2] = m}
    BY <1>2
  <2>2. \A a \in d.acl : a[3] \in t.mechs => a[3] \in d.mechs
    BY NullAssumption DEF Coherent, Tables
  <2>3. QED BY <2>1, <2>2 DEF MechanismsOf, SameRowsOf
<1>8. \A r \in Realm : <<id, r>> \in t.realms <=> <<id, r>> \in d.realms
  BY DEF SameRowsOf
<1>9. {r \in Realm : <<id, r>> \in t.realms} = {r \in Realm : <<id, r>> \in d.realms}
  BY <1>8
<1>10. t.rows[id] = d.rows[id]
  BY DEF SameRowsOf
<1>11. QED BY <1>1, <1>4, <1>5, <1>6, <1>7, <1>9, <1>10 DEF Identity

\* The rows of ACL hold all of what an identity may be used with, and no more.
LEMMA AclRowsWhole ==
    ASSUME NEW id \in Id, NEW info \in Info
    PROVE  /\ \A m \in DOMAIN info.methods : \E a \in AclRows(id, info) : a[2] = m
           /\ \A m \in DOMAIN info.methods : \A k \in info.methods[m] :
                 \E a \in AclRows(id, info) : a[2] = m /\ a[3] = k
           /\ \A a \in AclRows(id, info), m \in DOMAIN info.methods :
                 a[2] = m => a[3] \in info.methods[m] \cup {Null}
           /\ \A t \in info.acl : \E a \in AclRows(id, info) : a[4] = t
<1> DEFINE OrNull(set) == IF set = {} THEN {Null} ELSE set
           ms == DOMAIN info.methods
           rows(m) == {<<id, m, k, t>> : k \in OrNull(info.methods[m]), t \in OrNull(info.acl)}
<1>1. ms \in SUBSET Method /\ Null \notin Method
  BY InfoFields, NullAssumption
<1>2. CASE ms = {}
  <2>1. AclRows(id, info) = {<<id, Null, Null, t>> : t \in info.acl}
    BY <1>2 DEF AclRows
  <2>2. ASSUME NEW t \in info.acl PROVE \E a \in AclRows(id, info) : a[4] = t
    <3>1. <<id, Null, Null, t>> \in AclRows(id, info)
      BY <2>1
    <3>2. QED BY <3>1
  <2>3. QED BY <1>2, <2>2
<1>3. CASE ms # {}
  <2>1. AclRows(id, info) = UNION {rows(m) : m \in ms}
    BY <1>3 DEF AclRows
  <2>2. \A set : OrNull(set) # {} /\ set \subseteq OrNull(set)
                 /\ OrNull(set) \subseteq set \cup {Null}
    OBVIOUS
  <2>3. \A m, k, t : k \in OrNull(info.methods[m]) /\ t \in OrNull(info.acl)
                        => <<id, m, k, t>> \in rows(m)
    OBVIOUS
  <2>4. \A m \in ms : \A a \in rows(m) : a[2] = m /\ a[3] \in OrNull(info.methods[m])
    OBVIOUS
  <2> HIDE DEF OrNull, rows
  <2>5. ASSUME NEW m \in ms, NEW k \in OrNull(info.methods[m]), NEW t \in OrNull(info.acl)
        PROVE  \E a \in AclRows(id, info) : a[2] = m /\ a[3] = k /\ a[4] = t
    <3>1. <<id, m, k, t>> \in AclRows(id, info)
      BY <2>1, <2>3
    <3>2. QED BY <3>1
  <2>6. PICK t0 : t0 \in OrNull(info.acl)
    BY <2>2
  <2>7. \A m \in ms : \E k : k \in OrNull(info.methods[m])
    BY <2>2
  <2>8. \A m \in ms : \E a \in AclRows(id, info) : a[2] = m
    BY <2>5, <2>6, <2>7
  <2>9. \A m \in ms : \A k \in info.methods[m] :
           \E a \in AclRows(id, info) : a[2] = m /\ a[3] = k
    BY <2>2, <2>5, <2>6
  <2>10. \A a \in AclRows(id, info), m \in ms : a[2] = m => a[3] \in info.methods[m] \cup {Null}
    <3> SUFFICES ASSUME NEW a \in AclRows(id, info), NEW m \in ms, a[2] = m
                 PROVE  a[3] \in info.methods[m] \cup {Null}
      OBVIOUS
    <3>1. PICK n \in ms : a \in rows(n)
      BY <2>1
    <3>2. QED BY <2>2, <2>4, <3>1
  <2>11. \A t \in info.acl : \E a \in AclRows(id, info) : a[4] = t
    BY <1>3, <2>2, <2>5, <2>7
  <2>12. QED BY <2>8, <2>9, <2>10, <2>11
<1>4. QED BY <1>2, <1>3
\* The statements that are not looked at insert what was to be inserted, when they
\* do not fail.
LEMMA AclInsertedWhole ==
    ASSUME NEW d \in Tables, Coherent(d), NEW info \in Info, NEW id \in Id,
           NEW f, f \notin Unchecked,
           InsertMethods(d, DOMAIN info.methods).nextMethod <= MaxMethodId + 1
    PROVE  LET named == NamesInserted(d, info, f)
           IN  /\ AclInserted(named, id, info, f) = AclRows(id, info)
               /\ OwnerInserted(named, id, info, f) = {<<id, x>> : x \in info.owners}
<1> DEFINE named == NamesInserted(d, info, f)
<1>1. /\ named \in Tables
      /\ f # "method" => \A m \in DOMAIN info.methods : named.methods[m] # 0
      /\ f # "mechanism" => MechanismsNamed(info) \subseteq named.mechs
      /\ f # "token" => info.acl \cup info.owners \subseteq named.tokens
  BY NamesAdded
<1> DEFINE there == {m \in Method : named.methods[m] # 0}
           rows == AclRows(id, info)
<1> HIDE DEF named
<1>2. f \notin {"method", "mechanism", "token", "acl", "owner"}
  BY DEF Unchecked
<1>3. DOMAIN info.methods \in SUBSET Method
  BY InfoFields
<1>4. ASSUME NEW a \in rows
      PROVE  /\ a = <<id, a[2], a[3], a[4]>>
             /\ Selected(a[2], there) = a[2] /\ Selected(a[3], named.mechs) = a[3]
             /\ Selected(a[4], named.tokens) = a[4]
  <2>1. /\ a \in Id \X (Method \cup {Null}) \X (Mechanism \cup {Null}) \X (Token \cup {Null})
        /\ a[1] = id /\ a[2] \in DOMAIN info.methods \cup {Null}
        /\ a[3] \in MechanismsNamed(info) \cup {Null}
        /\ a[4] \in info.acl \cup {Null}
    BY AclRowsTyped
  <2>2. a[2] \in there \cup {Null}
    <3>1. a[2] \in DOMAIN info.methods => named.methods[a[2]] # 0 /\ a[2] \in Method
      BY <1>1, <1>2, <1>3
    <3>2. QED BY <2>1, <3>1
  <2>3. a[3] \in named.mechs \cup {Null} /\ a[4] \in named.tokens \cup {Null}
    BY <1>1, <1>2, <2>1
  <2>4. a = <<id, a[2], a[3], a[4]>>
    BY <2>1
  <2>5. QED BY <2>2, <2>3, <2>4 DEF Selected
<1>5. AclInserted(named, id, info, f)
         = {<<id, Selected(a[2], there), Selected(a[3], named.mechs),
              Selected(a[4], named.tokens)>> : a \in rows}
  BY <1>2 DEF AclInserted
<1> HIDE DEF there, rows
<1>6. AclInserted(named, id, info, f) = rows
  BY <1>4, <1>5
<1>7. \A x \in info.owners : Selected(x, named.tokens) = x
  BY <1>1, <1>2 DEF Selected
<1>8. OwnerInserted(named, id, info, f) = {<<id, x>> : x \in info.owners}
  BY <1>2, <1>7 DEF OwnerInserted
<1>9. QED BY <1>6, <1>8 DEF named, rows

\* updateIdentity() writes what identity() reads.
LEMMA IdentityWritten ==
    ASSUME NEW d \in Tables, Coherent(d), NEW info \in Info, NEW id \in Id,
           Exists(d, id), NEW f, f \notin Unchecked,
           InsertMethods(d, DOMAIN info.methods).nextMethod <= MaxMethodId + 1
    PROVE  LET t == UpdateLists(d, id, info, f)
           IN  /\ Methods(t, id, Null) = DOMAIN info.methods
               /\ \A m \in DOMAIN info.methods : MechanismsOf(t, id, m) = info.methods[m]
               /\ AccessControlList(t, id) = info.acl
               /\ OwnerList(t, id) = info.owners
               /\ \A r \in Realm : <<id, r>> \in t.realms <=> r \in info.realms
<1> DEFINE t == UpdateLists(d, id, info, f)
           ms == DOMAIN info.methods
           rows == AclRows(id, info)
           mechs == MechanismsNamed(info)
           named == NamesInserted(d, info, f)
<1>1. /\ ms \in SUBSET Method /\ info.acl \in SUBSET Token /\ info.owners \in SUBSET Token
      /\ info.methods \in [ms -> SUBSET Mechanism] /\ info.realms \in SUBSET Realm
      /\ Null \notin Token /\ Null \notin Method /\ Null \notin Mechanism
  BY InfoFields, NullAssumption
<1>2. /\ f \notin {"method", "mechanism", "token"}
      /\ (f = "deleteRealms") = FALSE /\ (f = "deleteAcl") = FALSE
      /\ (f = "deleteOwner") = FALSE
  BY DEF Unchecked
<1>3. /\ t.tokens = named.tokens /\ t.methods = named.methods /\ t.mechs = named.mechs
      /\ t.realms = NotDeleted(d.realms, id, info, f = "deleteRealms")
                       \cup {<<id, x>> : x \in info.realms}
      /\ t.acl = NotDeleted(d.acl, id, info, f = "deleteAcl") \cup AclInserted(named, id, info, f)
      /\ t.owner = NotDeleted(d.owner, id, info, f = "deleteOwner")
                      \cup OwnerInserted(named, id, info, f)
      /\ t \in Tables
  <2> HIDE DEF t, named
  <2>1. QED BY ListsUpdated DEF t, named
<1>4. /\ \A m \in ms : named.methods[m] # 0
      /\ mechs \subseteq named.mechs /\ info.acl \cup info.owners \subseteq named.tokens
  <2> HIDE DEF named
  <2>1. /\ f # "method" => \A m \in DOMAIN info.methods : named.methods[m] # 0
        /\ f # "mechanism" => MechanismsNamed(info) \subseteq named.mechs
        /\ f # "token" => info.acl \cup info.owners \subseteq named.tokens
    BY NamesAdded DEF named
  <2>2. QED BY <1>2, <2>1
<1>5. /\ AclInserted(named, id, info, f) = rows
      /\ OwnerInserted(named, id, info, f) = {<<id, x>> : x \in info.owners}
  BY AclInsertedWhole
<1>6. \A a \in rows : /\ a[1] = id /\ a[2] \in ms \cup {Null}
                      /\ a[3] \in mechs \cup {Null} /\ a[4] \in info.acl \cup {Null}
  BY AclRowsTyped
<1>7. /\ \A m \in ms : \E a \in rows : a[2] = m
      /\ \A m \in ms : \A k \in info.methods[m] : \E a \in rows : a[2] = m /\ a[3] = k
      /\ \A a \in rows, m \in ms : a[2] = m => a[3] \in info.methods[m] \cup {Null}
      /\ \A x \in info.acl : \E a \in rows : a[4] = x
  BY AclRowsWhole
<1>8. \A m \in ms : info.methods[m] \subseteq mechs
  BY DEF MechanismsNamed
<1>9. t.mechs \subseteq Mechanism /\ t.tokens \subseteq Token
  <2> HIDE DEF t
  <2>1. QED BY <1>3 DEF Tables
<1> HIDE DEF t, named, rows, ms, mechs
<1>10. {a \in t.acl : a[1] = id} = rows
  BY <1>2, <1>3, <1>5, <1>6 DEF NotDeleted
<1>11. {o \in t.owner : o[1] = id} = {<<id, x>> : x \in info.owners}
  BY <1>2, <1>3, <1>5 DEF NotDeleted
<1>12. Methods(t, id, Null) = ms
  <2>1. Methods(t, id, Null) = {a[2] : a \in rows} \cap {m \in Method : t.methods[m] # 0}
    BY <1>10 DEF Methods
  <2>2. QED BY <1>1, <1>3, <1>4, <1>6, <1>7, <2>1
<1>13. ASSUME NEW m \in ms PROVE MechanismsOf(t, id, m) = info.methods[m]
  <2>1. {a \in t.acl : a[1] = id /\ a[2] = m} = {a \in rows : a[2] = m}
    BY <1>10
  <2>2. MechanismsOf(t, id, m) = {a[3] : a \in {b \in rows : b[2] = m}} \cap t.mechs
    BY <2>1 DEF MechanismsOf
  <2>3. info.methods[m] \subseteq t.mechs /\ Null \notin t.mechs
    BY <1>1, <1>3, <1>4, <1>8, <1>9
  <2>4. QED BY <1>7, <2>2, <2>3
<1>14. AccessControlList(t, id) = info.acl
  <2>1. AccessControlList(t, id) = {a[4] : a \in rows} \cap t.tokens
    BY <1>10 DEF AccessControlList
  <2>2. QED BY <1>1, <1>3, <1>4, <1>6, <1>7, <1>9, <2>1
<1>15. OwnerList(t, id) = info.owners
  <2>1. OwnerList(t, id) = {o[2] : o \in {<<id, x>> : x \in info.owners}} \cap t.tokens
    BY <1>11 DEF OwnerList
  <2>2. {o[2] : o \in {<<id, x>> : x \in info.owners}} = info.owners
    <3>1. ASSUME NEW x \in info.owners
          PROVE  \E o \in {<<id, y>> : y \in info.owners} : o[2] = x
      <4>1. <<id, x>> \in {<<id, y>> : y \in info.owners} /\ <<id, x>>[2] = x
        OBVIOUS
      <4>2. QED BY <4>1
    <3>2. QED BY <3>1
  <2>3. QED BY <1>3, <1>4, <2>1, <2>2
<1>16. \A r \in Realm : <<id, r>> \in t.realms <=> r \in info.realms
  BY <1>2, <1>3 DEF NotDeleted
<1>17. QED BY <1>12, <1>13, <1>14, <1>15, <1>16 DEF t, ms

\* Whichever of its statements failed unnoticed, what is read of an identity is what
\* was there, when the identity was, or what was to be written.
LEMMA IdentityWithin ==
    ASSUME NEW d \in Tables, Coherent(d), NEW info \in Info, NEW id \in Id, NEW f,
           InsertMethods(d, DOMAIN info.methods).nextMethod <= MaxMethodId + 1
    PROVE  LET t == UpdateLists(d, id, info, f)
               before == info.id # NewIdentity
           IN  /\ \A m \in Methods(t, id, Null) :
                     \/ m \in DOMAIN info.methods
                     \/ before /\ m \in Methods(d, id, Null)
               /\ \A m \in Method : \A k \in MechanismsOf(t, id, m) :
                     \/ m \in DOMAIN info.methods /\ k \in info.methods[m]
                     \/ before /\ m \in Methods(d, id, Null) /\ k \in MechanismsOf(d, id, m)
               /\ \A x \in AccessControlList(t, id) :
                     x \in info.acl \/ (before /\ x \in AccessControlList(d, id))
               /\ \A x \in OwnerList(t, id) :
                     x \in info.owners \/ (before /\ x \in OwnerList(d, id))
               /\ \A x : <<id, x>> \in t.realms =>
                     x \in info.realms \/ (before /\ <<id, x>> \in d.realms)
<1> DEFINE t == UpdateLists(d, id, info, f)
           before == info.id # NewIdentity
           ms == DOMAIN info.methods
           named == NamesInserted(d, info, f)
           rows == AclInserted(named, id, info, f)
           owners == OwnerInserted(named, id, info, f)
<1>1. /\ t \in Tables
      /\ t.tokens = named.tokens /\ t.methods = named.methods /\ t.mechs = named.mechs
      /\ t.realms = NotDeleted(d.realms, id, info, f = "deleteRealms")
                       \cup {<<id, x>> : x \in info.realms}
      /\ t.acl = NotDeleted(d.acl, id, info, f = "deleteAcl") \cup rows
      /\ t.owner = NotDeleted(d.owner, id, info, f = "deleteOwner") \cup owners
  <2> HIDE DEF t, named
  <2>1. QED BY ListsUpdated DEF t, named
<1>2. named \in Tables
  BY NamesAdded
<1> HIDE DEF t, named
<1>3. \A a \in rows : \E b \in AclRows(id, info) : /\ a[2] \in {b[2], Null}
                                                   /\ a[3] \in {b[3], Null}
                                                   /\ a[4] \in {b[4], Null}
  BY <1>2, AclInsertedTyped
<1>4. \A b \in AclRows(id, info) : b[2] \in ms \cup {Null} /\ b[4] \in info.acl \cup {Null}
  BY AclRowsTyped
<1>5. \A b \in AclRows(id, info), m \in ms : b[2] = m => b[3] \in info.methods[m] \cup {Null}
  BY AclRowsWhole
<1>6. \A o \in owners : o[2] \in info.owners \cup {Null}
  BY <1>2, OwnerInsertedTyped
<1>7. /\ Null \notin Method /\ Null \notin t.mechs /\ Null \notin t.tokens
  BY <1>1, NullAssumption DEF Tables
<1> HIDE DEF rows, owners
<1>8. ASSUME NEW a \in t.acl, a[1] = id
      PROVE  a \in rows \/ (before /\ a \in d.acl)
  BY <1>1, <1>8 DEF NotDeleted
<1>9. ASSUME NEW a \in d.acl
      PROVE  /\ a[2] \in Method => d.methods[a[2]] # 0
             /\ a[3] \in t.mechs => a[3] \in d.mechs
             /\ a[4] \in t.tokens => a[4] \in d.tokens
  BY <1>7 DEF Coherent
<1>10. ASSUME NEW m \in Methods(t, id, Null)
       PROVE  m \in ms \/ (before /\ m \in Methods(d, id, Null))
  <2>1. PICK a \in t.acl : a[1] = id /\ a[2] = m
    BY DEF Methods
  <2>2. m \in Method
    BY DEF Methods
  <2>3. CASE a \in rows
    BY <1>3, <1>4, <1>7, <2>1, <2>2, <2>3
  <2>4. CASE before /\ a \in d.acl
    BY <1>9, <2>1, <2>2, <2>4 DEF Methods
  <2>5. QED BY <1>8, <2>1, <2>3, <2>4
<1>11. ASSUME NEW m \in Method, NEW k \in MechanismsOf(t, id, m)
       PROVE  \/ m \in ms /\ k \in info.methods[m]
              \/ before /\ m \in Methods(d, id, Null) /\ k \in MechanismsOf(d, id, m)
  <2>1. PICK a \in t.acl : a[1] = id /\ a[2] = m /\ a[3] = k
    BY DEF MechanismsOf
  <2>2. k \in t.mechs
    BY DEF MechanismsOf
  <2>3. CASE a \in rows
    <3>1. PICK b \in AclRows(id, info) : a[2] \in {b[2], Null} /\ a[3] \in {b[3], Null}
      BY <1>3, <2>3
    <3>2. b[2] = m /\ b[3] = k
      BY <1>7, <2>1, <2>2, <3>1
    <3>3. m \in ms
      BY <1>4, <1>7, <3>2
    <3>4. QED BY <1>5, <1>7, <2>2, <3>2, <3>3
  <2>4. CASE before /\ a \in d.acl
    BY <1>9, <2>1, <2>2, <2>4 DEF MechanismsOf, Methods
  <2>5. QED BY <1>8, <2>1, <2>3, <2>4
<1>12. ASSUME NEW x \in AccessControlList(t, id)
       PROVE  x \in info.acl \/ (before /\ x \in AccessControlList(d, id))
  <2>1. PICK a \in t.acl : a[1] = id /\ a[4] = x
    BY DEF AccessControlList
  <2>2. x \in t.tokens
    BY DEF AccessControlList
  <2>3. CASE a \in rows
    BY <1>3, <1>4, <1>7, <2>1, <2>2, <2>3
  <2>4. CASE before /\ a \in d.acl
    BY <1>9, <2>1, <2>2, <2>4 DEF AccessControlList
  <2>5. QED BY <1>8, <2>1, <2>3, <2>4
<1>13. ASSUME NEW x \in OwnerList(t, id)
       PROVE  x \in info.owners \/ (before /\ x \in OwnerList(d, id))
  <2>1. PICK o \in t.owner : o[1] = id /\ o[2] = x
    BY DEF OwnerList
  <2>2. x \in t.tokens
    BY DEF OwnerList
  <2>3. CASE o \in owners
    BY <1>6, <1>7, <2>1, <2>2, <2>3
  <2>4. CASE before /\ o \in d.owner
    BY <1>7, <2>1, <2>2, <2>4 DEF OwnerList, Coherent
  <2>5. o \in owners \/ (before /\ o \in d.owner)
    BY <1>1, <2>1 DEF NotDeleted
  <2>6. QED BY <2>3, <2>4, <2>5
<1>14. ASSUME NEW x, <<id, x>> \in t.realms
       PROVE  x \in info.realms \/ (before /\ <<id, x>> \in d.realms)
  BY <1>1, <1>14 DEF NotDeleted
<1>15. QED BY <1>10, <1>11, <1>12, <1>13, <1>14 DEF t
-----------------------------------------------------------------------------
(* What is read of the identities that an operation does not touch *)

\* Tables that differ in the references and the tokens.
SameLists(d, t) ==
    /\ t.rows = d.rows /\ t.nextId = d.nextId /\ t.methods = d.methods
    /\ t.nextMethod = d.nextMethod
    /\ d.mechs \subseteq t.mechs /\ d.tokens \subseteq t.tokens
    /\ t.acl = d.acl /\ t.owner = d.owner /\ t.realms = d.realms

\* Tables in which each identity that is there was there, with the same rows.
KeepsRows(d, t) == \A i \in Id : Exists(t, i) => SameRowsOf(d, t, i)

LEMMA RowsKept ==
    /\ \A d : KeepsRows(d, d)
    /\ \A d, t : SameLists(d, t) => KeepsRows(d, t)
BY DEF KeepsRows, SameRowsOf, SameLists

\* An update that stores no identity leaves those that are there.
LEMMA NoneStoredKeeps ==
    ASSUME NEW d \in Tables, Coherent(d), NEW u \in Info, NEW f,
           u.id = NewIdentity => d.nextId \in Id,
           InsertMethods(d, DOMAIN u.methods).nextMethod <= MaxMethodId + 1,
           UpdateIdentity(d, u, f).id = NewIdentity,
           NEW t, t = UpdateIdentity(d, u, f).st
    PROVE  KeepsRows(d, t)
<1> DEFINE to == StoredId(d, u)
<1>1. \/ t = d
      \/ /\ ~Exists(d, to)
         /\ t = [d EXCEPT !.owner = t.owner]
         /\ d.owner \subseteq t.owner
         /\ \A o \in t.owner \ d.owner : o[1] = to
  BY IdentityUpdated
<1> HIDE DEF to
<1>2. CASE t = d
  BY <1>2, RowsKept
<1>3. CASE /\ ~Exists(d, to)
           /\ t = [d EXCEPT !.owner = t.owner]
           /\ d.owner \subseteq t.owner
           /\ \A o \in t.owner \ d.owner : o[1] = to
  <2>1. /\ t.rows = d.rows /\ t.acl = d.acl /\ t.realms = d.realms /\ t.tokens = d.tokens
        /\ t.methods = d.methods /\ t.mechs = d.mechs
    BY <1>3 DEF Tables
  <2>2. ASSUME NEW i \in Id, Exists(t, i) PROVE SameRowsOf(d, t, i)
    <3>1. i # to
      BY <1>3, <2>1, <2>2 DEF Exists
    <3>2. QED BY <1>3, <2>1, <3>1 DEF SameRowsOf
  <2>3. QED BY <2>2 DEF KeepsRows
<1>4. QED BY <1>1, <1>2, <1>3

\* One that stores an identity leaves the others.
LEMMA ListsLeaveOthers ==
    ASSUME NEW d \in Tables, NEW u \in Info, NEW id \in Id, NEW f,
           Coherent(UpdateRow(d, id, u)),
           InsertMethods(UpdateRow(d, id, u), DOMAIN u.methods).nextMethod <= MaxMethodId + 1,
           NEW i \in Id \ {id}
    PROVE  SameRowsOf(d, UpdateLists(UpdateRow(d, id, u), id, u, f), i)
<1> DEFINE row == UpdateRow(d, id, u)
<1> HIDE DEF row
<1>1. /\ row \in Tables
      /\ row.methods = d.methods /\ row.mechs = d.mechs /\ row.tokens = d.tokens
      /\ row.acl = d.acl /\ row.owner = d.owner /\ row.realms = d.realms
      /\ \A j \in Id \ {id} : row.rows[j] = d.rows[j]
  BY RowUpdated DEF row
<1> DEFINE ms == DOMAIN u.methods
           named == NamesInserted(row, u, f)
           rows == AclInserted(named, id, u, f)
           owners == OwnerInserted(named, id, u, f)
           t == UpdateLists(row, id, u, f)
<1>2. /\ named \in Tables
      /\ \A m \in Method : row.methods[m] # 0 => named.methods[m] = row.methods[m]
      /\ row.mechs \subseteq named.mechs /\ row.tokens \subseteq named.tokens
  <2> HIDE DEF named
  <2>1. QED BY <1>1, NamesAdded DEF named, row, ms
<1>3. /\ t.rows = row.rows /\ t.methods = named.methods
      /\ t.mechs = named.mechs /\ t.tokens = named.tokens
      /\ t.realms = NotDeleted(row.realms, id, u, f = "deleteRealms") \cup {<<id, x>> : x \in u.realms}
      /\ t.acl = NotDeleted(row.acl, id, u, f = "deleteAcl") \cup rows
      /\ t.owner = NotDeleted(row.owner, id, u, f = "deleteOwner") \cup owners
  <2> HIDE DEF t, named
  <2>1. QED BY <1>1, ListsUpdated DEF row, ms, t, named
<1> HIDE DEF named, ms, t
<1>4. /\ \A a \in rows : a[1] = id
      /\ \A o \in owners : o[1] = id
  BY <1>2, AclInsertedTyped, OwnerInsertedTyped
<1> HIDE DEF rows, owners
<1>5. /\ \A a : a[1] = i => (a \in t.acl <=> a \in d.acl)
      /\ \A o : o[1] = i => (o \in t.owner <=> o \in d.owner)
      /\ \A x : x[1] = i => (x \in t.realms <=> x \in d.realms)
  BY <1>1, <1>3, <1>4 DEF NotDeleted
<1>6. /\ t.rows[i] = d.rows[i]
      /\ d.mechs \subseteq t.mechs /\ d.tokens \subseteq t.tokens
      /\ \A m \in Method : d.methods[m] # 0 => t.methods[m] # 0
  BY <1>1, <1>2, <1>3
<1>7. QED BY <1>5, <1>6 DEF SameRowsOf, t, row

LEMMA OthersKept ==
    ASSUME NEW d \in Tables, Coherent(d), NEW u \in Info, NEW f,
           u.id = NewIdentity => d.nextId \in Id,
           InsertMethods(d, DOMAIN u.methods).nextMethod <= MaxMethodId + 1,
           UpdateIdentity(d, u, f).id # NewIdentity
    PROVE  LET res == UpdateIdentity(d, u, f)
           IN  \A i \in Id \ {res.id} : SameRowsOf(d, res.st, i)
<1> DEFINE res == UpdateIdentity(d, u, f)
           to == StoredId(d, u)
           row == UpdateRow(d, to, u)
<1>1. /\ res.id \in {NewIdentity, to}
      /\ res.id # NewIdentity =>
            /\ res.st = UpdateLists(row, to, u, f)
            /\ InsertMethods(row, DOMAIN u.methods).nextMethod <= MaxMethodId + 1
  BY IdentityUpdated
<1>2. to \in Id /\ Coherent(row)
  BY RowKeepsCoherence
<1> HIDE DEF to, res
<1>3. res.id = to
  BY <1>1 DEF res
<1>4. \A i \in Id \ {to} : SameRowsOf(d, res.st, i)
  BY <1>1, <1>2, <1>3, ListsLeaveOthers DEF res
<1>5. QED BY <1>3, <1>4 DEF res
=============================================================================
