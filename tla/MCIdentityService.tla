--------------------------- MODULE MCIdentityService ---------------------------
EXTENDS IdentityService

CONSTANTS u, p, q, any, a, b, x, y, c, d

\* The calls are alike.
TL == INSTANCE TLC
Symmetry == TL!Permutations({c, d})

Info1(user, pass, acl, owners) ==
    [NoInfo EXCEPT !.user = user, !.pass = pass, !.hasPass = (pass # Null),
                   !.remember = TRUE, !.acl = acl, !.owners = owners]

\* Anyone may use the identity: the default access control manager.  Its password
\* is to be kept and its user name is secret too, or neither.
Dialog(secret) == [Info1(u, p, {any}, {}) EXCEPT !.remember = secret, !.secretName = secret]
DialogInfos == {Dialog(secret) : secret \in BOOLEAN}
AllAppIds == [i \in Peer |-> Null]
AllAccess == [i \in Peer |-> Token]

\* x has the rights of a, y those of b: what x has stored y may not use, what y has
\* stored x may use too; only who has stored an identity may remove it.
RegistryInfos == {Info1(Null, Null, {a}, {})}
TwoAppIds == [i \in Peer |-> IF i = x THEN a ELSE b]
TwoAccess == [i \in Peer |-> IF i = x THEN {a} ELSE {b}]
=============================================================================
