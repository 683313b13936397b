-------------------------- MODULE MCCredentialsStore --------------------------
EXTENDS CredentialsStore

CONSTANTS u, p, q, m, k, t1, t2, r

NoMethods == [x \in {} |-> {}]
Stored(user, pass, remember, secretName) ==
    [NoInfo EXCEPT !.user = user, !.pass = pass, !.hasPass = (pass # Null),
                   !.remember = remember, !.secretName = secretName, !.owners = {t1}]

\* Identities with two passwords, with a secret user name and without, that
\* remember and that do not.
SecretInfos == {Stored(Null, p, FALSE, FALSE), Stored(u, q, FALSE, TRUE),
                Stored(Null, p, TRUE, FALSE), Stored(Null, q, TRUE, FALSE),
                Stored(u, q, TRUE, TRUE)}

Lists(methods, acl, owners, realms) ==
    [NoInfo EXCEPT !.methods = methods, !.acl = acl, !.owners = owners, !.realms = realms]

\* Identities with a method with a mechanism, without one, or no method at all;
\* usable by two applications, by one or by none; with an owner or without.
TableInfos == {Lists([x \in {m} |-> {k}], {t1, t2}, {t1}, {r}),
               Lists([x \in {m} |-> {}], {}, {t1}, {}),
               Lists(NoMethods, {t2}, {}, {}),
               Lists(NoMethods, {}, {t2}, {})}

NoOldTables == {}
TablesOf1 == {LET info == Lists([x \in {m} |-> {k}], {t1}, {}, {})
              IN  UpdateLists(UpdateRow(CreateTables, 1, info), 1, info, "none")}
=============================================================================
