------------------------------ MODULE MCDeployment ------------------------------
(* Deployment for TLC: three users, two workspaces that an older release left.    *)
EXTENDS Deployment, TLC

CONSTANTS admin, ann, bob, w1, w2, k1

\* Workspaces of two tenants, or of the one that is not the default. Two runs of one key, or
\* two default engines: the look before the insert (the service's, bootstrap's) let them
\* through. A run of one tenant filed against the other's workflow: nothing refused it.
Row(inHome, inOther) ==
  [w \in {w1, w2} |-> [u \in {admin, ann, bob} |->
     IF u = admin THEN (IF w = w1 THEN "OWNER" ELSE NoRole)
     ELSE IF u = ann THEN (IF w = w1 THEN inHome ELSE NoRole)
     ELSE IF w = w2 THEN inOther ELSE NoRole]]

Left(runs, strays, workspaces, members, engines) ==
  [NoRows EXCEPT !.runs = runs, !.strays = strays, !.users = {admin, ann, bob},
     !.admins = {admin}, !.engines = engines,
     !.organization = [w \in workspaces |-> NoOrganization],
     !.member = [w \in workspaces |-> members[w]]]

Legacy == {Left(<<k1, k1>>, {}, {w1, w2}, Row("AUDITOR", "OPERATOR"), 1),
           Left(<<NoKey, k1>>, {}, {w2}, Row("OPERATOR", "OWNER"), 1),
           Left(<<NoKey, k1>>, {1}, {w1, w2}, Row("OPERATOR", "OWNER"), 1),
           Left(<<k1>>, {}, {w1, w2}, Row("OPERATOR", "OWNER"), 2)}

Symmetric == Permutations(Jobs)
=============================================================================
