--------------------------- MODULE DeploymentProofs ---------------------------
(***************************************************************************)
(* Proofs about Schema and Deployment, for any jobs, users and keys, any   *)
(* rows an older release left, and any number of deploys, downgrades,      *)
(* backups and restores.                                                   *)
(***************************************************************************)
EXTENDS Deployment, WellFoundedInduction, TLAPS

----------------------------------------------------------------------------
(* Induction over the steps of a revision *)

LEMMA LeastNatural ==
  ASSUME NEW T, T \subseteq Nat, T # {}
  PROVE  \E m \in T : \A k \in T : m <= k
<1>1. PICK m \in T : \A k \in T : <<k, m>> \notin OpToRel(<, Nat)
  BY WFMin, NatLessThanWellFounded
<1>2. \A k \in T : ~(k < m)
  BY <1>1 DEF OpToRel
<1> QED
  BY <1>2

\* A set with a member's successor for each member up to n has all of 0..n.
LEMMA SetInduction ==
  ASSUME NEW n \in Nat, NEW S, 0 \in S, \A i \in 1..n : i - 1 \in S => i \in S
  PROVE  \A i \in 0..n : i \in S
<1> DEFINE T == {i \in 0..n : i \notin S}
<1> SUFFICES ASSUME T # {} PROVE FALSE
  OBVIOUS
<1>1. T \subseteq Nat
  OBVIOUS
<1>2. PICK m \in T : \A k \in T : m <= k
  BY <1>1, LeastNatural
<1>3. m # 0 /\ m \in 1..n
  OBVIOUS
<1>4. m - 1 \notin T
  BY <1>2
<1> QED
  BY <1>3, <1>4

\* Run is its steps one after the other.
LEMMA RunUnfolds ==
  ASSUME NEW objects, NEW rows, NEW steps, Len(steps) \in Nat
  PROVE  \E f : /\ f[0] = [ok |-> TRUE, objects |-> objects, rows |-> rows]
                /\ \A i \in 1..Len(steps) : f[i] = Apply(f[i - 1], steps[i])
                /\ Run(objects, rows, steps) = f[Len(steps)]
<1> DEFINE n == Len(steps)
           b == [ok |-> TRUE, objects |-> objects, rows |-> rows]
           Is(g, m) == g = [i \in 0..m |-> IF i = 0 THEN b ELSE Apply(g[i - 1], steps[i])]
           S == {m \in 0..n : \E g : Is(g, m)}
<1>1. 0 \in S
  <2>1. Is([i \in 0..0 |-> b], 0)
    OBVIOUS
  <2>2. \E g : Is(g, 0)
    BY <2>1
  <2> HIDE DEF Is
  <2> QED
    BY <2>2
<1>2. \A m \in 1..n : m - 1 \in S => m \in S
  <2> SUFFICES ASSUME NEW m \in 1..n, m - 1 \in S
               PROVE  \E g : Is(g, m)
    <3> HIDE DEF Is
    <3> QED
      OBVIOUS
  <2>1. PICK g : Is(g, m - 1)
    OBVIOUS
  <2> DEFINE h == [i \in 0..m |-> IF i < m THEN g[i] ELSE Apply(g[m - 1], steps[m])]
  <2> HIDE DEF b
  <2>2. g[0] = b /\ \A i \in 1..(m - 1) : g[i] = Apply(g[i - 1], steps[i])
    BY <2>1
  <2>3. h[0] = b
    BY <2>2
  <2>4. \A i \in 1..m : h[i] = Apply(h[i - 1], steps[i])
    <3> SUFFICES ASSUME NEW i \in 1..m
                 PROVE  h[i] = Apply(h[i - 1], steps[i])
      OBVIOUS
    <3>1. i \in 0..m /\ i - 1 \in 0..m /\ i - 1 < m /\ h[i - 1] = g[i - 1]
      OBVIOUS
    <3>2. CASE i = m
      <4>1. h[i] = Apply(g[m - 1], steps[m])
        BY <3>2
      <4> QED
        BY <3>1, <3>2, <4>1
    <3>3. CASE i # m
      <4>1. i < m /\ i \in 1..(m - 1) /\ h[i] = g[i]
        BY <3>1, <3>3
      <4> QED
        BY <3>1, <4>1, <2>2
    <3> QED
      BY <3>2, <3>3
  <2>5. h = [i \in 0..m |-> h[i]]
    OBVIOUS
  <2> HIDE DEF h
  <2>6. \A i \in 0..m : h[i] = IF i = 0 THEN b ELSE Apply(h[i - 1], steps[i])
    BY <2>3, <2>4
  <2> QED
    BY <2>5, <2>6
<1> HIDE DEF S
<1>3. n \in S
  <2>1. n \in Nat
    OBVIOUS
  <2> HIDE DEF n
  <2>2. \A i \in 0..n : i \in S
    BY <1>1, <1>2, <2>1, SetInduction
  <2> QED
    BY <2>1, <2>2
<1>4. \E g : Is(g, n)
  BY <1>3 DEF S
<1> DEFINE f == CHOOSE g : Is(g, n)
<1>5. Is(f, n)
  BY <1>4
<1>6. Run(objects, rows, steps) = f[n]
  BY DEF Run
<1> HIDE DEF f
<1>7. f[0] = b /\ \A i \in 1..n : f[i] = Apply(f[i - 1], steps[i])
  <2>1. n \in Nat
    OBVIOUS
  <2> HIDE DEF n, b
  <2> QED
    BY <1>5, <2>1
<1> QED
  BY <1>6, <1>7


\* And so is Layout.
LEMMA LayoutUnfolds ==
  ASSUME NEW objects, NEW steps, Len(steps) \in Nat
  PROVE  \E f : /\ f[0] = [ok |-> TRUE, objects |-> objects]
                /\ \A i \in 1..Len(steps) : f[i] = Lay(f[i - 1], steps[i])
                /\ Layout(objects, steps) = f[Len(steps)]
<1> DEFINE n == Len(steps)
           b == [ok |-> TRUE, objects |-> objects]
           Is(g, m) == g = [i \in 0..m |-> IF i = 0 THEN b ELSE Lay(g[i - 1], steps[i])]
           S == {m \in 0..n : \E g : Is(g, m)}
<1>1. 0 \in S
  <2>1. Is([i \in 0..0 |-> b], 0)
    OBVIOUS
  <2>2. \E g : Is(g, 0)
    BY <2>1
  <2> HIDE DEF Is
  <2> QED
    BY <2>2
<1>2. \A m \in 1..n : m - 1 \in S => m \in S
  <2> SUFFICES ASSUME NEW m \in 1..n, m - 1 \in S
               PROVE  \E g : Is(g, m)
    <3> HIDE DEF Is
    <3> QED
      OBVIOUS
  <2>1. PICK g : Is(g, m - 1)
    OBVIOUS
  <2> DEFINE h == [i \in 0..m |-> IF i < m THEN g[i] ELSE Lay(g[m - 1], steps[m])]
  <2> HIDE DEF b
  <2>2. g[0] = b /\ \A i \in 1..(m - 1) : g[i] = Lay(g[i - 1], steps[i])
    BY <2>1
  <2>3. h[0] = b
    BY <2>2
  <2>4. \A i \in 1..m : h[i] = Lay(h[i - 1], steps[i])
    <3> SUFFICES ASSUME NEW i \in 1..m
                 PROVE  h[i] = Lay(h[i - 1], steps[i])
      OBVIOUS
    <3>1. i \in 0..m /\ i - 1 \in 0..m /\ i - 1 < m /\ h[i - 1] = g[i - 1]
      OBVIOUS
    <3>2. CASE i = m
      <4>1. h[i] = Lay(g[m - 1], steps[m])
        BY <3>2
      <4> QED
        BY <3>1, <3>2, <4>1
    <3>3. CASE i # m
      <4>1. i < m /\ i \in 1..(m - 1) /\ h[i] = g[i]
        BY <3>1, <3>3
      <4> QED
        BY <3>1, <4>1, <2>2
    <3> QED
      BY <3>2, <3>3
  <2>5. h = [i \in 0..m |-> h[i]]
    OBVIOUS
  <2> HIDE DEF h
  <2>6. \A i \in 0..m : h[i] = IF i = 0 THEN b ELSE Lay(h[i - 1], steps[i])
    BY <2>3, <2>4
  <2> QED
    BY <2>5, <2>6
<1> HIDE DEF S
<1>3. n \in S
  <2>1. n \in Nat
    OBVIOUS
  <2> HIDE DEF n
  <2>2. \A i \in 0..n : i \in S
    BY <1>1, <1>2, <2>1, SetInduction
  <2> QED
    BY <2>1, <2>2
<1>4. \E g : Is(g, n)
  BY <1>3 DEF S
<1> DEFINE f == CHOOSE g : Is(g, n)
<1>5. Is(f, n)
  BY <1>4
<1>6. Layout(objects, steps) = f[n]
  BY DEF Layout
<1> HIDE DEF f
<1>7. f[0] = b /\ \A i \in 1..n : f[i] = Lay(f[i - 1], steps[i])
  <2>1. n \in Nat
    OBVIOUS
  <2> HIDE DEF n, b
  <2> QED
    BY <1>5, <2>1
<1> QED
  BY <1>6, <1>7

----------------------------------------------------------------------------
(* What a step makes of the rows *)

RowFields == {"runs", "strays", "organization", "member", "users", "admins", "orgMember", "engines"}

RowShape(rows) ==
  /\ DOMAIN rows = RowFields
  /\ rows.engines \in Nat
  /\ \E n \in Nat : DOMAIN rows.runs \subseteq 0..n

\* What nothing that is done to the rows adds.
NoWorse(rows, after) == after.engines <= rows.engines /\ after.strays \subseteq rows.strays

Nobody == [u \in People |-> NoRole]
OrganizationColumn == <<"workspaces", "organization_id">>

LEMMA CollapsedRows ==
  ASSUME NEW rows, RowShape(rows)
  PROVE  /\ RowShape(Collapse(rows))
         /\ \A x \in RowFields \ {"runs", "strays"} : Collapse(rows)[x] = rows[x]
         /\ Collapse(rows).strays \subseteq rows.strays
         /\ Satisfied(OneRunPerKey, Collapse(rows))
         /\ DOMAIN Collapse(rows).runs \subseteq DOMAIN rows.runs
         /\ \A i \in DOMAIN Collapse(rows).runs : Collapse(rows).runs[i] = rows.runs[i]
         /\ \A i \in DOMAIN rows.runs :
              (\A k \in DOMAIN rows.runs : k < i => rows.runs[k] # rows.runs[i])
                => i \in DOMAIN Collapse(rows).runs
<1> DEFINE runs == rows.runs
           kept == {i \in DOMAIN runs : runs[i] = NoKey \/ ~\E j \in DOMAIN runs : j < i /\ runs[j] = runs[i]}
<1>1. Collapse(rows) = [rows EXCEPT !.runs = [i \in kept |-> runs[i]], !.strays = rows.strays \cap kept]
  BY DEF Collapse, KeepRuns
<1> DEFINE after == Collapse(rows)
<1>2. DOMAIN after = RowFields /\ after.runs = [i \in kept |-> runs[i]]
  BY <1>1 DEF RowShape, RowFields
<1>3. /\ \A x \in RowFields \ {"runs", "strays"} : after[x] = rows[x]
      /\ after.strays = rows.strays \cap kept
  BY <1>1 DEF RowShape, RowFields
<1> HIDE DEF after
<1>4. DOMAIN after.runs = kept /\ \A i \in kept : after.runs[i] = runs[i]
  BY <1>2
<1>5. PICK n \in Nat : DOMAIN runs \subseteq 0..n
  BY DEF RowShape
<1>6. \A i, j \in kept : runs[i] = runs[j] /\ runs[i] # NoKey => i = j
  <2> SUFFICES ASSUME NEW i \in kept, NEW j \in kept, runs[i] = runs[j], runs[i] # NoKey, i < j
               PROVE  FALSE
    BY <1>5
  <2> QED
    OBVIOUS
<1>7. RowShape(after)
  <2>1. after.engines \in Nat
    BY <1>3 DEF RowFields, RowShape
  <2> QED
    BY <1>2, <1>4, <1>5, <2>1 DEF RowShape
<1>8. Satisfied(OneRunPerKey, after)
  <2>1. OneRunPerKey \notin {OneEnginePerName, OrganizationGiven, SameWorkspace}
    BY DEF OneRunPerKey, OneEnginePerName, OrganizationGiven, SameWorkspace
  <2> HIDE DEF kept
  <2> QED
    BY <1>4, <1>6, <2>1 DEF Satisfied
<1> QED
  BY <1>3, <1>4, <1>7, <1>8 DEF after

LEMMA BackfilledRows ==
  ASSUME NEW rows, RowShape(rows)
  PROVE  /\ RowShape(Backfill(rows))
         /\ \A x \in RowFields \ {"organization", "orgMember"} : Backfill(rows)[x] = rows[x]
         /\ DOMAIN Backfill(rows).organization = DOMAIN rows.organization
         /\ Satisfied(OrganizationGiven, Backfill(rows))
<1> DEFINE after == Backfill(rows)
<1>1. /\ DOMAIN after = RowFields
      /\ \A x \in RowFields \ {"organization", "orgMember"} : after[x] = rows[x]
      /\ DOMAIN after.organization = DOMAIN rows.organization
      /\ \A w \in DOMAIN rows.organization : after.organization[w] = DEFAULT_SLUG
  <2>1. CASE ~HasWorkspaces(rows)
    <3>1. after = rows /\ rows.organization = << >>
      BY <2>1 DEF Backfill, HasWorkspaces
    <3>2. DOMAIN rows.organization = {}
      BY <3>1
    <3> QED
      BY <3>1, <3>2 DEF RowShape
  <2>2. CASE HasWorkspaces(rows)
    <3> DEFINE joins == [w \in DOMAIN rows.organization |-> DEFAULT_SLUG]
    <3>1. PICK members : after = [rows EXCEPT !.organization = joins, !.orgMember = members]
      BY <2>2 DEF Backfill
    <3> HIDE DEF after, joins
    <3>2. after.organization = joins
      BY <3>1 DEF RowShape, RowFields
    <3>3. DOMAIN after = RowFields /\ \A x \in RowFields \ {"organization", "orgMember"} : after[x] = rows[x]
      BY <3>1 DEF RowShape, RowFields
    <3> QED
      BY <3>2, <3>3 DEF joins
  <2> QED
    BY <2>1, <2>2
<1> HIDE DEF after
<1>2. RowShape(after)
  <2>1. after.engines = rows.engines /\ after.runs = rows.runs
    BY <1>1 DEF RowFields
  <2> QED
    BY <1>1, <2>1 DEF RowShape
<1>3. Satisfied(OrganizationGiven, after)
  BY <1>1 DEF Satisfied, OrganizationGiven, OneRunPerKey, OneEnginePerName, SameWorkspace, DEFAULT_SLUG, NoOrganization
<1> QED
  BY <1>1, <1>2, <1>3 DEF after

LEMMA ErasedRows ==
  ASSUME NEW rows, RowShape(rows), NEW object
  PROVE  LET after == Erase(object, rows) IN
         /\ RowShape(after)
         /\ after.runs \in {rows.runs, << >>}
         /\ after.strays \in {rows.strays, {}}
         /\ after.engines \in {rows.engines, 0}
         /\ after.orgMember \in {rows.orgMember, Nobody}
         /\ DOMAIN after.organization \in {DOMAIN rows.organization, {}}
         /\ object # OrganizationColumn => after.organization \in {rows.organization, << >>}
         /\ object = <<"executions">> => after.runs = << >> /\ after.strays = {}
         /\ object = <<"workspaces">> => DOMAIN after.organization = {}
         /\ object = <<"engine_instances">> => after.engines = 0
         /\ object = <<"organization_memberships">> => after.orgMember = Nobody
         /\ object \notin Holders => after = rows
<1> DEFINE after == Erase(object, rows)
<1> USE DEF RowFields
<1>1. CASE object = <<"executions">>
  <2>1. after = [rows EXCEPT !.runs = << >>, !.strays = {}]
    BY <1>1 DEF Erase
  <2> HIDE DEF after
  <2>2. after.runs = << >> /\ DOMAIN after.runs = {} /\ after.strays = {}
    BY <2>1 DEF RowShape
  <2>3. DOMAIN after = RowFields /\ \A x \in RowFields \ {"runs", "strays"} : after[x] = rows[x]
    BY <2>1 DEF RowShape
  <2> QED
    BY <1>1, <2>2, <2>3 DEF RowShape, Holders, OrganizationColumn, after
<1>2. CASE object = <<"workspaces">>
  <2>1. after = [rows EXCEPT !.organization = << >>, !.member = << >>]
    BY <1>2 DEF Erase
  <2> HIDE DEF after
  <2>2. after.organization = << >> /\ DOMAIN after.organization = {}
    BY <2>1 DEF RowShape
  <2>3. DOMAIN after = RowFields /\ \A x \in RowFields \ {"organization", "member"} : after[x] = rows[x]
    BY <2>1 DEF RowShape
  <2> QED
    BY <1>2, <2>2, <2>3 DEF RowShape, Holders, OrganizationColumn, after
<1>3. CASE object = <<"users">>
  <2>1. after = [rows EXCEPT !.users = {}, !.admins = {}]
    BY <1>3 DEF Erase
  <2> HIDE DEF after
  <2>3. DOMAIN after = RowFields /\ \A x \in RowFields \ {"users", "admins"} : after[x] = rows[x]
    BY <2>1 DEF RowShape
  <2> QED
    BY <1>3, <2>3 DEF RowShape, Holders, OrganizationColumn, after
<1>4. CASE object = <<"engine_instances">>
  <2>1. after = [rows EXCEPT !.engines = 0]
    BY <1>4 DEF Erase
  <2> HIDE DEF after
  <2>2. after.engines = 0
    BY <2>1 DEF RowShape
  <2>3. DOMAIN after = RowFields /\ \A x \in RowFields \ {"engines"} : after[x] = rows[x]
    BY <2>1 DEF RowShape
  <2> QED
    BY <1>4, <2>2, <2>3 DEF RowShape, Holders, OrganizationColumn, after
<1>5. CASE object = OrganizationColumn
  <2>1. after = [rows EXCEPT !.organization = [w \in DOMAIN rows.organization |-> NoOrganization]]
    BY <1>5 DEF Erase, OrganizationColumn
  <2> HIDE DEF after
  <2>2. DOMAIN after.organization = DOMAIN rows.organization
    BY <2>1 DEF RowShape
  <2>3. DOMAIN after = RowFields /\ \A x \in RowFields \ {"organization"} : after[x] = rows[x]
    BY <2>1 DEF RowShape
  <2> QED
    BY <1>5, <2>2, <2>3 DEF RowShape, Holders, OrganizationColumn, after
<1>6. CASE object = <<"organization_memberships">>
  <2>1. after = [rows EXCEPT !.orgMember = Nobody]
    BY <1>6 DEF Erase, Nobody
  <2> HIDE DEF after
  <2>2. after.orgMember = Nobody
    BY <2>1 DEF RowShape
  <2>3. DOMAIN after = RowFields /\ \A x \in RowFields \ {"orgMember"} : after[x] = rows[x]
    BY <2>1 DEF RowShape
  <2> QED
    BY <1>6, <2>2, <2>3 DEF RowShape, Holders, OrganizationColumn, after
<1>7. CASE object \notin Holders
  <2>1. after = rows
    BY <1>7 DEF Erase, Holders
  <2>2. object \notin {<<"executions">>, <<"workspaces">>, <<"engine_instances">>, <<"organization_memberships">>}
    BY <1>7 DEF Holders
  <2> QED
    BY <1>7, <2>1, <2>2
<1> QED
  BY <1>1, <1>2, <1>3, <1>4, <1>5, <1>6, <1>7 DEF Holders, OrganizationColumn

LEMMA ConstraintsDiffer ==
  /\ OneRunPerKey # OneEnginePerName /\ OneRunPerKey # OrganizationGiven
  /\ OneEnginePerName # OrganizationGiven
  /\ SameWorkspace \notin {OneRunPerKey, OneEnginePerName, OrganizationGiven}
BY DEF OneRunPerKey, OneEnginePerName, OrganizationGiven, SameWorkspace

LEMMA WhatSatisfies ==
  ASSUME NEW rows
  PROVE  /\ Satisfied(OneRunPerKey, rows) <=>
              \A i, j \in DOMAIN rows.runs :
                rows.runs[i] = rows.runs[j] /\ rows.runs[i] # NoKey => i = j
         /\ Satisfied(OneEnginePerName, rows) <=> rows.engines <= 1
         /\ Satisfied(OrganizationGiven, rows) <=>
              \A w \in DOMAIN rows.organization : rows.organization[w] # NoOrganization
         /\ Satisfied(SameWorkspace, rows) <=> rows.strays = {}
         /\ \A object : object \notin Constraints => Satisfied(object, rows)
BY ConstraintsDiffer DEF Satisfied, Constraints

\* What a step keeps, and brings about, of what the constraints ask.
LEMMA RewrittenRows ==
  ASSUME NEW rows, RowShape(rows), NEW step
  PROVE  LET after == Rewritten(rows, step) IN
         /\ RowShape(after)
         /\ NoWorse(rows, after)
         /\ Satisfied(OneRunPerKey, rows) \/ step.do = "collapse" => Satisfied(OneRunPerKey, after)
         /\ \/ step.do = "backfill"
            \/ /\ Satisfied(OrganizationGiven, rows)
               /\ step.do = "drop" => step.object # OrganizationColumn
            => Satisfied(OrganizationGiven, after)
<1> DEFINE after == Rewritten(rows, step)
<1>1. CASE step.do = "collapse"
  <2>1. after = Collapse(rows)
    BY <1>1 DEF Rewritten
  <2>2. /\ RowShape(after) /\ Satisfied(OneRunPerKey, after)
        /\ after.engines = rows.engines /\ after.organization = rows.organization
        /\ after.strays \subseteq rows.strays
    BY <2>1, CollapsedRows DEF RowFields
  <2> HIDE DEF after
  <2>3. NoWorse(rows, after)
    BY <2>2 DEF RowShape, NoWorse
  <2>4. Satisfied(OrganizationGiven, rows) => Satisfied(OrganizationGiven, after)
    BY <2>2, WhatSatisfies
  <2> QED
    BY <1>1, <2>2, <2>3, <2>4 DEF after
<1>2. CASE step.do = "backfill"
  <2>1. after = Backfill(rows)
    BY <1>2 DEF Rewritten
  <2>2. /\ RowShape(after) /\ Satisfied(OrganizationGiven, after)
        /\ after.engines = rows.engines /\ after.runs = rows.runs /\ after.strays = rows.strays
    BY <2>1, BackfilledRows DEF RowFields
  <2> HIDE DEF after
  <2>3. NoWorse(rows, after)
    BY <2>2 DEF RowShape, NoWorse
  <2>4. Satisfied(OneRunPerKey, rows) => Satisfied(OneRunPerKey, after)
    BY <2>2, WhatSatisfies
  <2> QED
    BY <1>2, <2>2, <2>3, <2>4 DEF after
<1>3. CASE step.do = "drop"
  <2>1. after = Erase(step.object, rows)
    BY <1>3 DEF Rewritten
  <2> DEFINE object == step.object
  <2> HIDE DEF after, object
  <2>2. /\ RowShape(after)
        /\ after.runs \in {rows.runs, << >>}
        /\ after.strays \in {rows.strays, {}}
        /\ after.engines \in {rows.engines, 0}
        /\ object # OrganizationColumn => after.organization \in {rows.organization, << >>}
    BY <2>1, ErasedRows DEF object
  <2>3. NoWorse(rows, after)
    BY <2>2 DEF RowShape, NoWorse
  <2>4. Satisfied(OneRunPerKey, rows) => Satisfied(OneRunPerKey, after)
    <3>1. CASE after.runs = rows.runs
      BY <3>1, WhatSatisfies
    <3>2. CASE after.runs = << >>
      <4>1. DOMAIN after.runs = {}
        BY <3>2
      <4> QED
        BY <4>1, WhatSatisfies
    <3> QED
      BY <2>2, <3>1, <3>2
  <2>5. object # OrganizationColumn /\ Satisfied(OrganizationGiven, rows)
          => Satisfied(OrganizationGiven, after)
    <3>1. CASE after.organization = rows.organization
      BY <3>1, WhatSatisfies
    <3>2. CASE after.organization = << >>
      <4>1. DOMAIN after.organization = {}
        BY <3>2
      <4> QED
        BY <4>1, WhatSatisfies
    <3> QED
      BY <2>2, <3>1, <3>2
  <2> QED
    BY <1>3, <2>2, <2>3, <2>4, <2>5 DEF after, object
<1>4. CASE step.do \notin {"collapse", "backfill", "drop"}
  <2>1. after = rows
    BY <1>4 DEF Rewritten
  <2>2. NoWorse(rows, after)
    BY <2>1 DEF RowShape, NoWorse
  <2> QED
    BY <1>4, <2>1, <2>2
<1> QED
  BY <1>1, <1>2, <1>3, <1>4

\* A table that is not there has no rows.
Empty(rows, table) ==
  /\ table = <<"executions">> => DOMAIN rows.runs = {} /\ rows.strays = {}
  /\ table = <<"workspaces">> => DOMAIN rows.organization = {}
  /\ table = <<"engine_instances">> => rows.engines = 0
  /\ table = <<"organization_memberships">> => rows.orgMember = Nobody

\* ... and stays so while nothing is rewritten.
LEMMA EmptiedRows ==
  ASSUME NEW rows, RowShape(rows), NEW step, step.do \notin {"collapse", "backfill"},
         NEW table, Empty(rows, table) \/ (step.do = "drop" /\ step.object = table)
  PROVE  Empty(Rewritten(rows, step), table)
<1> DEFINE after == Rewritten(rows, step)
<1>1. CASE step.do # "drop"
  <2>1. after = rows
    BY <1>1 DEF Rewritten
  <2> QED
    BY <1>1, <2>1
<1>2. CASE step.do = "drop"
  <2> DEFINE object == step.object
  <2>1. after = Erase(object, rows)
    BY <1>2 DEF Rewritten
  <2> HIDE DEF after, object
  <2>2. /\ after.runs \in {rows.runs, << >>} /\ DOMAIN << >> = {}
        /\ after.strays \in {rows.strays, {}}
        /\ after.engines \in {rows.engines, 0}
        /\ after.orgMember \in {rows.orgMember, Nobody}
        /\ DOMAIN after.organization \in {DOMAIN rows.organization, {}}
    BY <2>1, ErasedRows
  <2>3. /\ object = <<"executions">> => after.runs = << >> /\ after.strays = {}
        /\ object = <<"workspaces">> => DOMAIN after.organization = {}
        /\ object = <<"engine_instances">> => after.engines = 0
        /\ object = <<"organization_memberships">> => after.orgMember = Nobody
    BY <2>1, ErasedRows
  <2>4. CASE Empty(rows, table)
    BY <2>2, <2>4 DEF Empty, after
  <2>5. CASE object = table
    BY <2>2, <2>3, <2>5 DEF Empty, after
  <2> QED
    BY <1>2, <2>4, <2>5 DEF object
<1> QED
  BY <1>1, <1>2

----------------------------------------------------------------------------
(* What a transaction makes of the database *)

IsRun(f, n, objects, rows, steps) ==
  /\ n \in Nat
  /\ f[0] = [ok |-> TRUE, objects |-> objects, rows |-> rows]
  /\ \A i \in 1..n : f[i] = Apply(f[i - 1], steps[i])

LEMMA RunIs ==
  ASSUME NEW objects, NEW rows, NEW steps, Len(steps) \in Nat
  PROVE  \E n, f : /\ n = Len(steps) /\ IsRun(f, n, objects, rows, steps)
                   /\ Run(objects, rows, steps) = f[n]
<1>1. PICK f : /\ f[0] = [ok |-> TRUE, objects |-> objects, rows |-> rows]
               /\ \A i \in 1..Len(steps) : f[i] = Apply(f[i - 1], steps[i])
               /\ Run(objects, rows, steps) = f[Len(steps)]
  BY RunUnfolds
<1>2. IsRun(f, Len(steps), objects, rows, steps)
  BY <1>1 DEF IsRun
<1> QED
  BY <1>1, <1>2

LEMMA Applied ==
  ASSUME NEW d, NEW step
  PROVE  /\ Apply(d, step).ok <=> d.ok /\ Allowed(d.objects, step) /\ Admits(d.rows, step)
         /\ Apply(d, step).objects = Changed(d.objects, step)
         /\ Apply(d, step).rows = Rewritten(d.rows, step)
         /\ Lay(d, step).ok <=> d.ok /\ Allowed(d.objects, step)
         /\ Lay(d, step).objects = Changed(d.objects, step)
BY DEF Apply, Lay

LEMMA RunStarts ==
  ASSUME NEW f, NEW n, NEW objects, NEW rows, NEW steps, IsRun(f, n, objects, rows, steps)
  PROVE  f[0].ok /\ f[0].objects = objects /\ f[0].rows = rows
BY DEF IsRun

LEMMA RunGoesOn ==
  ASSUME NEW f, NEW n, NEW objects, NEW rows, NEW steps, IsRun(f, n, objects, rows, steps),
         NEW i \in 1..n
  PROVE  /\ f[i].ok <=> /\ f[i - 1].ok /\ Allowed(f[i - 1].objects, steps[i])
                        /\ Admits(f[i - 1].rows, steps[i])
         /\ f[i].objects = Changed(f[i - 1].objects, steps[i])
         /\ f[i].rows = Rewritten(f[i - 1].rows, steps[i])
<1>1. f[i] = Apply(f[i - 1], steps[i])
  BY DEF IsRun
<1> QED
  BY <1>1, Applied

LEMMA RowsKeepShape ==
  ASSUME NEW f, NEW n, NEW objects, NEW rows, NEW steps, IsRun(f, n, objects, rows, steps),
         RowShape(rows)
  PROVE  \A i \in 0..n : RowShape(f[i].rows) /\ NoWorse(rows, f[i].rows)
<1> DEFINE Kept(after) == RowShape(after) /\ NoWorse(rows, after)
           S == {i \in 0..n : Kept(f[i].rows)}
<1>1. n \in Nat
  BY DEF IsRun
<1>2. 0 \in S
  <2>1. f[0].rows = rows
    BY RunStarts
  <2>2. Kept(rows)
    BY DEF RowShape, NoWorse
  <2> QED
    BY <1>1, <2>1, <2>2
<1>3. \A i \in 1..n : i - 1 \in S => i \in S
  <2> SUFFICES ASSUME NEW i \in 1..n, Kept(f[i - 1].rows)
               PROVE  Kept(f[i].rows)
    BY <1>1
  <2>1. f[i].rows = Rewritten(f[i - 1].rows, steps[i])
    BY RunGoesOn
  <2>2. RowShape(f[i].rows) /\ NoWorse(f[i - 1].rows, f[i].rows)
    BY <2>1, RewrittenRows
  <2>3. {f[i].rows.engines, f[i - 1].rows.engines, rows.engines} \subseteq Nat
    BY <2>2 DEF RowShape
  <2> QED
    BY <2>2, <2>3 DEF NoWorse
<1> HIDE DEF S
<1>4. \A i \in 0..n : i \in S
  BY <1>1, <1>2, <1>3, SetInduction
<1> QED
  BY <1>4 DEF S

LEMMA RunIsNoWorse ==
  ASSUME NEW objects, NEW rows, NEW steps, Len(steps) \in Nat, RowShape(rows)
  PROVE  LET after == Run(objects, rows, steps).rows
         IN  RowShape(after) /\ NoWorse(rows, after)
<1>1. PICK n, f : /\ n = Len(steps) /\ IsRun(f, n, objects, rows, steps)
                  /\ Run(objects, rows, steps) = f[n]
  BY RunIs
<1>2. n \in 0..n
  BY <1>1 DEF IsRun
<1> QED
  BY <1>1, <1>2, RowsKeepShape

\* A transaction changes the objects as the revisions alone do, and is let through at most
\* where they are.
LEMMA RunLaysOut ==
  ASSUME NEW objects, NEW rows, NEW steps, Len(steps) \in Nat
  PROVE  /\ Run(objects, rows, steps).objects = Layout(objects, steps).objects
         /\ Run(objects, rows, steps).ok => Layout(objects, steps).ok
<1>1. PICK n, f : /\ n = Len(steps) /\ IsRun(f, n, objects, rows, steps)
                  /\ Run(objects, rows, steps) = f[n]
  BY RunIs
<1>2. PICK g : /\ g[0] = [ok |-> TRUE, objects |-> objects]
               /\ \A i \in 1..n : g[i] = Lay(g[i - 1], steps[i])
               /\ Layout(objects, steps) = g[n]
  BY <1>1, LayoutUnfolds
<1>3. n \in Nat
  BY <1>1 DEF IsRun
<1> DEFINE S == {i \in 0..n : f[i].objects = g[i].objects /\ (f[i].ok => g[i].ok)}
<1>4. 0 \in S
  <2>1. f[0].objects = objects
    BY <1>1, RunStarts
  <2>2. g[0].objects = objects /\ g[0].ok
    BY <1>2
  <2> QED
    BY <1>3, <2>1, <2>2
<1>5. \A i \in 1..n : i - 1 \in S => i \in S
  <2> SUFFICES ASSUME NEW i \in 1..n, i - 1 \in S
               PROVE  i \in S
    OBVIOUS
  <2>1. /\ g[i].ok <=> g[i - 1].ok /\ Allowed(g[i - 1].objects, steps[i])
        /\ g[i].objects = Changed(g[i - 1].objects, steps[i])
    <3>1. g[i] = Lay(g[i - 1], steps[i])
      BY <1>2
    <3> QED
      BY <3>1, Applied
  <2>2. /\ f[i].ok => f[i - 1].ok /\ Allowed(f[i - 1].objects, steps[i])
        /\ f[i].objects = Changed(f[i - 1].objects, steps[i])
    BY <1>1, RunGoesOn
  <2>3. f[i - 1].objects = g[i - 1].objects /\ (f[i - 1].ok => g[i - 1].ok)
    OBVIOUS
  <2>4. f[i].objects = g[i].objects /\ (f[i].ok => g[i].ok)
    BY <2>1, <2>2, <2>3
  <2> QED
    BY <1>3, <2>4
<1> HIDE DEF S
<1>6. \A i \in 0..n : i \in S
  BY <1>3, <1>4, <1>5, SetInduction
<1>7. n \in S
  BY <1>3, <1>6
<1> QED
  BY <1>1, <1>2, <1>7 DEF S

\* It leaves no constraint behind that the rows break.
Standing(objects, rows) == \A object \in objects : Satisfied(object, rows)

LEMMA ConstraintsKept ==
  ASSUME NEW rows, RowShape(rows), NEW step, NEW objects, Standing(objects, rows),
         Admits(rows, step),
         step.do \in {"create", "dropTypes"} => step.types \cap Constraints = {}
  PROVE  Standing(Changed(objects, step), Rewritten(rows, step))
<1> DEFINE after == Rewritten(rows, step)
<1> SUFFICES ASSUME NEW object \in Changed(objects, step)
             PROVE  Satisfied(object, after)
  BY DEF Standing
<1>1. CASE object \notin Constraints
  BY <1>1, WhatSatisfies
<1>2. CASE object \in Constraints
  <2>1. Satisfied(object, rows)
    <3>1. CASE object \in objects
      BY <3>1 DEF Standing
    <3>2. CASE object \notin objects
      <4>1. step.do = "create" /\ object = step.object
        BY <1>2, <3>2 DEF Changed
      <4> QED
        BY <4>1 DEF Admits
    <3> QED
      BY <3>1, <3>2
  <2>2. object = OrganizationGiven /\ step.do = "drop" => step.object # OrganizationColumn
    <3> SUFFICES ASSUME step.do = "drop", step.object = OrganizationColumn
                 PROVE  object # OrganizationGiven
      OBVIOUS
    <3>1. object \notin GoesWith(OrganizationColumn)
      BY DEF Changed
    <3> QED
      BY <3>1 DEF GoesWith, OrganizationColumn, OrganizationGiven
  <2>3. NoWorse(rows, after) /\ RowShape(after)
    BY RewrittenRows
  <2>4. CASE object = OneRunPerKey
    BY <2>1, <2>4, RewrittenRows
  <2>5. CASE object = OneEnginePerName
    <3>1. rows.engines <= 1 /\ rows.engines \in Nat /\ after.engines \in Nat
      BY <2>1, <2>3, <2>5, WhatSatisfies DEF RowShape
    <3> HIDE DEF after
    <3>2. after.engines <= 1
      BY <2>3, <3>1 DEF NoWorse
    <3> QED
      BY <2>5, <3>2, WhatSatisfies
  <2>6. CASE object = OrganizationGiven
    BY <2>1, <2>2, <2>6, RewrittenRows
  <2>7. CASE object = SameWorkspace
    <3>1. rows.strays = {}
      BY <2>1, <2>7, WhatSatisfies
    <3> HIDE DEF after
    <3>2. after.strays = {}
      BY <2>3, <3>1 DEF NoWorse
    <3> QED
      BY <2>7, <3>2, WhatSatisfies DEF after
  <2> QED
    BY <1>2, <2>4, <2>5, <2>6, <2>7 DEF Constraints
<1> QED
  BY <1>1, <1>2

LEMMA RunKeepsConstraints ==
  ASSUME NEW objects, NEW rows, NEW steps, Prepared(steps), RowShape(rows),
         Standing(objects, rows), Run(objects, rows, steps).ok
  PROVE  LET result == Run(objects, rows, steps) IN
         RowShape(result.rows) /\ Standing(result.objects, result.rows)
<1>1. PICK n, f : /\ n = Len(steps) /\ IsRun(f, n, objects, rows, steps)
                  /\ Run(objects, rows, steps) = f[n]
  BY RunIs DEF Prepared
<1>2. n \in Nat
  BY <1>1 DEF IsRun
<1>3. \A i \in 0..n : RowShape(f[i].rows) /\ NoWorse(rows, f[i].rows)
  BY <1>1, RowsKeepShape
<1> DEFINE S == {i \in 0..n : f[i].ok => Standing(f[i].objects, f[i].rows)}
<1>4. 0 \in S
  <2>1. f[0].objects = objects /\ f[0].rows = rows
    BY <1>1, RunStarts
  <2> QED
    BY <1>2, <2>1
<1>5. \A i \in 1..n : i - 1 \in S => i \in S
  <2> SUFFICES ASSUME NEW i \in 1..n, i - 1 \in S, f[i].ok
               PROVE  Standing(f[i].objects, f[i].rows)
    BY <1>2
  <2>1. f[i - 1].ok /\ Admits(f[i - 1].rows, steps[i])
    BY <1>1, RunGoesOn
  <2>2. i - 1 \in 0..n /\ Standing(f[i - 1].objects, f[i - 1].rows)
    BY <1>2, <2>1
  <2>3. steps[i].do \in {"create", "dropTypes"} => steps[i].types \cap Constraints = {}
    BY <1>1 DEF Prepared
  <2>4. Standing(Changed(f[i - 1].objects, steps[i]), Rewritten(f[i - 1].rows, steps[i]))
    BY <1>3, <2>1, <2>2, <2>3, ConstraintsKept
  <2>5. f[i].objects = Changed(f[i - 1].objects, steps[i]) /\ f[i].rows = Rewritten(f[i - 1].rows, steps[i])
    BY <1>1, RunGoesOn
  <2> QED
    BY <2>4, <2>5
<1> HIDE DEF S
<1>6. \A i \in 0..n : i \in S
  BY <1>2, <1>4, <1>5, SetInduction
<1>7. n \in S /\ n \in 0..n
  BY <1>2, <1>6
<1> QED
  BY <1>1, <1>3, <1>7 DEF S


\* Where the objects let it through, rows that it prepares do too.
LEMMA RunsThrough ==
  ASSUME NEW objects, NEW rows, NEW steps, Prepared(steps), RowShape(rows),
         Layout(objects, steps).ok,
         Touches(steps, "create", OneEnginePerName) => rows.engines <= 1,
         Touches(steps, "create", SameWorkspace) => rows.strays = {}
  PROVE  Run(objects, rows, steps).ok
<1>1. PICK n, f : /\ n = Len(steps) /\ IsRun(f, n, objects, rows, steps)
                  /\ Run(objects, rows, steps) = f[n]
  BY RunIs DEF Prepared
<1>2. n \in Nat
  BY <1>1 DEF IsRun
<1>3. \A i \in 0..n : RowShape(f[i].rows) /\ NoWorse(rows, f[i].rows)
  BY <1>1, RowsKeepShape
<1>4. PICK g : /\ g[0] = [ok |-> TRUE, objects |-> objects]
               /\ \A i \in 1..n : g[i] = Lay(g[i - 1], steps[i])
               /\ Layout(objects, steps) = g[n]
  BY <1>1, <1>2, LayoutUnfolds
<1>5. \A i \in 1..n : f[i].rows = Rewritten(f[i - 1].rows, steps[i])
  BY <1>1, RunGoesOn
\* What has been prepared by the step i.
<1> DEFINE Ready(i) ==
             /\ (\E k \in 1..i : steps[k].do = "collapse") => Satisfied(OneRunPerKey, f[i].rows)
             /\ (\E k \in 1..i : steps[k].do = "backfill")
                  /\ ~Touches(steps, "drop", OrganizationColumn)
                  => Satisfied(OrganizationGiven, f[i].rows)
           R == {i \in 0..n : Ready(i)}
<1>6. 0 \in R
  <2>1. f[0].rows = rows
    BY <1>1, RunStarts
  <2> QED
    BY <1>2, <2>1
<1>7. \A i \in 1..n : i - 1 \in R => i \in R
  <2> SUFFICES ASSUME NEW i \in 1..n, i - 1 \in R
               PROVE  Ready(i)
    BY <1>2
  <2> DEFINE before == f[i - 1].rows
             after == f[i].rows
             step == steps[i]
  <2>1. Ready(i - 1) /\ i - 1 \in 0..n /\ i \in 0..n
    BY <1>2
  <2>2. RowShape(before) /\ after = Rewritten(before, step)
    BY <1>3, <1>5, <2>1
  <2> HIDE DEF before, after
  <2>4. /\ Satisfied(OneRunPerKey, before) \/ step.do = "collapse" => Satisfied(OneRunPerKey, after)
        /\ \/ step.do = "backfill"
           \/ /\ Satisfied(OrganizationGiven, before)
              /\ step.do = "drop" => step.object # OrganizationColumn
           => Satisfied(OrganizationGiven, after)
    BY <2>2, RewrittenRows
  <2>6. ASSUME NEW k \in 1..i, steps[k].do = "collapse"
        PROVE  Satisfied(OneRunPerKey, after)
    <3>1. CASE k = i
      BY <2>4, <2>6, <3>1
    <3>2. CASE k # i
      <4>1. k \in 1..(i - 1)
        BY <1>2, <3>2
      <4>2. Satisfied(OneRunPerKey, before)
        BY <2>1, <2>6, <4>1 DEF before
      <4> QED
        BY <2>4, <4>2
    <3> QED
      BY <3>1, <3>2
  <2>7. ASSUME NEW k \in 1..i, steps[k].do = "backfill", ~Touches(steps, "drop", OrganizationColumn)
        PROVE  Satisfied(OrganizationGiven, after)
    <3>1. CASE k = i
      BY <2>4, <2>7, <3>1
    <3>2. CASE k # i
      <4>1. k \in 1..(i - 1)
        BY <1>2, <3>2
      <4>2. Satisfied(OrganizationGiven, before)
        BY <2>1, <2>7, <4>1 DEF before
      <4>3. step.do = "drop" => step.object # OrganizationColumn
        BY <1>1, <2>7 DEF Touches
      <4> QED
        BY <2>4, <4>2, <4>3
    <3> QED
      BY <3>1, <3>2
  <2> QED
    BY <2>6, <2>7 DEF after
<1> HIDE DEF R
<1>8. \A i \in 0..n : i \in R
  BY <1>2, <1>6, <1>7, SetInduction
<1>9. \A i \in 1..n : Admits(f[i - 1].rows, steps[i])
  <2> SUFFICES ASSUME NEW i \in 1..n, steps[i].do = "create"
               PROVE  Satisfied(steps[i].object, f[i - 1].rows)
    BY DEF Admits
  <2>1. i - 1 \in 0..n
    BY <1>2
  <2>2. Ready(i - 1)
    BY <1>8, <2>1 DEF R
  <2>3. CASE steps[i].object = OneRunPerKey
    <3>1. \E k \in 1..(i - 1) : steps[k].do = "collapse"
      BY <1>1, <2>3 DEF Prepared
    <3> QED
      BY <2>2, <2>3, <3>1
  <2>4. CASE steps[i].object = OrganizationGiven
    <3>1. /\ \E k \in 1..(i - 1) : steps[k].do = "backfill"
          /\ ~Touches(steps, "drop", OrganizationColumn)
      BY <1>1, <2>4 DEF Prepared, OrganizationColumn
    <3> QED
      BY <2>2, <2>4, <3>1
  <2>5. CASE steps[i].object = OneEnginePerName
    <3>1. rows.engines <= 1
      BY <1>1, <2>5 DEF Touches
    <3>2. f[i - 1].rows.engines <= rows.engines
      BY <1>3, <2>1 DEF NoWorse
    <3>3. {f[i - 1].rows.engines, rows.engines} \subseteq Nat
      BY <1>3, <2>1 DEF RowShape
    <3>4. f[i - 1].rows.engines <= 1
      BY <3>1, <3>2, <3>3
    <3> QED
      BY <2>5, <3>4, WhatSatisfies
  <2>6. CASE steps[i].object = SameWorkspace
    <3>1. rows.strays = {}
      BY <1>1, <2>6 DEF Touches
    <3>2. f[i - 1].rows.strays = {}
      BY <1>3, <2>1, <3>1 DEF NoWorse
    <3> QED
      BY <2>6, <3>2, WhatSatisfies
  <2>7. CASE steps[i].object \notin Constraints
    BY <2>7, WhatSatisfies
  <2> QED
    BY <2>3, <2>4, <2>5, <2>6, <2>7 DEF Constraints
<1> DEFINE S == {i \in 0..n : f[i].objects = g[i].objects /\ (g[i].ok => f[i].ok)}
<1>a4. 0 \in S
  <2>1. f[0].objects = objects /\ f[0].ok
    BY <1>1, RunStarts
  <2>2. g[0].objects = objects
    BY <1>4
  <2> QED
    BY <1>2, <2>1, <2>2
<1>a5. \A i \in 1..n : i - 1 \in S => i \in S
  <2> SUFFICES ASSUME NEW i \in 1..n, i - 1 \in S
               PROVE  i \in S
    OBVIOUS
  <2>1. /\ g[i].ok <=> g[i - 1].ok /\ Allowed(g[i - 1].objects, steps[i])
        /\ g[i].objects = Changed(g[i - 1].objects, steps[i])
    <3>1. g[i] = Lay(g[i - 1], steps[i])
      BY <1>4
    <3> QED
      BY <3>1, Applied
  <2>2. /\ f[i].ok <=> f[i - 1].ok /\ Allowed(f[i - 1].objects, steps[i])
        /\ f[i].objects = Changed(f[i - 1].objects, steps[i])
    BY <1>1, <1>9, RunGoesOn
  <2>3. f[i - 1].objects = g[i - 1].objects /\ (g[i - 1].ok => f[i - 1].ok)
    OBVIOUS
  <2>4. f[i].objects = g[i].objects /\ (g[i].ok => f[i].ok)
    BY <2>1, <2>2, <2>3
  <2> QED
    BY <1>2, <2>4
<1> HIDE DEF S
<1>a6. \A i \in 0..n : i \in S
  BY <1>2, <1>a4, <1>a5, SetInduction
<1>a7. n \in S /\ n \in 0..n
  BY <1>2, <1>a6
<1> QED
  BY <1>1, <1>4, <1>a7 DEF S

\* A transaction that rewrites nothing empties the tables it drops.
LEMMA RunEmpties ==
  ASSUME NEW objects, NEW rows, NEW steps, Prepared(steps), RowShape(rows),
         ~Does(steps, "collapse"), ~Does(steps, "backfill"),
         NEW table, Empty(rows, table) \/ Touches(steps, "drop", table)
  PROVE  Empty(Run(objects, rows, steps).rows, table)
<1>1. PICK n, f : /\ n = Len(steps) /\ IsRun(f, n, objects, rows, steps)
                  /\ Run(objects, rows, steps) = f[n]
  BY RunIs DEF Prepared
<1>2. n \in Nat
  BY <1>1 DEF IsRun
<1>3. \A i \in 0..n : RowShape(f[i].rows) /\ NoWorse(rows, f[i].rows)
  BY <1>1, RowsKeepShape
<1> DEFINE Gone(i) == Empty(rows, table) \/ \E k \in 1..i : steps[k].do = "drop" /\ steps[k].object = table
           S == {i \in 0..n : Gone(i) => Empty(f[i].rows, table)}
<1>4. 0 \in S
  BY <1>1, <1>2, RunStarts
<1>5. \A i \in 1..n : i - 1 \in S => i \in S
  <2> SUFFICES ASSUME NEW i \in 1..n, i - 1 \in S, Gone(i)
               PROVE  Empty(f[i].rows, table)
    BY <1>2
  <2>1. f[i].rows = Rewritten(f[i - 1].rows, steps[i]) /\ i - 1 \in 0..n
    BY <1>1, <1>2, RunGoesOn
  <2>2. steps[i].do \notin {"collapse", "backfill"}
    BY <1>1 DEF Does
  <2>3. Gone(i - 1) \/ (steps[i].do = "drop" /\ steps[i].object = table)
    BY <1>2
  <2>4. Empty(f[i - 1].rows, table) \/ (steps[i].do = "drop" /\ steps[i].object = table)
    BY <2>1, <2>3
  <2> QED
    BY <1>3, <2>1, <2>2, <2>4, EmptiedRows
<1> HIDE DEF S
<1>6. \A i \in 0..n : i \in S
  BY <1>2, <1>4, <1>5, SetInduction
<1>7. n \in S /\ n \in 0..n
  BY <1>2, <1>6
<1>8. Gone(n)
  BY <1>1 DEF Touches
<1> QED
  BY <1>1, <1>7, <1>8 DEF S



\* What an upgrade leaves of the rows: the members as they were, and of the runs the first
\* of each key.
First(runs, i) == \A k \in DOMAIN runs : k < i => runs[k] # runs[i]

Keeps(rows, after) ==
  /\ after.member = rows.member /\ after.admins = rows.admins
  /\ DOMAIN after.organization = DOMAIN rows.organization
  /\ DOMAIN after.runs \subseteq DOMAIN rows.runs
  /\ \A i \in DOMAIN after.runs : after.runs[i] = rows.runs[i]
  /\ \A i \in DOMAIN rows.runs : First(rows.runs, i) => i \in DOMAIN after.runs

LEMMA KeepsAdds ==
  ASSUME NEW rows, NEW middle, NEW after, Keeps(rows, middle), Keeps(middle, after)
  PROVE  Keeps(rows, after)
<1>1. \A i \in DOMAIN rows.runs : First(rows.runs, i) => i \in DOMAIN after.runs
  <2> SUFFICES ASSUME NEW i \in DOMAIN rows.runs, First(rows.runs, i)
               PROVE  i \in DOMAIN after.runs
    OBVIOUS
  <2>1. i \in DOMAIN middle.runs
    BY DEF Keeps
  <2>2. First(middle.runs, i)
    BY <2>1 DEF Keeps, First
  <2> QED
    BY <2>1, <2>2 DEF Keeps
<1> QED
  BY <1>1 DEF Keeps

LEMMA StepKeepsRows ==
  ASSUME NEW rows, RowShape(rows), NEW step, step.do = "drop" => step.object \notin Holders
  PROVE  Keeps(rows, Rewritten(rows, step))
<1> DEFINE after == Rewritten(rows, step)
<1>1. CASE step.do = "collapse"
  <2>1. after = Collapse(rows)
    BY <1>1 DEF Rewritten
  <2>2. after.member = rows.member /\ after.admins = rows.admins /\ after.organization = rows.organization
    BY <2>1, CollapsedRows DEF RowFields
  <2>3. /\ DOMAIN after.runs \subseteq DOMAIN rows.runs
        /\ \A i \in DOMAIN after.runs : after.runs[i] = rows.runs[i]
        /\ \A i \in DOMAIN rows.runs : First(rows.runs, i) => i \in DOMAIN after.runs
    BY <2>1, CollapsedRows DEF First
  <2> QED
    BY <2>2, <2>3 DEF Keeps
<1>2. CASE step.do = "backfill"
  <2>1. after = Backfill(rows)
    BY <1>2 DEF Rewritten
  <2>2. /\ after.member = rows.member /\ after.admins = rows.admins /\ after.runs = rows.runs
        /\ DOMAIN after.organization = DOMAIN rows.organization
    BY <2>1, BackfilledRows DEF RowFields
  <2> QED
    BY <2>2 DEF Keeps
<1>3. CASE step.do \notin {"collapse", "backfill"}
  <2>1. after = rows
    <3>1. CASE step.do = "drop"
      BY <3>1, ErasedRows DEF Rewritten
    <3>2. CASE step.do # "drop"
      BY <1>3, <3>2 DEF Rewritten
    <3> QED
      BY <3>1, <3>2
  <2> QED
    BY <2>1 DEF Keeps
<1> QED
  BY <1>1, <1>2, <1>3

LEMMA RunKeepsRows ==
  ASSUME NEW objects, NEW rows, NEW steps, Prepared(steps), RowShape(rows),
         \A object \in Holders : ~Touches(steps, "drop", object)
  PROVE  Keeps(rows, Run(objects, rows, steps).rows)
<1>1. PICK n, f : /\ n = Len(steps) /\ IsRun(f, n, objects, rows, steps)
                  /\ Run(objects, rows, steps) = f[n]
  BY RunIs DEF Prepared
<1>2. n \in Nat
  BY <1>1 DEF IsRun
<1>3. \A i \in 0..n : RowShape(f[i].rows) /\ NoWorse(rows, f[i].rows)
  BY <1>1, RowsKeepShape
<1> DEFINE S == {i \in 0..n : Keeps(rows, f[i].rows)}
<1>4. 0 \in S
  <2>1. f[0].rows = rows
    BY <1>1, RunStarts
  <2>2. Keeps(rows, rows)
    BY DEF Keeps
  <2> QED
    BY <1>2, <2>1, <2>2
<1>5. \A i \in 1..n : i - 1 \in S => i \in S
  <2> SUFFICES ASSUME NEW i \in 1..n, i - 1 \in S
               PROVE  Keeps(rows, f[i].rows)
    BY <1>2
  <2>1. f[i].rows = Rewritten(f[i - 1].rows, steps[i]) /\ i - 1 \in 0..n
    BY <1>1, <1>2, RunGoesOn
  <2>2. steps[i].do = "drop" => steps[i].object \notin Holders
    BY <1>1 DEF Touches
  <2>3. Keeps(f[i - 1].rows, f[i].rows)
    BY <1>3, <2>1, <2>2, StepKeepsRows
  <2> QED
    BY <2>3, KeepsAdds
<1> HIDE DEF S
<1>6. \A i \in 0..n : i \in S
  BY <1>2, <1>4, <1>5, SetInduction
<1>7. n \in S
  BY <1>2, <1>6
<1> QED
  BY <1>1, <1>7 DEF S

----------------------------------------------------------------------------
(* The invariant *)

Bare(rows) ==
  \A table \in {<<"executions">>, <<"workspaces">>, <<"engine_instances">>} : Empty(rows, table)

\* What every database that there is keeps to, the live one, the dumped and the restored.
Fitting(d) ==
  /\ DOMAIN d = {"objects", "version", "rows", "sealedBy"}
  /\ RowShape(d.rows) /\ Standing(d.objects, d.rows)
  /\ d.version \in 0..HeadRevision
  /\ d.version = 0 => d.objects \in {{}, Metadata} /\ Bare(d.rows)
  /\ d.version > 0 => d.objects = ObjectsAt[d.version]
  /\ d.version < HeadRevision => d.rows.orgMember = Nobody

TargetFields == {"at", "db", "forced", "key", "opens", "verified"}

Shapes ==
  /\ DOMAIN job = Jobs
  /\ \A j \in Jobs : DOMAIN job[j] = {"at", "seen", "tries"} /\ job[j].seen \in 0..HeadRevision
  /\ DOMAIN image = {"at", "dump", "revision", "counts", "key", "opens", "verified"}
  /\ DOMAIN target = TargetFields

\* A job that is past the check has a database at the head to seed.
CheckedAtHead ==
  \A j \in Jobs :
    job[j].at \in {"engine", "add engine", "admin", "add admin", "add home"} => db.version = HeadRevision

BuildingAll == building => db.objects = Metadata

\* The revision that the manifest names is the dump's while nothing may change the database,
\* and that it is compared in the verification.
ManifestIsOfDump ==
  /\ ~overlap =>
       /\ image.at \in {"dumped", "revision"} => image.dump = db
       /\ image.at \in {"revision", "complete"} => image.revision = image.dump.version
  /\ image.verified => image.at = "complete" /\ image.revision = image.dump.version
  /\ image.opens => image.dump.sealedBy = image.key

\* What was found of the image when the restore began holds of what it fills the target with.
TargetIsOfImage ==
  target.at # "none" =>
    /\ ~target.forced /\ (overlap => target.verified) => target.db.version = HeadRevision
    /\ target.key # KeyUnset /\ target.opens => target.db.sealedBy = target.key

IInv ==
  /\ Shapes
  /\ Fitting(db) /\ Fitting(image.dump) /\ Fitting(target.db)
  /\ CheckedAtHead /\ BuildingAll /\ ManifestIsOfDump /\ TargetIsOfImage

LEMMA HeadIsANumber == HeadRevision \in Nat /\ HeadRevision > 0 /\ 0 \in 0..HeadRevision
<1> DEFINE first == FirstTables \o WorkspaceTables \o RunTables \o CircularKeys
<1>1. Upgrade = <<first, IdempotencyUp, SealedPayloadUp, WorkerBeatUp, TenantKeysUp, OrganizationsUp>>
  BY DEF Upgrade
<1> HIDE DEF first
<1> QED
  BY <1>1 DEF HeadRevision

LEMMA Bareness ==
  ASSUME NEW rows
  PROVE  /\ Bare(rows) <=> /\ DOMAIN rows.runs = {} /\ DOMAIN rows.organization = {}
                           /\ rows.engines = 0 /\ rows.strays = {}
         /\ Bare(rows) => Standing(Metadata, rows)
<1>1. Bare(rows) <=> /\ DOMAIN rows.runs = {} /\ DOMAIN rows.organization = {} /\ rows.engines = 0
                     /\ rows.strays = {}
  BY DEF Bare, Empty
<1>2. ASSUME Bare(rows), NEW object \in Metadata PROVE Satisfied(object, rows)
  BY <1>1, <1>2 DEF Satisfied
<1> QED
  BY <1>1, <1>2 DEF Standing

\* The tables of a database tell its revision.
LEMMA ObjectsTell ==
  ASSUME NEW d, Fitting(d)
  PROVE  /\ d.version = HeadRevision => d.objects = Metadata
         /\ d.version > 0 /\ d.objects \in {{}, Metadata} => d.version = HeadRevision
         /\ d.version > 0 => d.version \in 1..HeadRevision
<1>1. /\ d.version \in 0..HeadRevision /\ HeadRevision \in Nat /\ HeadRevision > 0
      /\ d.version > 0 => d.objects = ObjectsAt[d.version]
  BY HeadIsANumber DEF Fitting
<1>2. d.version > 0 => d.version \in 1..HeadRevision
  BY <1>1
<1>3. ObjectsAt[HeadRevision] = Metadata
  BY LayoutsAssumption
<1>4. \A r \in 1..HeadRevision : ObjectsAt[r] \in {{}, Metadata} => r = HeadRevision
  BY LayoutsAssumption
<1> QED
  BY <1>1, <1>2, <1>3, <1>4

\* An upgrade to the head.
LEMMA MigrationGives ==
  ASSUME NEW d, Fitting(d), d.version < HeadRevision,
         Run(d.objects, d.rows, Chain(d.version + 1, HeadRevision)).ok
  PROVE  LET result == Run(d.objects, d.rows, Chain(d.version + 1, HeadRevision)) IN
         /\ d.objects = ObjectsAt[d.version]
         /\ result.objects = Metadata
         /\ RowShape(result.rows) /\ Standing(result.objects, result.rows)
         /\ Keeps(d.rows, result.rows)
<1> DEFINE steps == Chain(d.version + 1, HeadRevision)
           result == Run(d.objects, d.rows, steps)
<1>1. /\ d.version \in 0..HeadRevision /\ RowShape(d.rows) /\ Standing(d.objects, d.rows)
      /\ d.version = 0 => d.objects \in {{}, Metadata}
      /\ d.version > 0 => d.objects = ObjectsAt[d.version]
  BY DEF Fitting
<1>2. /\ Prepared(steps) /\ Len(steps) \in Nat
      /\ \A object \in Holders : ~Touches(steps, "drop", object)
  BY <1>1, StepsAssumption DEF Prepared
<1> HIDE DEF steps
<1>3. Layout(d.objects, steps).ok /\ result.objects = Layout(d.objects, steps).objects
  BY <1>2, RunLaysOut DEF steps
<1>4. d.objects = ObjectsAt[d.version]
  <2>1. CASE d.version = 0
    <3>1. steps = Chain(1, HeadRevision)
      BY <2>1 DEF steps
    <3>2. d.objects # Metadata
      BY <1>3, <3>1, LayoutsAssumption
    <3> QED
      BY <1>1, <2>1, <3>2, LayoutsAssumption
  <2>2. CASE d.version # 0
    BY <1>1, <2>2, HeadIsANumber
  <2> QED
    BY <2>1, <2>2
<1>5. result.objects = Metadata
  <2>1. Layout(ObjectsAt[d.version], steps) = [ok |-> TRUE, objects |-> Metadata]
    BY <1>1, LayoutsAssumption DEF steps
  <2> QED
    BY <1>3, <1>4, <2>1
<1>6. RowShape(result.rows) /\ Standing(result.objects, result.rows)
  BY <1>1, <1>2, RunKeepsConstraints DEF steps
<1>7. Keeps(d.rows, result.rows)
  BY <1>1, <1>2, RunKeepsRows
<1> QED
  BY <1>4, <1>5, <1>6, <1>7 DEF steps

\* `alembic downgrade -1`
LEMMA StepDownGives ==
  ASSUME NEW d, Fitting(d), d.version > 0, NEW e,
         Run(d.objects, d.rows, Downgrade[d.version]).ok,
         DOMAIN e = DOMAIN d, e.version = d.version - 1,
         e.objects = Run(d.objects, d.rows, Downgrade[d.version]).objects,
         e.rows = Run(d.objects, d.rows, Downgrade[d.version]).rows
  PROVE  Fitting(e)
<1> DEFINE r == d.version
           steps == Downgrade[r]
<1>1. /\ r \in 1..HeadRevision /\ RowShape(d.rows) /\ Standing(d.objects, d.rows)
      /\ d.objects = ObjectsAt[r]
      /\ r < HeadRevision => d.rows.orgMember = Nobody
      /\ r - 1 \in 0..HeadRevision
      /\ DOMAIN d = {"objects", "version", "rows", "sealedBy"}
  BY HeadIsANumber DEF Fitting
<1>2. /\ Prepared(steps) /\ Len(steps) \in Nat
      /\ ~Does(steps, "collapse") /\ ~Does(steps, "backfill")
      /\ r = HeadRevision => Touches(steps, "drop", <<"organization_memberships">>)
      /\ r = 1 => \A table \in {<<"executions">>, <<"workspaces">>, <<"engine_instances">>} :
                    Touches(steps, "drop", table)
  <2>1. Prepared(steps) /\ ~Does(steps, "collapse") /\ ~Does(steps, "backfill")
    BY <1>1, StepsAssumption
  <2>2. Len(steps) \in Nat
    BY <2>1 DEF Prepared
  <2>3. r = HeadRevision => Touches(steps, "drop", <<"organization_memberships">>)
    BY StepsAssumption
  <2>4. r = 1 => \A table \in {<<"executions">>, <<"workspaces">>, <<"engine_instances">>} :
                  Touches(steps, "drop", table)
    BY StepsAssumption
  <2> QED
    BY <2>1, <2>2, <2>3, <2>4
<1> HIDE DEF r, steps
<1>3. e.objects = ObjectsAt[r - 1]
  <2>1. e.objects = Layout(ObjectsAt[r], steps).objects
    BY <1>1, <1>2, RunLaysOut DEF steps, r
  <2>2. Layout(ObjectsAt[r], steps) = [ok |-> TRUE, objects |-> ObjectsAt[r - 1]]
    BY <1>1, LayoutsAssumption DEF steps
  <2> QED
    BY <2>1, <2>2
<1>4. RowShape(e.rows) /\ Standing(e.objects, e.rows)
  BY <1>1, <1>2, RunKeepsConstraints DEF steps, r
<1>5. \A table : Empty(d.rows, table) \/ Touches(steps, "drop", table) => Empty(e.rows, table)
  BY <1>1, <1>2, RunEmpties DEF steps, r
<1>6. e.rows.orgMember = Nobody
  <2>1. Empty(d.rows, <<"organization_memberships">>)
          \/ Touches(steps, "drop", <<"organization_memberships">>)
    <3>1. CASE r < HeadRevision
      BY <1>1, <3>1 DEF Empty
    <3>2. CASE r = HeadRevision
      BY <1>2, <3>2
    <3> QED
      BY <1>1, <3>1, <3>2, HeadIsANumber
  <2>2. Empty(e.rows, <<"organization_memberships">>)
    BY <1>5, <2>1
  <2> QED
    BY <2>2 DEF Empty
<1>7. r = 1 => e.objects = {} /\ Bare(e.rows)
  BY <1>2, <1>3, <1>5, LayoutsAssumption DEF Bare
<1>8. e.version = r - 1 /\ DOMAIN e = {"objects", "version", "rows", "sealedBy"}
  BY <1>1 DEF r
<1> QED
  BY <1>1, <1>3, <1>4, <1>6, <1>7, <1>8 DEF Fitting

----------------------------------------------------------------------------
(* The invariant holds at first *)

LEMMA NothingThere == Fitting(Database({}, 0, NoRows)) /\ Fitting(NoImage.dump)
<1> DEFINE d == Database({}, 0, NoRows)
<1>1. DOMAIN NoRows = RowFields /\ NoRows.engines = 0 /\ NoRows.orgMember = Nobody
        /\ NoRows.runs = << >> /\ NoRows.organization = << >> /\ NoRows.strays = {}
  BY DEF NoRows, RowFields, Nobody
<1>2. DOMAIN NoRows.runs = {} /\ DOMAIN NoRows.organization = {}
  BY <1>1
<1>3. RowShape(NoRows) /\ Bare(NoRows)
  BY <1>1, <1>2, Bareness DEF RowShape
<1>4. DOMAIN d = {"objects", "version", "rows", "sealedBy"} /\ d.objects = {} /\ d.version = 0
        /\ d.rows = NoRows
  BY DEF Database
<1>5. Standing({}, NoRows)
  BY DEF Standing
<1> HIDE DEF d
<1>6. Fitting(d)
  BY <1>1, <1>3, <1>4, <1>5, HeadIsANumber DEF Fitting
<1>7. NoImage.dump = d
  BY DEF NoImage, d
<1> QED
  BY <1>6, <1>7 DEF d

LEMMA LeftFits ==
  ASSUME NEW r \in 1..(HeadRevision - 1), NEW rows \in LeftBehind,
         \A object \in ObjectsAt[r] : Satisfied(object, rows)
  PROVE  Fitting(Database(ObjectsAt[r], r, rows))
<1> DEFINE d == Database(ObjectsAt[r], r, rows)
<1>1. /\ DOMAIN rows = DOMAIN NoRows /\ rows.runs \in Seq(Keys \cup {NoKey})
      /\ rows.engines \in Nat /\ rows.orgMember = NoRows.orgMember
  BY DeploymentAssumption
<1>2. DOMAIN NoRows = RowFields /\ NoRows.orgMember = Nobody
  BY DEF NoRows, RowFields, Nobody
<1>3. Len(rows.runs) \in Nat /\ DOMAIN rows.runs \subseteq 0..Len(rows.runs)
  BY <1>1
<1>4. RowShape(rows)
  BY <1>1, <1>2, <1>3 DEF RowShape
<1>5. r \in 0..HeadRevision /\ r # 0 /\ r > 0
  BY HeadIsANumber
<1>6. DOMAIN d = {"objects", "version", "rows", "sealedBy"} /\ d.objects = ObjectsAt[r]
        /\ d.version = r /\ d.rows = rows
  BY DEF Database
<1> HIDE DEF d
<1>7. Fitting(d)
  BY <1>1, <1>2, <1>4, <1>5, <1>6 DEF Fitting, Standing
<1> QED
  BY <1>7 DEF d

LEMMA InitHolds == DeploymentInit => IInv
<1> SUFFICES ASSUME DeploymentInit PROVE IInv
  OBVIOUS
<1>1. Fitting(db)
  BY NothingThere, LeftFits DEF DeploymentInit
<1>2. Fitting(image.dump) /\ Fitting(target.db)
  BY NothingThere DEF DeploymentInit, NoTarget
<1>3. Shapes
  BY HeadIsANumber DEF DeploymentInit, Shapes, NoImage, NoTarget, TargetFields
<1>4. CheckedAtHead /\ BuildingAll
  BY DEF DeploymentInit, CheckedAtHead, BuildingAll
<1>5. image.at = "none" /\ ~image.opens /\ ~image.verified /\ target.at = "none"
  BY DEF DeploymentInit, NoImage, NoTarget
<1> QED
  BY <1>1, <1>2, <1>3, <1>4, <1>5 DEF IInv, ManifestIsOfDump, TargetIsOfImage

----------------------------------------------------------------------------
(* The steps of a job *)

LEMMA TargetStays ==
  ASSUME IInv, target' \in {target, NoTarget}, UNCHANGED overlap
  PROVE  DOMAIN target' = TargetFields /\ Fitting(target'.db) /\ TargetIsOfImage'
<1>1. DOMAIN NoTarget = TargetFields /\ Fitting(NoTarget.db) /\ NoTarget.at = "none"
  BY NothingThere DEF NoTarget, TargetFields
<1>2. CASE target' = target
  BY <1>2 DEF IInv, Shapes, TargetIsOfImage
<1>3. CASE target' = NoTarget
  BY <1>1, <1>3 DEF TargetIsOfImage
<1> QED
  BY <1>2, <1>3

LEMMA DatabaseMoves ==
  ASSUME IInv, MayChange, Shapes', Fitting(db'), target' \in {target, NoTarget}, CheckedAtHead',
         BuildingAll', UNCHANGED <<image, key, overlap>>
  PROVE  IInv'
<1>1. ManifestIsOfDump'
  BY DEF IInv, MayChange, ManifestIsOfDump
<1>2. Fitting(target'.db) /\ TargetIsOfImage'
  BY TargetStays
<1> QED
  BY <1>1, <1>2 DEF IInv

LEMMA JobMoves ==
  ASSUME IInv, NEW j \in Jobs, NEW at, JobGoes(j, at)
  PROVE  /\ DOMAIN job' = Jobs
         /\ \A i \in Jobs : DOMAIN job'[i] = {"at", "seen", "tries"} /\ job'[i].seen \in 0..HeadRevision
         /\ job'[j].at = at /\ \A i \in Jobs \ {j} : job'[i].at = job[i].at
<1>1. job' = [job EXCEPT ![j] = [job[j] EXCEPT !.at = at]]
  BY DEF JobGoes
<1>2. DOMAIN job = Jobs /\ \A i \in Jobs : DOMAIN job[i] = {"at", "seen", "tries"} /\ job[i].seen \in 0..HeadRevision
  BY DEF IInv, Shapes
<1>3. job'[j] = [job[j] EXCEPT !.at = at] /\ \A i \in Jobs \ {j} : job'[i] = job[i]
  BY <1>1, <1>2
<1>4. DOMAIN job'[j] = {"at", "seen", "tries"} /\ job'[j].seen = job[j].seen /\ job'[j].at = at
  BY <1>2, <1>3
<1> QED
  BY <1>1, <1>2, <1>3, <1>4

\* A step of a job that leaves the database alone ...
LEMMA JobOnly ==
  ASSUME IInv, NEW j \in Jobs, NEW at, JobGoes(j, at), OnlyJobs,
         at \in {"engine", "add engine", "admin", "add admin", "add home"} => db.version = HeadRevision
  PROVE  IInv'
<1>1. Shapes'
  BY JobMoves DEF IInv, Shapes, OnlyJobs
<1>2. CheckedAtHead'
  BY JobMoves DEF IInv, CheckedAtHead, OnlyJobs
<1>3. /\ BuildingAll' /\ ManifestIsOfDump' /\ TargetIsOfImage'
      /\ Fitting(db') /\ Fitting(image'.dump) /\ Fitting(target'.db)
  BY DEF IInv, BuildingAll, ManifestIsOfDump, TargetIsOfImage, OnlyJobs
<1> QED
  BY <1>1, <1>2, <1>3 DEF IInv

\* ... and one that writes to it.
LEMMA JobWrites ==
  ASSUME IInv, NEW j \in Jobs, NEW at, JobGoes(j, at), OnlyDb, MayChange, Fitting(db'),
         building => db'.objects = Metadata,
         db.version = HeadRevision => db'.version = HeadRevision,
         at \in {"engine", "add engine", "admin", "add admin", "add home"} => db'.version = HeadRevision
  PROVE  IInv'
<1>1. Shapes'
  BY JobMoves DEF IInv, Shapes, OnlyDb
<1>2. CheckedAtHead'
  BY JobMoves DEF IInv, CheckedAtHead
<1>3. BuildingAll' /\ UNCHANGED <<image, target, key, overlap>>
  BY DEF IInv, BuildingAll, OnlyDb
<1> QED
  BY <1>1, <1>2, <1>3, DatabaseMoves

LEMMA StartKeeps ==
  ASSUME IInv, NEW j \in Jobs, StartMigration(j)
  PROVE  IInv'
<1>1. job' = [job EXCEPT ![j] = [at |-> "migrating", seen |-> db.version, tries |-> job[j].tries + 1]]
        /\ OnlyJobs
  BY DEF StartMigration
<1>2. DOMAIN job = Jobs /\ \A i \in Jobs : DOMAIN job[i] = {"at", "seen", "tries"} /\ job[i].seen \in 0..HeadRevision
  BY DEF IInv, Shapes
<1>3. DOMAIN job' = Jobs /\ job'[j] = [at |-> "migrating", seen |-> db.version, tries |-> job[j].tries + 1]
        /\ \A i \in Jobs \ {j} : job'[i] = job[i]
  BY <1>1, <1>2
<1>4. db.version \in 0..HeadRevision
  BY DEF IInv, Fitting
<1>5. DOMAIN job'[j] = {"at", "seen", "tries"} /\ job'[j].seen \in 0..HeadRevision /\ job'[j].at = "migrating"
  BY <1>3, <1>4
<1>6. Shapes'
  BY <1>1, <1>2, <1>3, <1>5 DEF IInv, Shapes, OnlyJobs
<1>7. CheckedAtHead'
  BY <1>1, <1>3, <1>5 DEF IInv, CheckedAtHead, OnlyJobs
<1>8. /\ BuildingAll' /\ ManifestIsOfDump' /\ TargetIsOfImage'
      /\ Fitting(db') /\ Fitting(image'.dump) /\ Fitting(target'.db)
  BY <1>1 DEF IInv, BuildingAll, ManifestIsOfDump, TargetIsOfImage, OnlyJobs
<1> QED
  BY <1>6, <1>7, <1>8 DEF IInv

\* A database at the head fits by its rows.
LEMMA FitsAtHead ==
  ASSUME NEW e, DOMAIN e = {"objects", "version", "rows", "sealedBy"},
         e.version = HeadRevision, e.objects = Metadata,
         RowShape(e.rows), Standing(Metadata, e.rows)
  PROVE  Fitting(e)
<1>1. HeadRevision \in 0..HeadRevision /\ HeadRevision # 0 /\ ~(HeadRevision < HeadRevision)
  BY HeadIsANumber
<1>2. Metadata = ObjectsAt[HeadRevision]
  BY LayoutsAssumption
<1> QED
  BY <1>1, <1>2 DEF Fitting

LEMMA MigrateKeeps ==
  ASSUME IInv, NEW j \in Jobs, Migrate(j)
  PROVE  IInv'
<1> DEFINE seen == job[j].seen
           result == Run(db.objects, db.rows, Chain(seen + 1, HeadRevision))
<1>1. MayChange /\ OnlyDb /\ Fitting(db)
  BY DEF Migrate, IInv
<1>2. CASE ~(result.ok /\ VersionRowMatches(seen))
  <2>1. db' = db /\ JobGoes(j, "failed")
    BY <1>2 DEF Migrate
  <2> QED
    BY <1>1, <2>1, JobWrites DEF IInv, BuildingAll
<1>3. CASE result.ok /\ VersionRowMatches(seen)
  <2>1. /\ JobGoes(j, "checking")
        /\ db' = IF seen = HeadRevision THEN db
                 ELSE [db EXCEPT !.objects = result.objects, !.rows = result.rows,
                                 !.version = HeadRevision]
    BY <1>3 DEF Migrate
  <2>2. CASE seen = HeadRevision
    <3>1. db' = db
      BY <2>1, <2>2
    <3> QED
      BY <1>1, <2>1, <3>1, JobWrites DEF IInv, BuildingAll
  <2>3. CASE seen # HeadRevision
    <3>1. db.version = seen /\ seen \in 0..HeadRevision /\ db.version < HeadRevision
      BY <1>3, <2>3, HeadIsANumber DEF VersionRowMatches, IInv, Shapes
    <3>2. /\ result.objects = Metadata
          /\ RowShape(result.rows) /\ Standing(result.objects, result.rows)
      BY <1>1, <1>3, <3>1, MigrationGives
    <3>3. DOMAIN db = {"objects", "version", "rows", "sealedBy"}
      BY <1>1 DEF Fitting
    <3> HIDE DEF result
    <3>4. /\ DOMAIN db' = {"objects", "version", "rows", "sealedBy"}
          /\ db'.objects = Metadata /\ db'.rows = result.rows /\ db'.version = HeadRevision
      BY <2>1, <2>3, <3>2, <3>3
    <3>5. Fitting(db')
      BY <3>2, <3>4, FitsAtHead
    <3> QED
      BY <1>1, <2>1, <3>4, <3>5, JobWrites
  <2> QED
    BY <2>2, <2>3
<1> QED
  BY <1>2, <1>3

LEMMA CheckKeeps ==
  ASSUME IInv, NEW j \in Jobs, Check(j)
  PROVE  IInv'
<1>1. CASE Problems(db) = {}
  <2>1. db.version = HeadRevision
    BY <1>1 DEF Problems
  <2> QED
    BY <1>1, <2>1, JobOnly DEF Check
<1>2. CASE Problems(db) # {}
  BY <1>2, JobOnly DEF Check
<1> QED
  BY <1>1, <1>2

LEMMA ReadsKeep ==
  ASSUME IInv, NEW j \in Jobs, ReadEngine(j) \/ ReadAdmin(j) \/ Crash(j)
  PROVE  IInv'
<1>1. job[j].at \in {"engine", "admin"} => db.version = HeadRevision
  BY DEF IInv, CheckedAtHead
<1>2. CASE ReadEngine(j)
  BY <1>1, <1>2, JobOnly DEF ReadEngine
<1>3. CASE ReadAdmin(j)
  BY <1>1, <1>3, JobOnly DEF ReadAdmin
<1>4. CASE Crash(j)
  BY <1>4, JobOnly DEF Crash
<1> QED
  BY <1>2, <1>3, <1>4

\* What a seed finds: a database at the head.
LEMMA SeedFinds ==
  ASSUME IInv, NEW j \in Jobs, job[j].at \in {"add engine", "add admin", "add home"}
  PROVE  /\ Fitting(db) /\ db.version = HeadRevision /\ db.objects = Metadata
         /\ DOMAIN db = {"objects", "version", "rows", "sealedBy"}
         /\ RowShape(db.rows) /\ Standing(Metadata, db.rows)
<1>1. Fitting(db) /\ db.version = HeadRevision
  BY DEF IInv, CheckedAtHead
<1> QED
  BY <1>1, ObjectsTell DEF Fitting

LEMMA AddEngineKeeps ==
  ASSUME IInv, NEW j \in Jobs, AddEngine(j)
  PROVE  IInv' /\ (db' # db => db.rows.engines = 0)
<1>1. /\ MayChange /\ OnlyDb
      /\ Fitting(db) /\ db.version = HeadRevision /\ db.objects = Metadata
      /\ DOMAIN db = {"objects", "version", "rows", "sealedBy"}
      /\ RowShape(db.rows) /\ Standing(Metadata, db.rows)
  BY SeedFinds DEF AddEngine
<1>2. CASE ~EngineUnique
  <2>1. db' = db /\ JobGoes(j, "failed")
    BY <1>2 DEF AddEngine
  <2> QED
    BY <1>1, <2>1, JobWrites
<1>3. CASE EngineUnique
  <2>1. JobGoes(j, "admin") /\ db' = [db EXCEPT !.rows.engines = db.rows.engines + 1]
    BY <1>3 DEF AddEngine
  <2>2. db.rows.engines = 0
    BY <1>1, <1>3, LayoutsAssumption DEF EngineUnique, Constraints, OneEnginePerName
  <2>3. /\ DOMAIN db' = DOMAIN db /\ db'.version = HeadRevision /\ db'.objects = Metadata
        /\ db'.rows = [db.rows EXCEPT !.engines = 1]
    BY <1>1, <2>1, <2>2
  <2>4. /\ DOMAIN db'.rows = RowFields /\ db'.rows.engines = 1
        /\ db'.rows.runs = db.rows.runs /\ db'.rows.organization = db.rows.organization
        /\ db'.rows.strays = db.rows.strays
    BY <1>1, <2>3 DEF RowShape, RowFields
  <2>5. RowShape(db'.rows)
    BY <1>1, <2>4 DEF RowShape
  <2>6. Standing(Metadata, db'.rows)
    BY <1>1, <2>4 DEF Standing, Satisfied
  <2>7. Fitting(db')
    BY <1>1, <2>3, <2>5, <2>6, FitsAtHead
  <2> QED
    BY <1>1, <2>1, <2>2, <2>3, <2>7, JobWrites
<1> QED
  BY <1>2, <1>3

LEMMA AddAdminKeeps ==
  ASSUME IInv, NEW j \in Jobs, AddAdmin(j)
  PROVE  IInv'
<1>1. /\ MayChange /\ OnlyDb
      /\ Fitting(db) /\ db.version = HeadRevision /\ db.objects = Metadata
      /\ DOMAIN db = {"objects", "version", "rows", "sealedBy"}
      /\ RowShape(db.rows) /\ Standing(Metadata, db.rows)
  BY SeedFinds DEF AddAdmin
<1>2. CASE db.rows.users # {}
  <2>1. db' = db /\ JobGoes(j, "failed")
    BY <1>2 DEF AddAdmin
  <2> QED
    BY <1>1, <2>1, JobWrites
<1>3. CASE db.rows.users = {}
  <2> DEFINE home == [w \in {Home} |-> "appbi-automation"]
             members == [w \in {Home} |-> [u \in People |-> IF u = Admin THEN "OWNER" ELSE NoRole]]
  <2>1. /\ JobGoes(j, "done")
        /\ db' = [db EXCEPT !.rows.users = {Admin}, !.rows.admins = {Admin},
                    !.rows.organization = home, !.rows.member = members,
                    !.rows.orgMember[Admin] = "ORG_OWNER"]
    BY <1>3 DEF AddAdmin
  <2>2. \A w \in DOMAIN home : home[w] # NoOrganization
    BY DEF NoOrganization
  <2> HIDE DEF home, members
  <2>3. DOMAIN db' = DOMAIN db /\ db'.version = HeadRevision /\ db'.objects = Metadata
    BY <1>1, <2>1
  <2>4. /\ DOMAIN db'.rows = RowFields /\ db'.rows.engines = db.rows.engines
        /\ db'.rows.runs = db.rows.runs /\ db'.rows.organization = home
        /\ db'.rows.strays = db.rows.strays
    BY <1>1, <2>1 DEF RowShape, RowFields
  <2>5. RowShape(db'.rows)
    BY <1>1, <2>4 DEF RowShape
  <2>6. Standing(Metadata, db'.rows)
    BY <1>1, <2>2, <2>4 DEF Standing, Satisfied
  <2>7. Fitting(db')
    BY <1>1, <2>3, <2>5, <2>6, FitsAtHead
  <2> QED
    BY <1>1, <2>1, <2>3, <2>7, JobWrites
<1> QED
  BY <1>2, <1>3

LEMMA AddHomeKeeps ==
  ASSUME IInv, NEW j \in Jobs, AddHome(j)
  PROVE  IInv'
<1>1. /\ MayChange /\ OnlyDb
      /\ Fitting(db) /\ db.version = HeadRevision /\ db.objects = Metadata
      /\ DOMAIN db = {"objects", "version", "rows", "sealedBy"}
      /\ RowShape(db.rows) /\ Standing(Metadata, db.rows)
  BY SeedFinds DEF AddHome
<1>2. CASE Home \in DOMAIN db.rows.organization
  <2>1. db' = db /\ JobGoes(j, "failed")
    BY <1>2 DEF AddHome
  <2> QED
    BY <1>1, <2>1, JobWrites
<1>3. CASE Home \notin DOMAIN db.rows.organization
  <2> DEFINE before == db.rows.organization
             homes == [w \in DOMAIN before \cup {Home} |->
                         IF w \in DOMAIN before THEN before[w] ELSE "appbi-automation"]
  <2>1. PICK members : db' = [db EXCEPT !.rows.organization = homes, !.rows.member = members]
    BY <1>3 DEF AddHome
  <2>2. JobGoes(j, "done")
    BY <1>3 DEF AddHome
  <2>3. \A w \in DOMAIN before : before[w] # NoOrganization
    <3>1. OrganizationGiven \in Metadata
      BY LayoutsAssumption DEF Constraints
    <3>2. Satisfied(OrganizationGiven, db.rows)
      BY <1>1, <3>1 DEF Standing
    <3> QED
      BY <3>2, WhatSatisfies
  <2>4. \A w \in DOMAIN homes : homes[w] # NoOrganization
    BY <2>3 DEF NoOrganization
  <2> HIDE DEF homes
  <2>5. DOMAIN db' = DOMAIN db /\ db'.version = HeadRevision /\ db'.objects = Metadata
    BY <1>1, <2>1
  <2>6. /\ DOMAIN db'.rows = RowFields /\ db'.rows.engines = db.rows.engines
        /\ db'.rows.runs = db.rows.runs /\ db'.rows.organization = homes
        /\ db'.rows.strays = db.rows.strays
    BY <1>1, <2>1 DEF RowShape, RowFields
  <2>7. RowShape(db'.rows)
    BY <1>1, <2>6 DEF RowShape
  <2>8. Standing(Metadata, db'.rows)
    BY <1>1, <2>4, <2>6 DEF Standing, Satisfied
  <2>9. Fitting(db')
    BY <1>1, <2>5, <2>7, <2>8, FitsAtHead
  <2> QED
    BY <1>1, <2>2, <2>5, <2>9, JobWrites
<1> QED
  BY <1>2, <1>3

----------------------------------------------------------------------------
(* What operators and the product do *)

\* What changes the database and no job.
LEMMA ByHandWrites ==
  ASSUME IInv, MayChange, UNCHANGED <<job, image, key, overlap>>, target' \in {target, NoTarget},
         Fitting(db'), BuildingAll',
         \/ db.version = HeadRevision => db'.version = HeadRevision
         \/ \A j \in Jobs : job[j].at \notin {"engine", "add engine", "admin", "add admin", "add home"}
  PROVE  IInv'
<1>1. Shapes' /\ CheckedAtHead'
  BY TargetStays DEF IInv, Shapes, CheckedAtHead
<1> QED
  BY <1>1, DatabaseMoves

LEMMA CreateAllKeeps == IInv /\ CreateAll => IInv'
<1> SUFFICES ASSUME IInv, CreateAll PROVE IInv'
  OBVIOUS
<1>1. /\ MayChange /\ db.objects \in {{}, Metadata} /\ building'
      /\ db' = [db EXCEPT !.objects = Metadata]
      /\ UNCHANGED <<job, image, target, key, overlap>>
  BY DEF CreateAll, FirstRun
<1>2. Fitting(db) /\ DOMAIN db = {"objects", "version", "rows", "sealedBy"}
  BY DEF IInv, Fitting
<1>3. DOMAIN db' = DOMAIN db /\ db'.objects = Metadata /\ db'.version = db.version /\ db'.rows = db.rows
  BY <1>1, <1>2
<1>4. Fitting(db')
  <2>1. RowShape(db.rows) /\ db.version \in 0..HeadRevision
    BY <1>2 DEF Fitting
  <2>2. CASE db.version = 0
    <3>1. Bare(db.rows) /\ db.rows.orgMember = Nobody
      BY <1>2, <2>2, HeadIsANumber DEF Fitting
    <3> QED
      BY <1>2, <1>3, <2>1, <2>2, <3>1, Bareness DEF Fitting
  <2>3. CASE db.version # 0
    <3>1. db.version > 0
      BY <2>1, <2>3, HeadIsANumber
    <3>2. db.version = HeadRevision /\ db.objects = Metadata
      BY <1>1, <1>2, <3>1, ObjectsTell
    <3>3. Standing(Metadata, db.rows)
      BY <1>2, <3>2 DEF Fitting
    <3> QED
      BY <1>2, <1>3, <2>1, <3>2, <3>3, FitsAtHead
  <2> QED
    BY <2>2, <2>3
<1> QED
  BY <1>1, <1>2, <1>3, <1>4, ByHandWrites DEF BuildingAll

LEMMA StampKeeps == IInv /\ Stamp => IInv'
<1> SUFFICES ASSUME IInv, Stamp PROVE IInv'
  OBVIOUS
<1>1. /\ MayChange /\ building /\ ~building' /\ db' = [db EXCEPT !.version = HeadRevision]
      /\ UNCHANGED <<job, image, target, key, overlap>>
  BY DEF Stamp
<1>2. Fitting(db) /\ DOMAIN db = {"objects", "version", "rows", "sealedBy"} /\ db.objects = Metadata
        /\ RowShape(db.rows) /\ Standing(db.objects, db.rows)
  BY <1>1 DEF IInv, Fitting, BuildingAll
<1>3. DOMAIN db' = DOMAIN db /\ db'.objects = Metadata /\ db'.version = HeadRevision /\ db'.rows = db.rows
  BY <1>1, <1>2
<1>4. Fitting(db')
  BY <1>2, <1>3, FitsAtHead
<1> QED
  BY <1>1, <1>2, <1>3, <1>4, ByHandWrites DEF BuildingAll

LEMMA StepDownKeeps == IInv /\ StepDown => IInv'
<1> SUFFICES ASSUME IInv, StepDown PROVE IInv'
  OBVIOUS
<1> DEFINE result == Run(db.objects, db.rows, Downgrade[db.version])
<1>1. /\ MayChange /\ ~building /\ UNCHANGED building /\ db.version > 0 /\ result.ok
      /\ db' = [db EXCEPT !.objects = result.objects, !.rows = result.rows, !.version = db.version - 1]
      /\ UNCHANGED <<job, image, target, key, overlap>>
  BY DEF StepDown
<1>2. \A j \in Jobs : job[j].at \notin {"engine", "add engine", "admin", "add admin", "add home"}
  BY DEF StepDown, Stopped
<1>3. Fitting(db) /\ DOMAIN db = {"objects", "version", "rows", "sealedBy"}
  BY DEF IInv, Fitting
<1> HIDE DEF result
<1>4. DOMAIN db' = DOMAIN db /\ db'.objects = result.objects /\ db'.version = db.version - 1
        /\ db'.rows = result.rows
  BY <1>1, <1>3
<1>5. Fitting(db')
  BY <1>1, <1>3, <1>4, StepDownGives DEF result
<1> QED
  BY <1>1, <1>2, <1>3, <1>5, ByHandWrites DEF BuildingAll

\* A run has a number that none has.
LEMMA NextNumber ==
  ASSUME NEW rows, RowShape(rows)
  PROVE  1 + Max(DOMAIN rows.runs \cup {0}) \in Nat
<1> DEFINE numbers == DOMAIN rows.runs \cup {0}
<1>1. PICK n \in Nat : DOMAIN rows.runs \subseteq 0..n
  BY DEF RowShape
<1> DEFINE bounds == {k \in Nat : \A i \in numbers : i <= k}
<1>2. n \in bounds
  BY <1>1
<1>3. PICK m \in bounds : \A k \in bounds : m <= k
  BY <1>2, LeastNatural
<1>4. m \in numbers
  <2> SUFFICES ASSUME m \notin numbers PROVE FALSE
    OBVIOUS
  <2>1. m # 0 /\ m - 1 \in Nat
    OBVIOUS
  <2>2. \A i \in numbers : i \in Nat /\ i <= m /\ i # m
    BY <1>1
  <2>3. m - 1 \in bounds
    BY <2>1, <2>2
  <2> QED
    BY <1>3, <2>3
<1>5. \A i \in numbers : m >= i
  BY <1>1
<1> DEFINE largest == CHOOSE x \in numbers : \A y \in numbers : x >= y
<1>6. largest \in numbers
  BY <1>4, <1>5
<1>7. Max(numbers) = largest
  BY DEF Max
<1> HIDE DEF largest
<1> QED
  BY <1>1, <1>6, <1>7

LEMMA QueueRunKeeps == IInv /\ QueueRun => IInv'
<1> SUFFICES ASSUME IInv, QueueRun PROVE IInv'
  OBVIOUS
<1> DEFINE runs == db.rows.runs
           next == 1 + Max(DOMAIN runs \cup {0})
<1>1. /\ MayChange /\ db.version = HeadRevision /\ UNCHANGED <<job, building, image, target, key, overlap>>
  BY DEF QueueRun
<1>2. PICK k \in Keys \cup {NoKey} :
        /\ k = NoKey \/ \A i \in DOMAIN runs : runs[i] # k
        /\ db' = [db EXCEPT !.rows.runs =
                    [i \in DOMAIN runs \cup {next} |-> IF i \in DOMAIN runs THEN runs[i] ELSE k]]
  BY DEF QueueRun
<1>3. Fitting(db) /\ DOMAIN db = {"objects", "version", "rows", "sealedBy"}
        /\ RowShape(db.rows) /\ db.objects = Metadata /\ Standing(Metadata, db.rows)
  BY <1>1, ObjectsTell DEF IInv, Fitting
<1>4. next \in Nat
  BY <1>3, NextNumber
<1> DEFINE queued == [i \in DOMAIN runs \cup {next} |-> IF i \in DOMAIN runs THEN runs[i] ELSE k]
<1> HIDE DEF next, queued
<1>5. DOMAIN db' = DOMAIN db /\ db'.objects = Metadata /\ db'.version = HeadRevision
        /\ db'.rows = [db.rows EXCEPT !.runs = queued]
  BY <1>1, <1>2, <1>3 DEF queued
<1>6. /\ DOMAIN db'.rows = RowFields /\ db'.rows.engines = db.rows.engines
      /\ db'.rows.runs = queued /\ db'.rows.organization = db.rows.organization
      /\ db'.rows.strays = db.rows.strays
  BY <1>3, <1>5 DEF RowShape, RowFields
<1>7. RowShape(db'.rows)
  <2>1. PICK n \in Nat : DOMAIN runs \subseteq 0..n
    BY <1>3 DEF RowShape
  <2>2. DOMAIN queued \subseteq 0..(n + next) /\ n + next \in Nat
    BY <1>4, <2>1 DEF queued
  <2> QED
    BY <1>3, <1>6, <2>2 DEF RowShape
<1>8. Standing(Metadata, db'.rows)
  <2>1. Satisfied(OneRunPerKey, db.rows)
    BY <1>3, LayoutsAssumption DEF Standing, Constraints
  <2>2. \A i, j \in DOMAIN runs : runs[i] = runs[j] /\ runs[i] # NoKey => i = j
    BY <2>1, WhatSatisfies
  <2>3. \A i, j \in DOMAIN queued : queued[i] = queued[j] /\ queued[i] # NoKey => i = j
    BY <1>2, <2>2 DEF queued
  <2>4. Satisfied(OneRunPerKey, db'.rows)
    BY <1>6, <2>3, WhatSatisfies
  <2>5. \A object \in Metadata : object # OneRunPerKey => Satisfied(object, db'.rows)
    BY <1>3, <1>6 DEF Standing, Satisfied
  <2> QED
    BY <2>4, <2>5 DEF Standing
<1>9. Fitting(db')
  BY <1>3, <1>5, <1>7, <1>8, FitsAtHead
<1> QED
  BY <1>1, <1>3, <1>5, <1>9, ByHandWrites DEF BuildingAll

LEMMA RotateKeeps == IInv /\ Rotate => IInv'
<1> SUFFICES ASSUME IInv, Rotate PROVE IInv'
  OBVIOUS
<1>1. /\ MayChange /\ db.version = HeadRevision /\ db' = [db EXCEPT !.sealedBy = 2]
      /\ UNCHANGED <<job, building, image, target, overlap>>
  BY DEF Rotate
<1>2. Fitting(db) /\ DOMAIN db = {"objects", "version", "rows", "sealedBy"}
  BY DEF IInv, Fitting
<1>3. DOMAIN db' = DOMAIN db /\ db'.objects = db.objects /\ db'.version = db.version /\ db'.rows = db.rows
  BY <1>1, <1>2
<1>4. Fitting(db')
  BY <1>2, <1>3 DEF Fitting
<1>5. Shapes' /\ CheckedAtHead' /\ BuildingAll'
  BY <1>1, <1>3 DEF IInv, Shapes, CheckedAtHead, BuildingAll
<1>6. ManifestIsOfDump' /\ TargetIsOfImage'
  BY <1>1 DEF IInv, ManifestIsOfDump, TargetIsOfImage, MayChange
<1> QED
  BY <1>1, <1>4, <1>5, <1>6 DEF IInv

LEMMA AdoptKeeps == IInv /\ Adopt => IInv'
<1> SUFFICES ASSUME IInv, Adopt PROVE IInv'
  OBVIOUS
<1>1. /\ MayChange /\ ~building /\ db' = target.db /\ target' = NoTarget
      /\ UNCHANGED <<job, building, image, key, overlap>>
  BY DEF Adopt
<1>2. \A j \in Jobs : job[j].at \notin {"engine", "add engine", "admin", "add admin", "add home"}
  BY DEF Adopt, Stopped
<1>3. Fitting(db')
  BY <1>1 DEF IInv
<1> QED
  BY <1>1, <1>2, <1>3, ByHandWrites DEF BuildingAll

----------------------------------------------------------------------------
(* Backup and restore *)

\* What leaves the database and the jobs alone.
LEMMA ImageMoves ==
  ASSUME IInv, UNCHANGED <<db, job>>, building' => building,
         DOMAIN image' = DOMAIN image, DOMAIN target' = DOMAIN target,
         Fitting(image'.dump), Fitting(target'.db), ManifestIsOfDump', TargetIsOfImage'
  PROVE  IInv'
<1>1. Shapes' /\ CheckedAtHead' /\ BuildingAll' /\ Fitting(db')
  BY DEF IInv, Shapes, CheckedAtHead, BuildingAll
<1> QED
  BY <1>1 DEF IInv

LEMMA TargetUnchanged ==
  ASSUME IInv, UNCHANGED <<target, overlap>>
  PROVE  Fitting(target'.db) /\ TargetIsOfImage'
BY DEF IInv, TargetIsOfImage

LEMMA CrashBuildingKeeps == IInv /\ CrashBuilding => IInv'
<1> SUFFICES ASSUME IInv, CrashBuilding PROVE IInv'
  OBVIOUS
<1>1. ManifestIsOfDump' /\ Fitting(image'.dump) /\ UNCHANGED <<db, job, image, target, overlap>>
        /\ ~building'
  BY DEF CrashBuilding, IInv, ManifestIsOfDump
<1> QED
  BY <1>1, ImageMoves, TargetUnchanged

LEMMA ImageFields ==
  ASSUME IInv
  PROVE  /\ DOMAIN image = {"at", "dump", "revision", "counts", "key", "opens", "verified"}
         /\ DOMAIN target = TargetFields
         /\ DOMAIN NoImage = DOMAIN image /\ ~NoImage.verified
BY DEF IInv, Shapes, NoImage

LEMMA DumpKeeps == IInv /\ Dump => IInv'
<1> SUFFICES ASSUME IInv, Dump PROVE IInv'
  OBVIOUS
<1>1. PICK env : image' = [NoImage EXCEPT !.at = "dumped", !.dump = db, !.key = env,
                             !.opens = (env = db.sealedBy)]
  BY DEF Dump
<1>2. UNCHANGED <<db, job, building, target, key, overlap>>
  BY DEF Dump
<1>3. /\ DOMAIN image' = DOMAIN image /\ image'.at = "dumped" /\ image'.dump = db
      /\ image'.opens => db.sealedBy = image'.key
      /\ ~image'.verified
  BY <1>1, ImageFields
<1>4. ManifestIsOfDump'
  BY <1>2, <1>3 DEF ManifestIsOfDump
<1>5. Fitting(image'.dump)
  BY <1>3 DEF IInv
<1> QED
  BY <1>2, <1>3, <1>4, <1>5, ImageMoves, TargetUnchanged

LEMMA ReadRevisionKeeps == IInv /\ ReadRevision => IInv'
<1> SUFFICES ASSUME IInv, ReadRevision PROVE IInv'
  OBVIOUS
<1>1. /\ image.at = "dumped" /\ image' = [image EXCEPT !.at = "revision", !.revision = db.version]
      /\ UNCHANGED <<db, job, building, target, key, overlap>>
  BY DEF ReadRevision
<1>2. /\ DOMAIN image' = DOMAIN image /\ image'.at = "revision" /\ image'.revision = db.version
      /\ image'.dump = image.dump /\ image'.opens = image.opens /\ image'.key = image.key
      /\ image'.verified = image.verified
  BY <1>1, ImageFields
<1>3. ManifestIsOfDump'
  BY <1>1, <1>2 DEF ManifestIsOfDump, IInv
<1>4. Fitting(image'.dump)
  BY <1>2 DEF IInv
<1> QED
  BY <1>1, <1>2, <1>3, <1>4, ImageMoves, TargetUnchanged

LEMMA WriteManifestKeeps == IInv /\ WriteManifest => IInv'
<1> SUFFICES ASSUME IInv, WriteManifest PROVE IInv'
  OBVIOUS
<1>1. /\ image.at = "revision"
      /\ image' = [image EXCEPT !.at = "complete", !.counts = RowCounts(db)]
      /\ UNCHANGED <<db, job, building, target, key, overlap>>
  BY DEF WriteManifest
<1>2. /\ DOMAIN image' = DOMAIN image /\ image'.at = "complete" /\ image'.revision = image.revision
      /\ image'.dump = image.dump /\ image'.opens = image.opens /\ image'.key = image.key
      /\ image'.verified = image.verified
  BY <1>1, ImageFields
<1>3. ManifestIsOfDump'
  BY <1>1, <1>2 DEF ManifestIsOfDump, IInv
<1>4. Fitting(image'.dump)
  BY <1>2 DEF IInv
<1> QED
  BY <1>1, <1>2, <1>3, <1>4, ImageMoves, TargetUnchanged

LEMMA VerifyKeeps == IInv /\ Verify => IInv'
<1> SUFFICES ASSUME IInv, Verify PROVE IInv'
  OBVIOUS
<1>1. /\ image.at = "complete" /\ image.dump.version = image.revision
      /\ image' = [image EXCEPT !.verified = TRUE]
      /\ UNCHANGED <<db, job, building, target, key, overlap>>
  BY DEF Verify
<1>2. /\ DOMAIN image' = DOMAIN image /\ image'.at = image.at /\ image'.revision = image.revision
      /\ image'.dump = image.dump /\ image'.opens = image.opens /\ image'.key = image.key
  BY <1>1, ImageFields
<1>3. ManifestIsOfDump'
  BY <1>1, <1>2 DEF ManifestIsOfDump, IInv
<1>4. Fitting(image'.dump)
  BY <1>2 DEF IInv
<1> QED
  BY <1>1, <1>2, <1>3, <1>4, ImageMoves, TargetUnchanged

LEMMA BeginRestoreKeeps == IInv /\ BeginRestore => IInv'
<1> SUFFICES ASSUME IInv, BeginRestore PROVE IInv'
  OBVIOUS
<1>1. PICK env \in Environments, forced \in {FALSE, image.revision # HeadRevision} :
        /\ Restorable(env, forced)
        /\ target' = [at |-> "partial", db |-> image.dump, forced |-> forced,
                       key |-> IF KeyCompared(env) THEN env ELSE KeyUnset,
                       opens |-> image.opens, verified |-> image.verified]
  BY DEF BeginRestore
<1>2. UNCHANGED <<db, job, building, image, key, overlap>>
  BY DEF BeginRestore
<1>3. /\ image.at = "complete"
      /\ image.revision = HeadRevision \/ forced
      /\ KeyCompared(env) => image.key = env
  BY <1>1 DEF Restorable
<1>4. /\ ~overlap \/ image.verified => image.revision = image.dump.version
      /\ image.opens => image.dump.sealedBy = image.key
  BY <1>3 DEF IInv, ManifestIsOfDump
<1>5. TargetIsOfImage'
  BY <1>1, <1>2, <1>3, <1>4 DEF TargetIsOfImage
<1>6. DOMAIN target' = DOMAIN target /\ target'.db = image.dump
  BY <1>1, ImageFields DEF TargetFields
<1>7. ManifestIsOfDump'
  BY <1>2 DEF IInv, ManifestIsOfDump
<1>8. Fitting(image'.dump) /\ Fitting(target'.db)
  BY <1>2, <1>6 DEF IInv
<1> QED
  BY <1>2, <1>5, <1>6, <1>7, <1>8, ImageMoves

LEMMA FinishRestoreKeeps == IInv /\ FinishRestore => IInv'
<1> SUFFICES ASSUME IInv, FinishRestore PROVE IInv'
  OBVIOUS
<1>1. /\ target.at = "partial" /\ target' = [target EXCEPT !.at = "whole"]
      /\ UNCHANGED <<db, job, building, image, key, overlap>>
  BY DEF FinishRestore
<1>2. /\ DOMAIN target' = DOMAIN target /\ target'.db = target.db
      /\ target'.forced = target.forced /\ target'.verified = target.verified
      /\ target'.key = target.key /\ target'.opens = target.opens
  BY <1>1, ImageFields DEF TargetFields
<1>3. TargetIsOfImage'
  BY <1>1, <1>2 DEF IInv, TargetIsOfImage
<1>4. ManifestIsOfDump'
  BY <1>1 DEF IInv, ManifestIsOfDump
<1>5. Fitting(image'.dump) /\ Fitting(target'.db)
  BY <1>1, <1>2 DEF IInv
<1> QED
  BY <1>1, <1>2, <1>3, <1>4, <1>5, ImageMoves

LEMMA StutterKeeps == IInv /\ UNCHANGED deploymentVars => IInv'
<1> SUFFICES ASSUME IInv, UNCHANGED deploymentVars PROVE IInv'
  OBVIOUS
<1>1. ManifestIsOfDump' /\ Fitting(image'.dump)
        /\ UNCHANGED <<db, job, building, image, target, overlap>>
  BY DEF deploymentVars, IInv, ManifestIsOfDump
<1> QED
  BY <1>1, ImageMoves, TargetUnchanged

----------------------------------------------------------------------------
LEMMA StepKeeps == IInv /\ [DeploymentNext]_deploymentVars => IInv'
<1> SUFFICES ASSUME IInv, [DeploymentNext]_deploymentVars PROVE IInv'
  OBVIOUS
<1>1. CASE \E j \in Jobs :
             StartMigration(j) \/ Migrate(j) \/ Check(j) \/ ReadEngine(j) \/ AddEngine(j)
               \/ ReadAdmin(j) \/ AddAdmin(j) \/ AddHome(j) \/ Crash(j)
  BY <1>1, StartKeeps, MigrateKeeps, CheckKeeps, ReadsKeep, AddEngineKeeps, AddAdminKeeps, AddHomeKeeps
<1>2. CASE CreateAll \/ Stamp \/ CrashBuilding \/ StepDown \/ QueueRun \/ Rotate
  BY <1>2, CreateAllKeeps, StampKeeps, CrashBuildingKeeps, StepDownKeeps, QueueRunKeeps, RotateKeeps
<1>3. CASE Dump \/ ReadRevision \/ WriteManifest \/ Verify \/ BeginRestore \/ FinishRestore \/ Adopt
  BY <1>3, DumpKeeps, ReadRevisionKeeps, WriteManifestKeeps, VerifyKeeps,
     BeginRestoreKeeps, FinishRestoreKeeps, AdoptKeeps
<1>4. CASE UNCHANGED deploymentVars
  BY <1>4, StutterKeeps
<1> QED
  BY <1>1, <1>2, <1>3, <1>4 DEF DeploymentNext

LEMMA Invariance == DeploymentSpec => []IInv
BY InitHolds, StepKeeps, PTL DEF DeploymentSpec

----------------------------------------------------------------------------
(* The theorems *)

(* Whatever runs, overtakes, crashes and is restored, the version row says what the     *)
(* database has: at the head the tables of the models (install.py, migrations/env.py).  *)
THEOREM VersionRowIsTrue == DeploymentSpec => []SchemaAsStamped
<1>1. IInv => SchemaAsStamped
  BY ObjectsTell DEF IInv, Fitting, SchemaAsStamped
<1> QED
  BY <1>1, Invariance, PTL

(* A default engine is seeded once, by any number of jobs at a time                     *)
(* (seed_engine_instance): what one reads before its insert may be stale, the           *)
(* constraint that the head brought is not.                                             *)
THEOREM OneDefaultEngine == DeploymentSpec => []SeededOnce
<1>1. IInv => SeededOnce
  <2> SUFFICES ASSUME IInv, db.version = HeadRevision
               PROVE  db.rows.engines <= 1
    BY DEF SeededOnce
  <2>1. OneEnginePerName \in db.objects
    BY ObjectsTell, LayoutsAssumption DEF IInv, Constraints
  <2>2. Satisfied(OneEnginePerName, db.rows)
    BY <2>1 DEF IInv, Fitting, Standing
  <2> QED
    BY <2>2, WhatSatisfies
<1> QED
  BY <1>1, Invariance, PTL

\* A revision can be taken back from where it led, and taken again.
LEMMA Reverses ==
  ASSUME NEW d, Fitting(d), d.version > 0
  PROVE  LET back == Run(d.objects, d.rows, Downgrade[d.version])
         IN  /\ back.ok /\ back.objects = ObjectsAt[d.version - 1]
             /\ Run(back.objects, back.rows, Upgrade[d.version]).ok
<1> DEFINE r == d.version
           down == Downgrade[r]
           up == Upgrade[r]
           back == Run(d.objects, d.rows, down)
<1>1. /\ r \in 1..HeadRevision /\ RowShape(d.rows) /\ Standing(d.objects, d.rows)
      /\ d.objects = ObjectsAt[r]
  BY ObjectsTell DEF Fitting
<1>2. /\ Prepared(down) /\ Prepared(up) /\ Len(down) \in Nat /\ Len(up) \in Nat
      /\ Touches(up, "create", OneEnginePerName) => OneEnginePerName \in ObjectsAt[r]
      /\ Touches(up, "create", SameWorkspace) => SameWorkspace \in ObjectsAt[r]
      /\ ~Touches(down, "create", OneEnginePerName) /\ ~Touches(down, "create", SameWorkspace)
      /\ ~Does(down, "collapse") /\ ~Does(down, "backfill")
  <2>1. /\ Prepared(down) /\ Prepared(up)
        /\ Touches(up, "create", OneEnginePerName) => OneEnginePerName \in ObjectsAt[r]
        /\ Touches(up, "create", SameWorkspace) => SameWorkspace \in ObjectsAt[r]
        /\ ~Does(down, "collapse") /\ ~Does(down, "backfill")
        /\ \A object \in Constraints : ~Touches(down, "create", object)
    BY <1>1, StepsAssumption
  <2> HIDE DEF down, up
  <2>2. Len(down) \in Nat /\ Len(up) \in Nat
    BY <2>1 DEF Prepared
  <2> QED
    BY <2>1, <2>2 DEF Constraints
<1>3. /\ Layout(ObjectsAt[r], down) = [ok |-> TRUE, objects |-> ObjectsAt[r - 1]]
      /\ Layout(ObjectsAt[r - 1], up).ok
  BY <1>1, LayoutsAssumption
<1> HIDE DEF r, down, up
<1>4. back.ok
  BY <1>1, <1>2, <1>3, RunsThrough
<1>5. back.objects = ObjectsAt[r - 1]
  BY <1>1, <1>2, <1>3, RunLaysOut
<1>6. RowShape(back.rows)
  BY <1>1, <1>2, RunIsNoWorse
<1>7. Touches(up, "create", OneEnginePerName) => back.rows.engines <= 1
  <2> SUFFICES ASSUME Touches(up, "create", OneEnginePerName)
               PROVE  back.rows.engines <= 1
    OBVIOUS
  <2>1. d.rows.engines <= 1
    BY <1>1, <1>2, WhatSatisfies DEF Standing
  <2>2. back.rows.engines <= d.rows.engines
    BY <1>1, <1>2, RunIsNoWorse DEF NoWorse
  <2>3. {back.rows.engines, d.rows.engines} \subseteq Nat
    BY <1>1, <1>6 DEF RowShape
  <2> HIDE DEF back
  <2> QED
    BY <2>1, <2>2, <2>3
<1>8. Touches(up, "create", SameWorkspace) => back.rows.strays = {}
  <2> SUFFICES ASSUME Touches(up, "create", SameWorkspace)
               PROVE  back.rows.strays = {}
    OBVIOUS
  <2>1. d.rows.strays = {}
    BY <1>1, <1>2, WhatSatisfies DEF Standing
  <2>2. back.rows.strays \subseteq d.rows.strays
    BY <1>1, <1>2, RunIsNoWorse DEF NoWorse
  <2> HIDE DEF back
  <2> QED
    BY <2>1, <2>2
<1>9. Run(back.objects, back.rows, up).ok
  BY <1>2, <1>3, <1>5, <1>6, <1>7, <1>8, RunsThrough
<1> QED
  BY <1>4, <1>5, <1>9 DEF r, down, up

(* Every revision can be taken back and taken again on the rows that are really there   *)
(* (the revisions of backend/migrations/versions).                                      *)
THEOREM RevisionsReverse == DeploymentSpec => []Reversible
<1>1. IInv => Reversible
  BY Reverses DEF IInv, Reversible
<1> QED
  BY <1>1, Invariance, PTL

----------------------------------------------------------------------------
(* What a step may not do *)

\* A migration that moves the version row has run all that was left.
LEMMA MigrationMoves ==
  ASSUME IInv, NEW j \in Jobs, Migrate(j), db'.version > db.version
  PROVE  LET result == Run(db.objects, db.rows, Chain(db.version + 1, HeadRevision))
         IN  db.version < HeadRevision /\ result.ok /\ db'.rows = result.rows
<1> DEFINE seen == job[j].seen
           result == Run(db.objects, db.rows, Chain(seen + 1, HeadRevision))
<1>1. /\ seen \in 0..HeadRevision /\ db.version \in 0..HeadRevision
      /\ DOMAIN db = {"objects", "version", "rows", "sealedBy"}
  BY DEF IInv, Shapes, Fitting
<1>2. db' # db
  <2>1. ~(db.version > db.version)
    BY <1>1
  <2> QED
    BY <2>1
<1>3. /\ result.ok /\ VersionRowMatches(seen) /\ seen # HeadRevision
      /\ db' = [db EXCEPT !.objects = result.objects, !.rows = result.rows,
                          !.version = HeadRevision]
  BY <1>2 DEF Migrate
<1>4. db.version = seen
  BY <1>3 DEF VersionRowMatches
<1>5. db.version < HeadRevision
  BY <1>1, <1>3, <1>4, HeadIsANumber
<1> HIDE DEF result
<1>6. db'.rows = result.rows
  BY <1>1, <1>3
<1> QED
  BY <1>3, <1>4, <1>5, <1>6 DEF result

\* Nobody has a role in an organisation before the head: a role in a workspace is a
\* membership's or the platform flag's, and those stay.
LEMMA ReachStays ==
  ASSUME NEW rows, NEW after, Keeps(rows, after), rows.orgMember = Nobody,
         NEW u \in People, NEW w \in DOMAIN rows.organization
  PROVE  Reach(rows, u, w) \in {NoRole, Reach(after, u, w)}
<1> DEFINE role == rows.member[w][u]
           flag == u \in rows.admins
<1>1. after.member[w][u] = role /\ (u \in after.admins) = flag /\ w \in DOMAIN after.organization
  BY DEF Keeps
<1>2. HasWorkspaces(rows) /\ HasWorkspaces(after)
  BY <1>1 DEF HasWorkspaces
<1>3. rows.orgMember[u] = NoRole
  BY DEF Nobody
<1> DEFINE grant == after.orgMember[u]
<1>4. Reach(rows, u, w) = EffectiveRole(role, flag, NoRole)
  BY <1>2, <1>3 DEF Reach
<1>5. Reach(after, u, w) = EffectiveRole(role, flag, grant)
  BY <1>1, <1>2 DEF Reach
<1>6. flag \in BOOLEAN
  OBVIOUS
<1> HIDE DEF role, flag, grant
<1>7. EffectiveRole(role, flag, NoRole) \in {NoRole, EffectiveRole(role, flag, grant)}
  <2>1. CASE role # NoRole
    BY <2>1 DEF EffectiveRole
  <2>2. CASE role = NoRole /\ flag
    BY <2>2 DEF EffectiveRole
  <2>3. CASE role = NoRole /\ ~flag
    BY <2>3 DEF EffectiveRole, OrgAdministrators, NoRole
  <2> QED
    BY <2>1, <2>2, <2>3, <1>6
<1> QED
  BY <1>4, <1>5, <1>7

(* The run whose id the caller of a key was told, the first one, is there after every   *)
(* upgrade, and nobody has less in a workspace than before: collapsing the duplicates   *)
(* (20260905_0900) and moving the workspaces into an organisation (20260917_1400).      *)
THEOREM UpgradesTakeNothing == DeploymentSpec => UpgradeTakesNothingAway
<1> DEFINE Kept ==
      \A j \in Jobs : db'.version > db.version /\ Migrate(j) =>
        /\ \A i \in DOMAIN db.rows.runs :
             (\A k \in DOMAIN db.rows.runs : k < i => db.rows.runs[k] # db.rows.runs[i])
               => i \in DOMAIN db'.rows.runs
        /\ \A u \in People, w \in DOMAIN db.rows.organization :
             Reach(db.rows, u, w) \in {NoRole, Reach(db'.rows, u, w)}
<1>1. IInv => Kept
  <2> SUFFICES ASSUME IInv, NEW j \in Jobs, Migrate(j), db'.version > db.version
               PROVE  /\ \A i \in DOMAIN db.rows.runs :
                           (\A k \in DOMAIN db.rows.runs : k < i => db.rows.runs[k] # db.rows.runs[i])
                             => i \in DOMAIN db'.rows.runs
                      /\ \A u \in People, w \in DOMAIN db.rows.organization :
                           Reach(db.rows, u, w) \in {NoRole, Reach(db'.rows, u, w)}
    BY DEF Kept
  <2> DEFINE result == Run(db.objects, db.rows, Chain(db.version + 1, HeadRevision))
  <2>1. Fitting(db)
    BY DEF IInv
  <2>2. db.version < HeadRevision /\ result.ok /\ db'.rows = result.rows
    BY MigrationMoves
  <2>3. Keeps(db.rows, result.rows)
    BY <2>1, <2>2, MigrationGives
  <2> HIDE DEF result
  <2>4. Keeps(db.rows, db'.rows)
    BY <2>2, <2>3
  <2>5. db.rows.orgMember = Nobody
    BY <2>1, <2>2 DEF Fitting
  <2>6. \A i \in DOMAIN db.rows.runs : First(db.rows.runs, i) => i \in DOMAIN db'.rows.runs
    BY <2>4 DEF Keeps
  <2> QED
    BY <2>4, <2>5, <2>6, ReachStays DEF First
<1> QED
  BY <1>1, Invariance, PTL DEF UpgradeTakesNothingAway

\* A job that did not read a stale version row gets through its migration.
LEMMA MigrationPasses ==
  ASSUME IInv, NEW j \in Jobs, Migrate(j), db.version = job[j].seen,
         ~(db.version = 0 /\ db.objects = Metadata), db.rows.engines <= 1, db.rows.strays = {}
  PROVE  job'[j].at = "checking"
<1> DEFINE steps == Chain(db.version + 1, HeadRevision)
<1>1. db.version \in 0..HeadRevision /\ RowShape(db.rows) /\ Fitting(db)
  BY DEF IInv, Fitting
<1>2. db.objects = ObjectsAt[db.version]
  <2>1. CASE db.version = 0
    BY <1>1, <2>1, LayoutsAssumption DEF Fitting
  <2>2. CASE db.version # 0
    BY <1>1, <2>2, HeadIsANumber DEF Fitting
  <2> QED
    BY <2>1, <2>2
<1>3. Layout(db.objects, steps).ok
  <2>1. Layout(ObjectsAt[db.version], steps) = [ok |-> TRUE, objects |-> Metadata]
    BY <1>1, LayoutsAssumption
  <2> QED
    BY <1>2, <2>1
<1>4. Prepared(steps)
  BY <1>1, StepsAssumption
<1> HIDE DEF steps
<1>5. Run(db.objects, db.rows, steps).ok
  BY <1>1, <1>3, <1>4, RunsThrough
<1>6. JobGoes(j, "checking")
  BY <1>5 DEF Migrate, VersionRowMatches, steps
<1> QED
  BY <1>6, JobMoves

\* Only its own step moves a job.
LEMMA OthersWait ==
  ASSUME IInv, NEW i \in Jobs, NEW j \in Jobs \ {i},
         StartMigration(i) \/ \E at : JobGoes(i, at)
  PROVE  job'[j].at = job[j].at
<1>1. CASE StartMigration(i)
  BY <1>1 DEF StartMigration, IInv, Shapes
<1>2. CASE \E at : JobGoes(i, at)
  BY <1>2, JobMoves
<1> QED
  BY <1>1, <1>2

LEMMA WhatFails ==
  ASSUME IInv, [DeploymentNext]_deploymentVars, NEW j \in Jobs,
         job[j].at \in {"migrating", "checking"}, job'[j].at = "failed"
  PROVE  \/ job[j].at = "migrating" /\ Migrate(j)
         \/ job[j].at = "checking" /\ Check(j)
<1>1. CASE UNCHANGED job
  BY <1>1
<1>2. ASSUME NEW i \in Jobs,
             StartMigration(i) \/ Migrate(i) \/ Check(i) \/ ReadEngine(i) \/ AddEngine(i)
               \/ ReadAdmin(i) \/ AddAdmin(i) \/ AddHome(i) \/ Crash(i)
      PROVE  \/ job[j].at = "migrating" /\ Migrate(j)
             \/ job[j].at = "checking" /\ Check(j)
  <2>1. CASE i # j
    <3>1. StartMigration(i) \/ \E at : JobGoes(i, at)
      BY <1>2 DEF Migrate, Check, ReadEngine, AddEngine, ReadAdmin, AddAdmin, AddHome, Crash
    <3> QED
      BY <2>1, <3>1, OthersWait
  <2>2. CASE i = j
    <3>1. ~StartMigration(j)
      BY DEF StartMigration, Stopped
    <3>2. ~(ReadEngine(j) \/ AddEngine(j) \/ ReadAdmin(j) \/ AddAdmin(j) \/ AddHome(j))
      BY DEF ReadEngine, AddEngine, ReadAdmin, AddAdmin, AddHome
    <3>3. ~Crash(j)
      BY JobMoves DEF Crash
    <3> QED
      BY <1>2, <2>2, <3>1, <3>2, <3>3 DEF Migrate, Check
  <2> QED
    BY <2>1, <2>2
<1>3. CASE CreateAll \/ Stamp \/ CrashBuilding \/ StepDown \/ QueueRun \/ Rotate
  BY <1>1, <1>3 DEF CreateAll, Stamp, CrashBuilding, StepDown, QueueRun, Rotate
<1>4. CASE Dump \/ ReadRevision \/ WriteManifest \/ Verify \/ BeginRestore \/ FinishRestore \/ Adopt
  BY <1>1, <1>4 DEF Dump, ReadRevision, WriteManifest, Verify, BeginRestore, FinishRestore, Adopt
<1> QED
  BY <1>1, <1>2, <1>3, <1>4 DEF DeploymentNext, deploymentVars

(* A deploy's migration fails only if someone else moved the schema since it read the   *)
(* version row, if create_all made the tables and nobody stamped them, if two engines   *)
(* have one name, or if a run is filed against another workspace's workflow; its check  *)
(* only if someone moved the schema (install.py).                                       *)
THEOREM DeploysPass == DeploymentSpec => FailsOnlyWhenOvertaken
<1> DEFINE Overtaken ==
      \A j \in Jobs :
        /\ job[j].at = "migrating" /\ job'[j].at = "failed" =>
             \/ db.version # job[j].seen
             \/ db.version = 0 /\ db.objects = Metadata
             \/ db.rows.engines > 1
             \/ db.rows.strays # {}
        /\ job[j].at = "checking" /\ job'[j].at = "failed" => db.version # HeadRevision
<1>1. IInv /\ [DeploymentNext]_deploymentVars => Overtaken
  <2> SUFFICES ASSUME IInv, [DeploymentNext]_deploymentVars, NEW j \in Jobs, job'[j].at = "failed"
               PROVE  /\ job[j].at = "migrating" =>
                           \/ db.version # job[j].seen
                           \/ db.version = 0 /\ db.objects = Metadata
                           \/ db.rows.engines > 1
                           \/ db.rows.strays # {}
                      /\ job[j].at = "checking" => db.version # HeadRevision
    BY DEF Overtaken
  <2>1. Fitting(db) /\ db.rows.engines \in Nat
    BY DEF IInv, Fitting, RowShape
  <2>2. CASE job[j].at = "migrating"
    <3>1. Migrate(j)
      BY <2>2, WhatFails
    <3>2. db.rows.engines <= 1 \/ db.rows.engines > 1
      BY <2>1
    <3> QED
      BY <2>2, <3>1, <3>2, MigrationPasses
  <2>3. CASE job[j].at = "checking"
    <3>1. Check(j)
      BY <2>3, WhatFails
    <3>2. Problems(db) # {}
      BY <3>1, JobMoves DEF Check
    <3> QED
      BY <2>1, <2>3, <3>2, ObjectsTell DEF Problems
  <2> QED
    BY <2>2, <2>3
<1> QED
  BY <1>1, Invariance, PTL DEF FailsOnlyWhenOvertaken, DeploymentSpec

(* What restore.py calls restored is a database that this release runs on unless a      *)
(* mismatch was ignored, whatever moved since the backup, if nothing moved while it was *)
(* taken or if it was verified; and a key that it compared opens the credentials if the *)
(* key of the backup did (the checks of restore.py's main).                             *)
THEOREM RestoresFit == DeploymentSpec => []RestoredFits
<1>1. IInv => RestoredFits
  <2> SUFFICES ASSUME IInv, target.at = "whole"
               PROVE  /\ ~target.forced /\ (overlap => target.verified) => Problems(target.db) = {}
                      /\ target.key # KeyUnset /\ target.opens => target.db.sealedBy = target.key
    BY DEF RestoredFits
  <2>1. TargetIsOfImage /\ Fitting(target.db)
    BY DEF IInv
  <2>2. target.db.version = HeadRevision => Problems(target.db) = {}
    BY <2>1, ObjectsTell DEF Problems
  <2> QED
    BY <2>1, <2>2 DEF TargetIsOfImage
<1> QED
  BY <1>1, Invariance, PTL

=============================================================================
