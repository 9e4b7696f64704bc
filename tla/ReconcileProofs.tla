--------------------------- MODULE ReconcileProofs ---------------------------
(***************************************************************************)
(* Proofs about Reconcile, for any catalog, any manifests and any number   *)
(* of edits, hand changes, failures and rotations: data that a generation  *)
(* ever recorded stays expected, so it is never replaced by an empty       *)
(* volume, and the first migration never runs on it.                       *)
(*                                                                         *)
(* It also holds the lemmas about the planner that ReconcileHostProofs     *)
(* rests on: what its loops put in order, which entries a plan has, and    *)
(* which operations it asks for in which order.                            *)
(***************************************************************************)
EXTENDS Reconcile, FiniteSetTheorems, TLAPS

-----------------------------------------------------------------------------
(* Filtered sequences.                                                     *)

Rank(I, i) == Cardinality({j \in I : j <= i})

\* The position of an element among the chosen ones tells it apart.
LEMMA RankIsInjective ==
  ASSUME NEW N \in Nat, NEW I \in SUBSET (1 .. N)
  PROVE  /\ IsFiniteSet(I) /\ Cardinality(I) \in Nat
         /\ \A i \in I : Rank(I, i) \in 1 .. Cardinality(I)
         /\ \A i, j \in I : Rank(I, i) = Rank(I, j) => i = j
<1>1. IsFiniteSet(I) /\ Cardinality(I) \in Nat
  <2>1. IsFiniteSet(1 .. N)
    BY FS_Interval
  <2>2. IsFiniteSet(I)
    BY <2>1, FS_Subset
  <2> QED
    BY <2>2, FS_CardinalityType
<1> DEFINE Below(i) == {j \in I : j <= i}
<1>2. \A i \in I : /\ IsFiniteSet(Below(i)) /\ Cardinality(Below(i)) \in Nat
                   /\ Cardinality(Below(i)) <= Cardinality(I)
  <2>1. \A i \in I : Below(i) \in SUBSET I
    OBVIOUS
  <2> HIDE DEF Below
  <2> QED
    BY <1>1, <2>1, FS_Subset, FS_CardinalityType
<1>3. \A i \in I : Cardinality(Below(i)) # 0
  <2> TAKE i \in I
  <2>1. i \in Below(i)
    OBVIOUS
  <2> HIDE DEF Below
  <2>2. Below(i) # {} /\ IsFiniteSet(Below(i))
    BY <1>2, <2>1
  <2> QED
    BY <2>2, FS_EmptySet
<1>4. ASSUME NEW i \in I, NEW j \in I, i < j
      PROVE  Cardinality(Below(i)) # Cardinality(Below(j))
  <2>0. \A k \in I : k \in Int
    OBVIOUS
  <2>1. j \in Below(j) /\ j \notin Below(i)
    BY <1>4, <2>0
  <2>2. \A k \in I : k <= i => k <= j
    BY <1>4, <2>0
  <2>3. Below(i) \in SUBSET Below(j)
    BY <2>2
  <2> HIDE DEF Below
  <2> QED
    BY <1>2, <2>1, <2>3, FS_Subset
<1>5. \A i \in I : Cardinality(Below(i)) \in 1 .. Cardinality(I)
  <2> HIDE DEF Below
  <2> QED
    BY <1>1, <1>2, <1>3
<1>6. \A i, j \in I : Cardinality(Below(i)) = Cardinality(Below(j)) => i = j
  <2> HIDE DEF Below
  <2> QED
    BY <1>4
<1> QED
  BY <1>1, <1>5, <1>6 DEF Rank

\* Every position among the chosen ones is taken: as many as there are elements.
LEMMA RankIsOnto ==
  ASSUME NEW N \in Nat, NEW I \in SUBSET (1 .. N)
  PROVE  \A n \in 1 .. Cardinality(I) : \E i \in I : Rank(I, i) = n
<1> DEFINE f == [i \in I |-> Rank(I, i)]
           T == 1 .. Cardinality(I)
<1>1. IsFiniteSet(I) /\ Cardinality(I) \in Nat
  BY RankIsInjective
<1>2. f \in Injection(I, T)
  BY RankIsInjective DEF Injection, IsInjective
<1>3. IsFiniteSet(T) /\ Cardinality(T) = Cardinality(I)
  BY <1>1, FS_Interval
<1> HIDE DEF T
<1>4. f \in Surjection(I, T)
  <2> HIDE DEF f
  <2> QED
    BY <1>1, <1>2, <1>3, FS_Injection
<1> QED
  BY <1>4 DEF Surjection, T

\* Pick() returns a sequence of the elements at the chosen positions, all of them.
LEMMA PickElements ==
  ASSUME NEW S, NEW s \in Seq(S), NEW I \in SUBSET DOMAIN s
  PROVE  /\ Pick(s, I) \in Seq({s[i] : i \in I})
         /\ {Pick(s, I)[n] : n \in DOMAIN Pick(s, I)} = {s[i] : i \in I}
<1> DEFINE Place(n) == CHOOSE i \in I : Cardinality({j \in I : j <= i}) = n
           p == Pick(s, I)
<1>0. Len(s) \in Nat /\ I \in SUBSET (1 .. Len(s)) /\ Cardinality(I) \in Nat
  <2>1. Len(s) \in Nat /\ I \in SUBSET (1 .. Len(s))
    OBVIOUS
  <2> QED
    BY <2>1, RankIsInjective
<1>1. \A n \in 1 .. Cardinality(I) : Place(n) \in I /\ Rank(I, Place(n)) = n
  <2> TAKE n \in 1 .. Cardinality(I)
  <2>1. \E i \in I : Rank(I, i) = n
    BY <1>0, RankIsOnto
  <2> QED
    BY <2>1 DEF Rank
<1>2. p = [n \in 1 .. Cardinality(I) |-> s[Place(n)]]
  BY DEF Pick
<1> HIDE DEF Place, p
<1>3. p \in Seq({s[i] : i \in I}) /\ DOMAIN p = 1 .. Cardinality(I)
  BY <1>0, <1>1, <1>2
<1>4. \A i \in I : Rank(I, i) \in 1 .. Cardinality(I) /\ Place(Rank(I, i)) = i
  <2>1. /\ \A i \in I : Rank(I, i) \in 1 .. Cardinality(I)
        /\ \A i, j \in I : Rank(I, i) = Rank(I, j) => i = j
    BY <1>0, RankIsInjective
  <2> QED
    BY <1>1, <2>1
<1>5. \A i \in I : \E n \in DOMAIN p : p[n] = s[i]
  BY <1>2, <1>3, <1>4
<1>6. \A n \in DOMAIN p : \E i \in I : p[n] = s[i]
  BY <1>1, <1>2, <1>3
<1>7. {p[n] : n \in DOMAIN p} = {s[i] : i \in I}
  BY <1>5, <1>6
<1> QED
  BY <1>3, <1>7 DEF p

\* A sequence, whatever is in it.
IsSeq(s) == s \in Seq(ToSet(s))

\* The same for Pick() and ToSet().
LEMMA PickIsSeq ==
  ASSUME NEW s, IsSeq(s), NEW I \in SUBSET DOMAIN s
  PROVE  IsSeq(Pick(s, I)) /\ ToSet(Pick(s, I)) = {s[i] : i \in I}
<1> DEFINE S == ToSet(s)
<1>1. s \in Seq(S)
  BY DEF IsSeq
<1> HIDE DEF S
<1>2. /\ Pick(s, I) \in Seq({s[i] : i \in I})
      /\ {Pick(s, I)[n] : n \in DOMAIN Pick(s, I)} = {s[i] : i \in I}
  BY <1>1, PickElements
<1> QED
  BY <1>2 DEF IsSeq, ToSet

\* Picking nothing gives nothing.
LEMMA PickNothing == \A s : Pick(s, {}) = << >>
<1> TAKE s
<1>1. Cardinality({}) = 0
  BY FS_EmptySet
<1>2. Pick(s, {}) \in Seq({}) /\ Len(Pick(s, {})) = 0
  BY <1>1 DEF Pick
<1> QED
  BY <1>2

\* Concatenation adds up the elements.
LEMMA ConcatIsSeq ==
  ASSUME NEW s, NEW t, IsSeq(s), IsSeq(t)
  PROVE  IsSeq(s \o t) /\ ToSet(s \o t) = ToSet(s) \cup ToSet(t)
<1> DEFINE S == ToSet(s) \cup ToSet(t)
<1>1. s \in Seq(S) /\ t \in Seq(S)
  BY DEF IsSeq
<1> HIDE DEF S
<1>2. /\ s \o t \in Seq(S) /\ Len(s \o t) = Len(s) + Len(t)
      /\ \A i \in 1 .. Len(s) : (s \o t)[i] = s[i]
      /\ \A i \in 1 .. Len(t) : (s \o t)[Len(s) + i] = t[i]
      /\ \A i \in 1 .. Len(s \o t) : i <= Len(s) \/ (i - Len(s) \in 1 .. Len(t)
                                                      /\ (s \o t)[i] = t[i - Len(s)])
  BY <1>1
<1>3. /\ DOMAIN s = 1 .. Len(s) /\ DOMAIN t = 1 .. Len(t) /\ Len(s) \in Nat /\ Len(t) \in Nat
      /\ DOMAIN (s \o t) = 1 .. Len(s \o t)
  BY <1>1, <1>2
<1>4. \A i \in DOMAIN s : \E k \in DOMAIN (s \o t) : (s \o t)[k] = s[i]
  BY <1>2, <1>3
<1>5. \A i \in DOMAIN t : \E k \in DOMAIN (s \o t) : (s \o t)[k] = t[i]
  <2> TAKE i \in DOMAIN t
  <2>1. Len(s) + i \in DOMAIN (s \o t)
    BY <1>2, <1>3
  <2> QED
    BY <1>2, <1>3, <2>1
<1>6. \A k \in DOMAIN (s \o t) :
        (\E i \in DOMAIN s : (s \o t)[k] = s[i]) \/ (\E i \in DOMAIN t : (s \o t)[k] = t[i])
  BY <1>2, <1>3
<1>7. ToSet(s \o t) = ToSet(s) \cup ToSet(t)
  BY <1>4, <1>5, <1>6 DEF ToSet
<1> QED
  BY <1>2, <1>7 DEF IsSeq, S

-----------------------------------------------------------------------------
(* The operations of a plan.                                               *)

\* Operations that migrate the databases of services in X only.
MigratesIn(operations, X) ==
  /\ IsSeq(operations)
  /\ \A o \in ToSet(operations) : o.action = "database.migrate" => o.resource \in X

\* Parts of a plan may be put together.
LEMMA ConcatMigrates ==
  ASSUME NEW X, NEW s, NEW t, MigratesIn(s, X), MigratesIn(t, X)
  PROVE  MigratesIn(s \o t, X)
  BY ConcatIsSeq DEF MigratesIn

\* One operation or none.
LEMMA WhenMigrates ==
  ASSUME NEW X, NEW condition, NEW action, NEW resource, action # "database.migrate"
  PROVE  MigratesIn(When(condition, action, resource), X)
<1>1. CASE condition
  BY <1>1 DEF MigratesIn, When, Operation, IsSeq, ToSet
<1>2. CASE ~condition
  BY <1>2 DEF MigratesIn, When, IsSeq, ToSet
<1> QED
  BY <1>1, <1>2

\* ForResources() names the given resources only.
LEMMA ResourcesMigrate ==
  ASSUME NEW X, NEW action, NEW order, IsSeq(order), NEW resources,
         action = "database.migrate" => resources \subseteq X
  PROVE  MigratesIn(ForResources(action, order, resources), X)
<1> DEFINE chosen == Pick(order, {i \in DOMAIN order : order[i] \in resources})
<1>1. IsSeq(chosen) /\ ToSet(chosen) = {order[i] : i \in {j \in DOMAIN order : order[j] \in resources}}
  BY PickIsSeq
<1>2. ForResources(action, order, resources) = [i \in DOMAIN chosen |-> Operation(action, chosen[i])]
  BY DEF ForResources
<1> HIDE DEF chosen
<1>3. \A i \in DOMAIN chosen : chosen[i] \in resources
  BY <1>1 DEF ToSet
<1>4. DOMAIN chosen = 1 .. Len(chosen) /\ Len(chosen) \in Nat
  BY <1>1 DEF IsSeq
<1> QED
  BY <1>2, <1>3, <1>4 DEF MigratesIn, IsSeq, ToSet, Operation

\* ForUnits() and PairsFor() are never asked for a migration.
LEMMA UnitsMigrateNothing ==
  ASSUME NEW X, NEW action, action # "database.migrate", NEW entries, IsSeq(entries)
  PROVE  MigratesIn(ForUnits(action, entries), X)
<1>1. DOMAIN entries = 1 .. Len(entries) /\ Len(entries) \in Nat
  BY DEF IsSeq
<1> QED
  BY <1>1 DEF MigratesIn, IsSeq, ToSet, Operation, ForUnits

LEMMA PairsMigrateNothing ==
  ASSUME NEW X, NEW first, NEW second, NEW entries, Len(entries) \in Nat,
         first # "database.migrate", second # "database.migrate"
  PROVE  MigratesIn(PairsFor(first, second, entries), X)
<1> DEFINE s == PairsFor(first, second, entries)
           n == 2 * Len(entries)
<1>1. n \in Nat
  OBVIOUS
<1>2. DOMAIN s = 1 .. n /\ \A i \in 1 .. n : s[i].action \in {first, second}
  BY DEF PairsFor, Operation
<1>3. IsSeq(s)
  <2> DEFINE op(i) == Operation(IF i % 2 = 1 THEN first ELSE second, entries[(i + 1) \div 2].unit)
  <2>1. s = [i \in 1 .. n |-> op(i)]
    BY DEF PairsFor
  <2> HIDE DEF op, n
  <2> QED
    BY <1>1, <2>1 DEF IsSeq, ToSet
<1> HIDE DEF s, n
<1> QED
  BY <1>2, <1>3 DEF MigratesIn, ToSet, s

\* buildOperations() up to the commit; sorted and changed are the touched units, put
\* in order, and those whose image changes.
Work(anyChange, b, d, update, remove, needing, missingNetworks, changed, sorted) ==
  When(anyChange /\ b.mode = "bootstrap", "host.prepare", "host")
    \o When(anyChange, "secret.ensure", "secrets.sops.yaml")
    \o ForResources("volume.ensure", ServiceOrder, d.volumes \ b.volumes)
    \o ForResources("network.ensure", <<"hof">> \o ServiceOrder,
                    missingNetworks \cup (d.networks \ b.networks))
    \o PairsFor("image.verify", "image.pull", changed)
    \o ForUnits("service.stop", update)
    \o ForUnits("service.stop", remove)
    \o When(anyChange, "config.write", "compose.yml")
    \o ForUnits("service.remove", remove)
    \o ForResources("database.migrate", ServiceOrder, needing)
    \o PairsFor("service.start", "readiness.wait", sorted)

\* The work migrates for the services that need it and for no other.
LEMMA WorkMigrates ==
  ASSUME NEW anyChange, NEW b, NEW d, NEW update, NEW remove, NEW needing, NEW missingNetworks,
         NEW changed, NEW sorted, IsSeq(update), IsSeq(remove),
         Len(changed) \in Nat, Len(sorted) \in Nat
  PROVE  MigratesIn(Work(anyChange, b, d, update, remove, needing, missingNetworks, changed,
                         sorted), needing)
<1>1. IsSeq(ServiceOrder) /\ IsSeq(<<"hof">> \o ServiceOrder)
  <2>1. IsSeq(ServiceOrder) /\ IsSeq(<<"hof">>)
    BY CatalogAssumption DEF IsSeq, Services, ToSet
  <2> QED
    BY <2>1, ConcatIsSeq
<1>2. /\ MigratesIn(When(anyChange /\ b.mode = "bootstrap", "host.prepare", "host"), needing)
      /\ MigratesIn(When(anyChange, "secret.ensure", "secrets.sops.yaml"), needing)
      /\ MigratesIn(When(anyChange, "config.write", "compose.yml"), needing)
  BY WhenMigrates
<1>3. /\ MigratesIn(ForResources("volume.ensure", ServiceOrder, d.volumes \ b.volumes), needing)
      /\ MigratesIn(ForResources("network.ensure", <<"hof">> \o ServiceOrder,
                                 missingNetworks \cup (d.networks \ b.networks)), needing)
      /\ MigratesIn(ForResources("database.migrate", ServiceOrder, needing), needing)
  BY <1>1, ResourcesMigrate
<1>4. /\ MigratesIn(PairsFor("image.verify", "image.pull", changed), needing)
      /\ MigratesIn(PairsFor("service.start", "readiness.wait", sorted), needing)
  BY PairsMigrateNothing
<1>5. /\ MigratesIn(ForUnits("service.stop", update), needing)
      /\ MigratesIn(ForUnits("service.stop", remove), needing)
      /\ MigratesIn(ForUnits("service.remove", remove), needing)
  BY UnitsMigrateNothing
<1> QED
  BY <1>2, <1>3, <1>4, <1>5, ConcatMigrates DEF Work

\* Nothing to work on, no operations.
LEMMA NothingForNobody ==
  /\ \A action : ForUnits(action, << >>) = << >>
  /\ \A action, order : ForResources(action, order, {}) = << >>
  /\ \A first, second, entries : Len(entries) = 0 => PairsFor(first, second, entries) = << >>
  /\ \A action, resource : When(FALSE, action, resource) = << >>
<1>1. \A action : ForUnits(action, << >>) = << >>
  BY DEF ForUnits
<1>2. ASSUME NEW action, NEW order PROVE ForResources(action, order, {}) = << >>
  <2> DEFINE chosen == Pick(order, {i \in DOMAIN order : order[i] \in {}})
  <2>1. {i \in DOMAIN order : order[i] \in {}} = {}
    OBVIOUS
  <2>2. chosen = << >>
    BY <2>1, PickNothing
  <2>3. ForResources(action, order, {}) = [i \in DOMAIN chosen |-> Operation(action, chosen[i])]
    BY DEF ForResources
  <2> HIDE DEF chosen
  <2> QED
    BY <2>2, <2>3
<1>3. ASSUME NEW first, NEW second, NEW entries, Len(entries) = 0
      PROVE  PairsFor(first, second, entries) = << >>
  <2> DEFINE op(i) == Operation(IF i % 2 = 1 THEN first ELSE second, entries[(i + 1) \div 2].unit)
  <2>1. PairsFor(first, second, entries) = [i \in 1 .. 2 * Len(entries) |-> op(i)]
    BY DEF PairsFor
  <2> HIDE DEF op
  <2> QED
    BY <1>3, <2>1
<1>4. \A action, resource : When(FALSE, action, resource) = << >>
  BY DEF When
<1> QED
  BY <1>1, <1>2, <1>3, <1>4

\* buildOperations(): a migration for the services that need one and for no other,
\* and whatever a plan does, it ends by recording it.
LEMMA OperationsEndInCommit ==
  ASSUME NEW b, NEW d, NEW create, NEW update, NEW remove, NEW needing, NEW missingNetworks,
         NEW repaired, IsSeq(create), IsSeq(update), IsSeq(remove),
         b.topologyDigest = d.topologyDigest =>
           d.volumes \ b.volumes = {} /\ d.networks \ b.networks = {},
         NEW all, all = buildOperations(b, d, create, update, remove, needing, missingNetworks,
                                        repaired)
  PROVE  MigratesIn(all, needing) /\ (all # << >> => all[Len(all)].action = "state.commit")
<1> DEFINE touched == create \o update
           changed == Pick(touched, {i \in DOMAIN touched : touched[i].imageChanged})
           sorted == topologicallySortByDependency(touched)
           anyChange == \/ touched \o remove # <<>> \/ needing # {} \/ repaired # {}
                        \/ b.topologyDigest # d.topologyDigest \/ missingNetworks # {}
           work == Work(anyChange, b, d, update, remove, needing, missingNetworks, changed, sorted)
           commit == When(anyChange, "state.commit", "state/current.json")
<1>1. all = work \o commit
  BY DEF buildOperations, VerifyAndPull, StartAndWait, Work
<1>2. IsSeq(touched) /\ ToSet(touched) = ToSet(create) \cup ToSet(update)
  BY ConcatIsSeq
<1>3. Len(changed) \in Nat
  <2> DEFINE I == {i \in DOMAIN touched : touched[i].imageChanged}
  <2>1. I \in SUBSET DOMAIN touched /\ changed = Pick(touched, I)
    OBVIOUS
  <2> HIDE DEF I, touched, changed
  <2>2. IsSeq(changed)
    BY <1>2, <2>1, PickIsSeq
  <2> QED
    BY <2>2 DEF IsSeq
<1>4. Len(sorted) \in Nat
  <2> HIDE DEF touched
  <2>1. DOMAIN touched = 1 .. Len(touched) /\ Len(touched) \in Nat
    BY <1>2 DEF IsSeq
  <2> QED
    BY <2>1 DEF topologicallySortByDependency
<1>5. MigratesIn(work, needing) /\ MigratesIn(commit, needing)
  <2> HIDE DEF changed, sorted, anyChange
  <2> QED
    BY <1>3, <1>4, WorkMigrates, WhenMigrates
<1>6. CASE anyChange
  <2> HIDE DEF anyChange, work
  <2>1. commit = <<Operation("state.commit", "state/current.json")>>
    BY <1>6 DEF When
  <2>2. work \in Seq(ToSet(work))
    BY <1>5 DEF MigratesIn, IsSeq
  <2>3. all[Len(all)] = Operation("state.commit", "state/current.json")
    <3> DEFINE o == Operation("state.commit", "state/current.json")
               S == ToSet(work) \cup {o}
    <3>0. commit = <<o>>
      BY <2>1
    <3> HIDE DEF o, commit
    <3>1. work \in Seq(S) /\ <<o>> \in Seq(S) /\ all = work \o <<o>>
      BY <1>1, <2>2, <3>0
    <3> HIDE DEF S
    <3>2. all[Len(all)] = o
      BY <3>1
    <3> QED
      BY <3>2 DEF o
  <2> HIDE DEF commit
  <2> QED
    BY <1>1, <1>5, <2>3, ConcatMigrates DEF Operation
<1>7. CASE ~anyChange
  <2>1. /\ touched \o remove = << >> /\ needing = {}
        /\ d.volumes \ b.volumes = {} /\ missingNetworks \cup (d.networks \ b.networks) = {}
    BY <1>7
  <2>2. touched = << >> /\ remove = << >> /\ create = << >> /\ update = << >>
    <3> HIDE DEF touched
    <3>1. touched = << >> /\ remove = << >>
      <4>1. ToSet(touched) \cup ToSet(remove) = ToSet(<< >>)
        BY <1>2, <2>1, ConcatIsSeq
      <4>2. ToSet(touched) = {} /\ ToSet(remove) = {}
        BY <4>1 DEF ToSet
      <4> QED
        BY <1>2, <4>2 DEF IsSeq
    <3>2. ToSet(create) = {} /\ ToSet(update) = {}
      BY <1>2, <3>1 DEF ToSet
    <3> QED
      BY <3>1, <3>2 DEF IsSeq
  <2>3. Len(changed) = 0
    <3>1. {i \in DOMAIN touched : touched[i].imageChanged} = {}
      BY <2>2
    <3>2. changed = << >>
      BY <3>1, PickNothing
    <3> HIDE DEF changed
    <3> QED
      BY <3>2
  <2>4. Len(sorted) = 0
    <3> HIDE DEF touched
    <3> QED
      BY <2>2 DEF topologicallySortByDependency
  <2> HIDE DEF changed, sorted, touched
  <2>5. work = << >> /\ commit = << >>
    <3>1. anyChange = FALSE
      BY <1>7
    <3>2. commit = << >>
      BY <3>1 DEF When
    <3>3. /\ update = << >> /\ remove = << >> /\ needing = {}
          /\ d.volumes \ b.volumes = {} /\ missingNetworks \cup (d.networks \ b.networks) = {}
          /\ Len(changed) = 0 /\ Len(sorted) = 0
      BY <2>1, <2>2, <2>3, <2>4
    <3> HIDE DEF anyChange, commit
    <3>4. /\ When(anyChange /\ b.mode = "bootstrap", "host.prepare", "host") = << >>
          /\ When(anyChange, "secret.ensure", "secrets.sops.yaml") = << >>
          /\ When(anyChange, "config.write", "compose.yml") = << >>
      BY <3>1 DEF When
    <3>5. /\ ForResources("volume.ensure", ServiceOrder, d.volumes \ b.volumes) = << >>
          /\ ForResources("network.ensure", <<"hof">> \o ServiceOrder,
                          missingNetworks \cup (d.networks \ b.networks)) = << >>
          /\ ForResources("database.migrate", ServiceOrder, needing) = << >>
      BY <3>3, NothingForNobody
    <3>6. /\ PairsFor("image.verify", "image.pull", changed) = << >>
          /\ PairsFor("service.start", "readiness.wait", sorted) = << >>
          /\ ForUnits("service.stop", update) = << >> /\ ForUnits("service.stop", remove) = << >>
          /\ ForUnits("service.remove", remove) = << >>
      BY <3>3, NothingForNobody
    <3>7. << >> \o << >> = << >>
      OBVIOUS
    <3>8. work = << >>
      BY <3>4, <3>5, <3>6, <3>7 DEF Work
    <3> QED
      BY <3>2, <3>8
  <2> HIDE DEF work, commit
  <2> QED
    BY <1>1, <1>5, <2>5
<1> QED
  BY <1>6, <1>7

-----------------------------------------------------------------------------
(* The entries of a plan.                                                  *)

\* What EntriesFor() makes of the units at the positions in I: one entry for each.
LEMMA EntriesAreChosen ==
  ASSUME NEW I \in SUBSET DOMAIN UnitOrder, NEW e,
         e = [i \in DOMAIN Pick(UnitOrder, I) |-> e[i]],
         \A i \in DOMAIN e : e[i].unit = Pick(UnitOrder, I)[i]
  PROVE  IsSeq(e) /\ TouchedUnits(e) = {UnitOrder[i] : i \in I}
<1> DEFINE chosen == Pick(UnitOrder, I)
<1>1. IsSeq(UnitOrder)
  BY CatalogAssumption DEF IsSeq, Units
<1>2. IsSeq(chosen) /\ ToSet(chosen) = {UnitOrder[i] : i \in I}
  BY <1>1, PickIsSeq
<1>3. DOMAIN chosen = 1 .. Len(chosen) /\ Len(chosen) \in Nat
  BY <1>2 DEF IsSeq
<1>4. DOMAIN e = DOMAIN chosen /\ e = [i \in DOMAIN chosen |-> e[i]]
      /\ \A i \in DOMAIN e : e[i].unit = chosen[i]
  OBVIOUS
<1> HIDE DEF chosen
<1>5. IsSeq(e)
  BY <1>3, <1>4 DEF IsSeq, ToSet
<1>6. TouchedUnits(e) = ToSet(chosen)
  BY <1>4 DEF TouchedUnits, ToSet
<1> QED
  BY <1>2, <1>5, <1>6

\* diffUnits(): units that are new are created, units that are no longer there are removed.
LEMMA DiffIsDifference ==
  ASSUME NEW b, NEW d, DOMAIN b.units \subseteq Units, DOMAIN d.units \subseteq Units
  PROVE  LET diff == diffUnits(b, d)
         IN  /\ IsSeq(diff.create) /\ IsSeq(diff.update) /\ IsSeq(diff.remove)
             /\ TouchedUnits(diff.create) = DOMAIN d.units \ DOMAIN b.units
             /\ TouchedUnits(diff.remove) = DOMAIN b.units \ DOMAIN d.units
<1> DEFINE old == DOMAIN b.units
           new == DOMAIN d.units
           C == {i \in DOMAIN UnitOrder : UnitOrder[i] \in new \ old}
           U == {i \in DOMAIN UnitOrder :
                   /\ UnitOrder[i] \in new \cap old
                   /\ d.units[UnitOrder[i]].configFingerprint # b.units[UnitOrder[i]].configFingerprint}
           R == {i \in DOMAIN UnitOrder : UnitOrder[i] \in old \ new}
           c == diffUnits(b, d).create
           u == diffUnits(b, d).update
           r == diffUnits(b, d).remove
<1>1. /\ c = [i \in DOMAIN Pick(UnitOrder, C) |->
                Entry(Pick(UnitOrder, C)[i], "none", d.units[Pick(UnitOrder, C)[i]].image, TRUE)]
      /\ u = [i \in DOMAIN Pick(UnitOrder, U) |->
                Entry(Pick(UnitOrder, U)[i], b.units[Pick(UnitOrder, U)[i]].image,
                      d.units[Pick(UnitOrder, U)[i]].image,
                      b.units[Pick(UnitOrder, U)[i]].image # d.units[Pick(UnitOrder, U)[i]].image)]
      /\ r = [i \in DOMAIN Pick(UnitOrder, R) |->
                Entry(Pick(UnitOrder, R)[i], b.units[Pick(UnitOrder, R)[i]].image, "none", FALSE)]
  BY DEF diffUnits, EntriesFor
<1>2. C \in SUBSET DOMAIN UnitOrder /\ U \in SUBSET DOMAIN UnitOrder /\ R \in SUBSET DOMAIN UnitOrder
  OBVIOUS
<1>3. {UnitOrder[i] : i \in C} = new \ old /\ {UnitOrder[i] : i \in R} = old \ new
  BY DEF Units, ToSet
<1> HIDE DEF C, U, R, c, u, r
<1>4. IsSeq(c) /\ TouchedUnits(c) = {UnitOrder[i] : i \in C}
  BY <1>1, <1>2, EntriesAreChosen DEF Entry
<1>5. IsSeq(u)
  BY <1>1, <1>2, EntriesAreChosen DEF Entry
<1>6. IsSeq(r) /\ TouchedUnits(r) = {UnitOrder[i] : i \in R}
  BY <1>1, <1>2, EntriesAreChosen DEF Entry
<1> QED
  BY <1>3, <1>4, <1>5, <1>6 DEF c, u, r

\* The folds add entries at the end.
LEMMA FoldsAddEntries ==
  ASSUME NEW update, IsSeq(update), NEW create, NEW d
  PROVE  /\ \A kind, drift : IsSeq(foldRepairs(kind, d, drift, create, update))
         /\ \A repaired : IsSeq(foldGatewayRestartForCaddyfile(d, repaired, create, update))
         /\ \A needing : IsSeq(foldMigrationOnlyIntoUpdates(d, needing, create, update))
<1>1. ASSUME NEW kind, NEW drift PROVE IsSeq(foldRepairs(kind, d, drift, create, update))
  <2> DEFINE I == {i \in DOMAIN UnitOrder : /\ [unit |-> UnitOrder[i], kind |-> kind] \in drift
                                            /\ UnitOrder[i] \notin TouchedUnits(create \o update)
                                            /\ UnitOrder[i] \in DOMAIN d.units}
             e == [i \in DOMAIN Pick(UnitOrder, I) |->
                     Entry(Pick(UnitOrder, I)[i], d.units[Pick(UnitOrder, I)[i]].image,
                           d.units[Pick(UnitOrder, I)[i]].image, TRUE)]
  <2>1. foldRepairs(kind, d, drift, create, update) = update \o e
    BY DEF foldRepairs, EntriesFor
  <2>2. I \in SUBSET DOMAIN UnitOrder
    OBVIOUS
  <2> HIDE DEF I
  <2>3. /\ e = [i \in DOMAIN Pick(UnitOrder, I) |-> e[i]]
        /\ \A i \in DOMAIN e : e[i].unit = Pick(UnitOrder, I)[i]
    BY DEF Entry
  <2> HIDE DEF e
  <2>4. IsSeq(e)
    BY <2>2, <2>3, EntriesAreChosen
  <2> QED
    BY <2>1, <2>4, ConcatIsSeq
<1>2. ASSUME NEW repaired PROVE IsSeq(foldGatewayRestartForCaddyfile(d, repaired, create, update))
  <2> DEFINE I == {i \in DOMAIN UnitOrder : /\ UnitOrder[i] = Gateway
                                            /\ \E g \in repaired : g.file = "Caddyfile"
                                            /\ UnitOrder[i] \notin TouchedUnits(create \o update)
                                            /\ UnitOrder[i] \in DOMAIN d.units}
             e == [i \in DOMAIN Pick(UnitOrder, I) |->
                     Entry(Pick(UnitOrder, I)[i], d.units[Pick(UnitOrder, I)[i]].image,
                           d.units[Pick(UnitOrder, I)[i]].image, FALSE)]
  <2>1. foldGatewayRestartForCaddyfile(d, repaired, create, update) = update \o e
    BY DEF foldGatewayRestartForCaddyfile, EntriesFor
  <2>2. I \in SUBSET DOMAIN UnitOrder
    OBVIOUS
  <2> HIDE DEF I
  <2>3. /\ e = [i \in DOMAIN Pick(UnitOrder, I) |-> e[i]]
        /\ \A i \in DOMAIN e : e[i].unit = Pick(UnitOrder, I)[i]
    BY DEF Entry
  <2> HIDE DEF e
  <2>4. IsSeq(e)
    BY <2>2, <2>3, EntriesAreChosen
  <2> QED
    BY <2>1, <2>4, ConcatIsSeq
<1>3. ASSUME NEW needing PROVE IsSeq(foldMigrationOnlyIntoUpdates(d, needing, create, update))
  <2> DEFINE I == {i \in DOMAIN UnitOrder : /\ \E s \in needing : DbUnit[s] = UnitOrder[i]
                                            /\ UnitOrder[i] \notin TouchedUnits(create \o update)}
             e == [i \in DOMAIN Pick(UnitOrder, I) |->
                     Entry(Pick(UnitOrder, I)[i], d.units[Pick(UnitOrder, I)[i]].image,
                           d.units[Pick(UnitOrder, I)[i]].image, FALSE)]
  <2>1. foldMigrationOnlyIntoUpdates(d, needing, create, update) = update \o e
    BY DEF foldMigrationOnlyIntoUpdates, EntriesFor
  <2>2. I \in SUBSET DOMAIN UnitOrder
    OBVIOUS
  <2> HIDE DEF I
  <2>3. /\ e = [i \in DOMAIN Pick(UnitOrder, I) |-> e[i]]
        /\ \A i \in DOMAIN e : e[i].unit = Pick(UnitOrder, I)[i]
    BY DEF Entry
  <2> HIDE DEF e
  <2>4. IsSeq(e)
    BY <2>2, <2>3, EntriesAreChosen
  <2> QED
    BY <2>1, <2>4, ConcatIsSeq
<1> QED
  BY <1>1, <1>2, <1>3

-----------------------------------------------------------------------------
(* What an executable plan says.                                           *)

\* resolveBaseline(): the baseline of the recorded generation c, next to what m asks for.
LEMMA BaselineOfRecord ==
  ASSUME NEW c, NEW m \in Manifests, c.manifest \in Manifests,
         NEW b, b = resolveBaseline(c), NEW d, d = topologyToServiceState(m)
  PROVE  /\ b.generation = c.generation
         /\ DOMAIN b.units = {u \in Units : ServiceOf[u] \in b.enabled}
         /\ b.topologyDigest = d.topologyDigest =>
              d.volumes \ b.volumes = {} /\ d.networks \ b.networks = {}
         /\ c.generation = 0 => b.mode = "bootstrap" /\ b.enabled = {} /\ b.volumes = {}
         /\ c.generation # 0 =>
              /\ b.mode = "applied" /\ b.enabled = Enabled(c.manifest)
              /\ b.volumes = ExpectedVolumes(c) /\ b.retained = c.retained
              /\ \A s \in Persistent \cap b.enabled : b.schemaVersion[s] # 0
<1>1. /\ d.topologyDigest = [enabled |-> Enabled(m), release |-> m.release, backup |-> m.backup]
      /\ d.volumes = Enabled(m) \cap WithVolume /\ d.networks = Networks(m)
  BY DEF topologyToServiceState
<1>2. CASE c.generation = 0
  <2>1. b = emptyBaseline
    BY <1>2 DEF resolveBaseline
  <2>2. /\ b.mode = "bootstrap" /\ b.generation = 0 /\ b.enabled = {} /\ b.units = << >>
        /\ b.volumes = {} /\ b.topologyDigest = [enabled |-> {}, release |-> "none", backup |-> "none"]
    BY <2>1 DEF emptyBaseline
  <2>3. m.release # "none"
    BY ManifestAssumption, CatalogAssumption
  <2>4. b.topologyDigest.release = "none" /\ d.topologyDigest.release = m.release
    BY <1>1, <2>2
  <2>5. DOMAIN b.units = {}
    BY <2>2
  <2> QED
    BY <1>2, <2>2, <2>3, <2>4, <2>5
<1>3. CASE c.generation # 0
  <2> DEFINE state == topologyToServiceState(c.manifest)
  <2>1. b = appliedBaseline(c)
    BY <1>3 DEF resolveBaseline
  <2>2. /\ b.mode = "applied" /\ b.generation = c.generation /\ b.enabled = state.enabled
        /\ b.units = state.units /\ b.volumes = ExpectedVolumes(c) /\ b.retained = c.retained
        /\ b.topologyDigest = state.topologyDigest /\ b.schemaVersion = state.schemaVersion
        /\ b.networks = state.networks
    BY <2>1 DEF appliedBaseline
  <2>3. /\ state.enabled = Enabled(c.manifest) /\ DOMAIN state.units = RenderedUnits(c.manifest)
        /\ state.topologyDigest.enabled = Enabled(c.manifest)
        /\ state.networks = Networks(c.manifest)
        /\ \A s \in Persistent \cap Enabled(c.manifest) :
             state.schemaVersion[s] = Schema[c.manifest.release][s].to
    BY DEF topologyToServiceState
  <2> HIDE DEF state
  <2>4. \A s \in Persistent : Schema[c.manifest.release][s].to # 0
    BY CatalogAssumption, ManifestAssumption
  <2>5. b.topologyDigest = d.topologyDigest =>
          d.volumes \ b.volumes = {} /\ d.networks \ b.networks = {}
    <3>1. SUFFICES ASSUME b.topologyDigest = d.topologyDigest
                   PROVE  d.volumes \ b.volumes = {} /\ d.networks \ b.networks = {}
      OBVIOUS
    <3>2. Enabled(m) = Enabled(c.manifest)
      BY <1>1, <2>2, <2>3, <3>1
    <3>3. d.networks = b.networks
      BY <1>1, <2>2, <2>3, <3>2 DEF Networks
    <3>4. d.volumes \subseteq ExpectedVolumes(c)
      BY <1>1, <3>2 DEF ExpectedVolumes
    <3> QED
      BY <2>2, <3>3, <3>4
  <2> QED
    BY <1>3, <2>2, <2>3, <2>4, <2>5 DEF RenderedUnits
<1> QED
  BY <1>2, <1>3

\* servicesNeedingMigration(): in an executable plan, a service that is migrated was
\* enabled or starts without data.
LEMMA MigratedServicesAreKnown ==
  ASSUME NEW b, NEW d, NEW images, NEW update, computeUpgradeBlockers(b, d, update) = {},
         NEW s \in servicesNeedingMigration(b, d, images)
  PROVE  s \in Persistent /\ (s \in b.enabled \/ b.retained[s] = 0)
<1>1. /\ s \in Persistent \cap d.enabled
      /\ ~(/\ s \notin b.enabled /\ b.retained[s] # 0 /\ b.retained[s] = d.schemaVersion[s])
  BY DEF servicesNeedingMigration
<1>2. <<"retained schema", s>> \notin computeUpgradeBlockers(b, d, update)
  OBVIOUS
<1>3. s \in (Persistent \cap d.enabled) \ b.enabled =>
        ~(b.retained[s] # 0 /\ b.retained[s] # d.schemaVersion[s])
  BY <1>2 DEF computeUpgradeBlockers
<1> QED
  BY <1>1, <1>3

\* What buildPlan() decides on its way to a plan p, one decision after the other.
Decided(b, m, o, repairDrift, p, d, repairable, withMissing, withManual, withGateway, imageChanged,
        needing, update) ==
  LET diff == diffUnits(b, d)
      drift == computeDrift(b, o)
      generatedDrift == computeGeneratedDrift(b, o)
  IN  /\ repairable = {e \in generatedDrift : \/ e.kind = "generated-missing"
                                              \/ e.kind = "generated-modified" /\ repairDrift}
      /\ withMissing = foldRepairs("missing", d, drift, diff.create, diff.update)
      /\ withManual = IF repairDrift THEN foldRepairs("manual-change", d, drift, diff.create, withMissing)
                                     ELSE withMissing
      /\ withGateway = foldGatewayRestartForCaddyfile(d, repairable, diff.create, withManual)
      /\ imageChanged = {e.unit : e \in {f \in ToSet(diff.create \o withGateway) : f.imageChanged}}
      /\ needing = servicesNeedingMigration(b, d, imageChanged)
      /\ update = foldMigrationOnlyIntoUpdates(d, needing, diff.create, withGateway)
      /\ p.mode = b.mode /\ p.manifest = m /\ p.generation = b.generation + 1
      /\ p.retained = computeRetainedServices(b, m, diff.remove, diff.create)
      /\ p.secrets = scopedSecretNames(b, m, diff.create \o update)
      /\ p.operations = buildOperations(b, d, diff.create, update, diff.remove, needing,
                                        computeMissingResources(b.networks, o, o.networks), repairable)
      /\ p.blockers = computeBlockers(b, o, drift, generatedDrift,
                                      computeMissingResources(b.volumes, o, o.volumes), repairDrift,
                                      migrationBlockers(b, m, needing)
                                        \cup computeUpgradeBlockers(b, d, withGateway)
                                        \cup retainBlockers(m, diff.remove))

\* Every plan comes from such decisions.
LEMMA PlanDecides ==
  ASSUME NEW b, NEW m, NEW o, NEW repairDrift, NEW p, p = buildPlan(b, m, o, repairDrift),
         NEW d, d = topologyToServiceState(m)
  PROVE  \E repairable, withMissing, withManual, withGateway, imageChanged, needing, update :
           Decided(b, m, o, repairDrift, p, d, repairable, withMissing, withManual, withGateway,
                   imageChanged, needing, update)
<1> DEFINE t == topologyToServiceState(m)
           drift == computeDrift(b, o)
           diff == diffUnits(b, t)
           create == diff.create
           repairable == {e \in computeGeneratedDrift(b, o) :
                            \/ e.kind = "generated-missing"
                            \/ e.kind = "generated-modified" /\ repairDrift}
           withMissing == foldRepairs("missing", t, drift, create, diff.update)
           withManual == IF repairDrift THEN foldRepairs("manual-change", t, drift, create, withMissing)
                                        ELSE withMissing
           withGateway == foldGatewayRestartForCaddyfile(t, repairable, create, withManual)
           imageChanged == {e.unit : e \in {f \in ToSet(create \o withGateway) : f.imageChanged}}
           needing == servicesNeedingMigration(b, t, imageChanged)
           update == foldMigrationOnlyIntoUpdates(t, needing, create, withGateway)
<1>1. Decided(b, m, o, repairDrift, p, t, repairable, withMissing, withManual, withGateway,
              imageChanged, needing, update)
  BY DEF buildPlan, Decided
<1> HIDE DEF repairable, withMissing, withManual, withGateway, imageChanged, needing, update
<1>2. Decided(b, m, o, repairDrift, p, d, repairable, withMissing, withManual, withGateway,
              imageChanged, needing, update)
  BY <1>1
<1> QED
  BY ONLY <1>2

\* buildPlan(): what a plan without blockers has checked, decided and ordered.
LEMMA ExecutablePlan ==
  ASSUME NEW c, c.manifest \in Manifests, NEW m \in Manifests, NEW o, NEW repairDrift,
         NEW b, b = resolveBaseline(c),
         NEW p, p = buildPlan(b, m, o, repairDrift), executable(p)
  PROVE  /\ p.manifest = m /\ p.generation = c.generation + 1
         /\ b.mode = "applied" => b.volumes \subseteq o.volumes
         /\ \A s \in Persistent \cap b.enabled : s \notin Enabled(m) => p.retained[s] = b.schemaVersion[s]
         /\ \A s \in Persistent : s \notin b.enabled /\ s \notin Enabled(m) => p.retained[s] = b.retained[s]
         /\ IsSeq(p.operations)
         /\ \A op \in ToSet(p.operations) :
              op.action = "database.migrate" =>
                op.resource \in Persistent /\ (op.resource \in b.enabled \/ b.retained[op.resource] = 0)
         /\ p.operations # << >> => p.operations[Len(p.operations)].action = "state.commit"
<1> DEFINE d == topologyToServiceState(m)
           drift == computeDrift(b, o)
           generatedDrift == computeGeneratedDrift(b, o)
           missingVolumes == computeMissingResources(b.volumes, o, o.volumes)
           missingNetworks == computeMissingResources(b.networks, o, o.networks)
           diff == diffUnits(b, d)
           create == diff.create
           repairable == {e \in generatedDrift : \/ e.kind = "generated-missing"
                                                 \/ e.kind = "generated-modified" /\ repairDrift}
           withMissing == foldRepairs("missing", d, drift, create, diff.update)
           withManual == IF repairDrift THEN foldRepairs("manual-change", d, drift, create, withMissing)
                                        ELSE withMissing
           withGateway == foldGatewayRestartForCaddyfile(d, repairable, create, withManual)
           imageChanged == {e.unit : e \in {f \in ToSet(create \o withGateway) : f.imageChanged}}
           needing == servicesNeedingMigration(b, d, imageChanged)
           update == foldMigrationOnlyIntoUpdates(d, needing, create, withGateway)
           others == migrationBlockers(b, m, needing) \cup computeUpgradeBlockers(b, d, withGateway)
                       \cup retainBlockers(m, diff.remove)
<1>1. /\ p.manifest = m /\ p.generation = b.generation + 1
      /\ p.retained = computeRetainedServices(b, m, diff.remove, create)
      /\ p.operations = buildOperations(b, d, create, update, diff.remove, needing, missingNetworks,
                                        repairable)
      /\ p.blockers = computeBlockers(b, o, drift, generatedDrift, missingVolumes, repairDrift, others)
  BY DEF buildPlan
<1>2. d.enabled = Enabled(m) /\ DOMAIN d.units = RenderedUnits(m)
  BY DEF topologyToServiceState
<1>3. /\ b.generation = c.generation /\ DOMAIN b.units = {u \in Units : ServiceOf[u] \in b.enabled}
      /\ b.topologyDigest = d.topologyDigest =>
           d.volumes \ b.volumes = {} /\ d.networks \ b.networks = {}
  BY BaselineOfRecord
<1>4. /\ IsSeq(create) /\ IsSeq(diff.update) /\ IsSeq(diff.remove)
      /\ TouchedUnits(create) = DOMAIN d.units \ DOMAIN b.units
      /\ TouchedUnits(diff.remove) = DOMAIN b.units \ DOMAIN d.units
  <2>1. DOMAIN b.units \subseteq Units /\ DOMAIN d.units \subseteq Units
    BY <1>2, <1>3 DEF RenderedUnits
  <2> HIDE DEF d
  <2> QED
    BY <2>1, DiffIsDifference
<1> HIDE DEF d, drift, generatedDrift, missingVolumes, missingNetworks, diff, repairable
<1>5. IsSeq(update)
  <2>1. IsSeq(withMissing)
    BY <1>4, FoldsAddEntries
  <2> HIDE DEF withMissing
  <2>2. IsSeq(withManual)
    BY <2>1, FoldsAddEntries
  <2> HIDE DEF withManual
  <2>3. IsSeq(withGateway)
    BY <2>2, FoldsAddEntries
  <2> HIDE DEF withGateway, needing
  <2> QED
    BY <2>3, FoldsAddEntries
<1> HIDE DEF update, withGateway, imageChanged
<1>6. \A s \in needing : s \in Persistent /\ (s \in b.enabled \/ b.retained[s] = 0)
  <2>1. computeUpgradeBlockers(b, d, withGateway) = {}
    <3> HIDE DEF needing
    <3> QED
      BY <1>1 DEF executable, computeBlockers
  <2> QED
    BY <2>1, MigratedServicesAreKnown
<1> HIDE DEF needing
<1>7. /\ missingVolumes = {} /\ (b.mode = "applied" => o.docker = "available")
      /\ (Persistent \cap ServicesOf(diff.remove)) \ m.retain = {}
  <2> HIDE DEF create
  <2>0. computeBlockers(b, o, drift, generatedDrift, missingVolumes, repairDrift, others) = {}
    BY <1>1 DEF executable
  <2>1. retainBlockers(m, diff.remove) \subseteq others
    OBVIOUS
  <2> HIDE DEF others
  <2>2. b.mode = "applied" => o.docker = "available"
    <3>1. <<"observation", "docker">> \notin
            computeBlockers(b, o, drift, generatedDrift, missingVolumes, repairDrift, others)
      BY <2>0
    <3> QED
      BY <3>1 DEF computeBlockers
  <2>3. retainBlockers(m, diff.remove) = {}
    BY <2>0, <2>1 DEF computeBlockers
  <2>4. \A v : v \notin missingVolumes
    <3> TAKE v
    <3>1. <<"missing volume", v>> \notin
            computeBlockers(b, o, drift, generatedDrift, missingVolumes, repairDrift, others)
      BY <2>0
    <3> QED
      BY <3>1 DEF computeBlockers
  <2> QED
    BY <2>2, <2>3, <2>4 DEF retainBlockers
<1>8. b.mode = "applied" => b.volumes \subseteq o.volumes
  BY <1>7 DEF missingVolumes, computeMissingResources
<1>9. /\ MigratesIn(p.operations, needing)
      /\ p.operations # << >> => p.operations[Len(p.operations)].action = "state.commit"
  <2> HIDE DEF create
  <2> QED
    BY <1>1, <1>3, <1>4, <1>5, OperationsEndInCommit
<1>10. /\ \A s \in ServicesOf(create) : s \in Enabled(m)
       /\ \A s \in ServicesOf(diff.remove) : s \in b.enabled
       /\ \A s \in Persistent \cap b.enabled : s \notin Enabled(m) => s \in ServicesOf(diff.remove)
  <2>1. \A s \in ServicesOf(create) : s \in Enabled(m)
    BY <1>2, <1>4 DEF ServicesOf, RenderedUnits
  <2>2. \A s \in ServicesOf(diff.remove) : s \in b.enabled
    BY <1>3, <1>4 DEF ServicesOf
  <2>3. ASSUME NEW s \in Persistent \cap b.enabled, s \notin Enabled(m)
        PROVE  s \in ServicesOf(diff.remove)
    <3>1. DbUnit[s] \in Units /\ ServiceOf[DbUnit[s]] = s
      BY CatalogAssumption
    <3>2. DbUnit[s] \in TouchedUnits(diff.remove)
      BY <1>2, <1>3, <1>4, <2>3, <3>1 DEF RenderedUnits
    <3> QED
      BY <3>1, <3>2 DEF ServicesOf
  <2> QED
    BY <2>1, <2>2, <2>3
<1>11. /\ \A s \in Persistent \cap b.enabled :
            s \notin Enabled(m) => p.retained[s] = b.schemaVersion[s]
       /\ \A s \in Persistent :
            s \notin b.enabled /\ s \notin Enabled(m) => p.retained[s] = b.retained[s]
  <2> HIDE DEF create
  <2> QED
    BY <1>1, <1>7, <1>10 DEF computeRetainedServices
<1> QED
  BY <1>1, <1>3, <1>6, <1>8, <1>9, <1>11 DEF MigratesIn

-----------------------------------------------------------------------------
(* Committed data.                                                         *)

\* The operation that runs: its plan keeps expecting the committed data and what it is about to
\* commit, it has found that data on the host, migrates of it only what is enabled,
\* and ends in a commit.
PlanKeepsData ==
  /\ pos \in 1 .. Len(plan.operations) /\ IsSeq(plan.operations)
  /\ plan.operations[Len(plan.operations)].action = "state.commit"
  /\ plan.manifest \in Manifests /\ plan.generation \in Nat \ {0}
  /\ live \cup (Persistent \cap Enabled(plan.manifest)) \subseteq ExpectedVolumes(plan)
  /\ live \subseteq DOMAIN volumes
  /\ \A op \in ToSet(plan.operations) :
       op.action = "database.migrate" /\ op.resource \in live => op.resource \in Enabled(current.manifest)

\* The inductive invariant.
DataInv ==
  /\ manifest \in Manifests /\ current.manifest \in Manifests /\ current.generation \in Nat
  /\ pos \in Nat
  /\ live \subseteq Persistent /\ LiveDataStaysExpected
  /\ pos > 0 => PlanKeepsData

\* ExpectedVolumes() depends on the manifest and the retained services only.
LEMMA ExpectedVolumesOf ==
  \A x, y : x.manifest = y.manifest /\ x.retained = y.retained => ExpectedVolumes(x) = ExpectedVolumes(y)
BY DEF ExpectedVolumes

\* An operation that begins keeps expecting what is committed.
LEMMA BeginKeepsData ==
  ASSUME DataInv, NEW repairDrift \in BOOLEAN, BeginApply(repairDrift)
  PROVE  DataInv'
<1> DEFINE b == resolveBaseline(current)
<1>1. /\ Idle /\ plan' = buildPlan(b, manifest, observation, repairDrift) /\ executable(plan')
      /\ plan'.operations # << >> /\ pos' = 1
      /\ UNCHANGED <<manifest, current, live, volumes>>
  BY DEF BeginApply, PlanNow, host
<1>2. /\ manifest \in Manifests /\ current.manifest \in Manifests /\ current.generation \in Nat
      /\ live \subseteq Persistent /\ live \subseteq b.volumes
  BY DEF DataInv, LiveDataStaysExpected
<1> HIDE DEF b
<1>3. b = resolveBaseline(current)
  BY DEF b
<1>4. /\ plan'.manifest = manifest /\ plan'.generation = current.generation + 1
      /\ b.mode = "applied" => b.volumes \subseteq observation.volumes
      /\ \A s \in Persistent \cap b.enabled :
           s \notin Enabled(manifest) => plan'.retained[s] = b.schemaVersion[s]
      /\ \A s \in Persistent :
           s \notin b.enabled /\ s \notin Enabled(manifest) => plan'.retained[s] = b.retained[s]
      /\ IsSeq(plan'.operations)
      /\ \A op \in ToSet(plan'.operations) :
           op.action = "database.migrate" =>
             op.resource \in Persistent /\ (op.resource \in b.enabled \/ b.retained[op.resource] = 0)
      /\ plan'.operations[Len(plan'.operations)].action = "state.commit"
  BY <1>1, <1>2, <1>3, ExecutablePlan
<1>5. \A s \in live : /\ b.mode = "applied" /\ b.enabled = Enabled(current.manifest)
                      /\ b.retained = current.retained
                      /\ \A t \in Persistent \cap b.enabled : b.schemaVersion[t] # 0
                      /\ s \in Enabled(current.manifest) \/ current.retained[s] # 0
  <2> TAKE s \in live
  <2>1. s \in b.volumes
    BY <1>2
  <2>2. current.generation # 0
    BY <1>2, <1>3, <2>1, BaselineOfRecord
  <2>3. /\ b.mode = "applied" /\ b.enabled = Enabled(current.manifest)
        /\ b.volumes = ExpectedVolumes(current) /\ b.retained = current.retained
        /\ \A t \in Persistent \cap b.enabled : b.schemaVersion[t] # 0
    BY <1>2, <1>3, <2>2, BaselineOfRecord
  <2> QED
    BY <2>1, <2>3 DEF ExpectedVolumes, RetainedServices
<1>6. Persistent \cap Enabled(manifest) \subseteq ExpectedVolumes(plan')
  BY <1>4, CatalogAssumption DEF ExpectedVolumes
<1>7. live \subseteq ExpectedVolumes(plan')
  <2> SUFFICES ASSUME NEW s \in live, s \notin Enabled(manifest)
               PROVE  s \in ExpectedVolumes(plan')
    BY <1>2, <1>6
  <2>1. plan'.retained[s] # 0
    BY <1>2, <1>4, <1>5
  <2> QED
    BY <1>2, <2>1 DEF ExpectedVolumes, RetainedServices
<1>8. live \subseteq DOMAIN volumes
  BY <1>2, <1>4, <1>5 DEF observation
<1>9. \A op \in ToSet(plan'.operations) :
        op.action = "database.migrate" /\ op.resource \in live => op.resource \in Enabled(current.manifest)
  BY <1>4, <1>5
<1>10. 1 \in 1 .. Len(plan'.operations)
  BY <1>1, <1>4 DEF IsSeq
<1>11. plan'.generation \in Nat \ {0}
  BY <1>2, <1>4
<1>12. PlanKeepsData'
  BY <1>1, <1>2, <1>4, <1>6, <1>7, <1>8, <1>9, <1>10, <1>11 DEF PlanKeepsData
<1>13. LiveDataStaysExpected'
  BY <1>1, <1>2, <1>3 DEF LiveDataStaysExpected
<1> QED
  BY <1>1, <1>2, <1>12, <1>13 DEF DataInv

\* A role that is not the commit moves on to the next operation and removes no volume.
LEMMA WorkKeepsData ==
  ASSUME DataInv, pos > 0, Done, plan.operations[pos].action # "state.commit",
         DOMAIN volumes \subseteq DOMAIN volumes'
  PROVE  DataInv'
<1>1. /\ PlanKeepsData /\ pos' = pos + 1
      /\ UNCHANGED <<manifest, current, plan, live>>
  BY DEF DataInv, Done
<1>2. pos' \in 1 .. Len(plan.operations)
  BY <1>1 DEF PlanKeepsData, IsSeq
<1>3. PlanKeepsData'
  BY <1>1, <1>2 DEF PlanKeepsData
<1>4. LiveDataStaysExpected'
  BY <1>1 DEF DataInv, LiveDataStaysExpected
<1> QED
  BY <1>1, <1>2, <1>3, <1>4 DEF DataInv

\* Every role but the commit is such a step.
LEMMA RolesKeepVolumes ==
  ASSUME RoleStep
  PROVE  /\ pos > 0
         /\ stateCommit \/ (/\ Done /\ plan.operations[pos].action # "state.commit"
                            /\ DOMAIN volumes \subseteq DOMAIN volumes')
<1>1. CASE stateCommit
  BY <1>1 DEF stateCommit, At
<1>2. CASE hostPrepare
  BY <1>2 DEF hostPrepare, At
<1>3. CASE secretEnsure
  BY <1>3 DEF secretEnsure, At
<1>4. CASE volumeEnsure
  BY <1>4 DEF volumeEnsure, At, Put
<1>5. CASE networkEnsure
  BY <1>5 DEF networkEnsure, At
<1>6. CASE imageVerifyOrPull
  BY <1>6 DEF imageVerifyOrPull, At, host
<1>7. CASE serviceStop
  BY <1>7 DEF serviceStop, At
<1>8. CASE configWrite
  BY <1>8 DEF configWrite, At
<1>9. CASE serviceRemove
  BY <1>9 DEF serviceRemove, At
<1>10. CASE databaseMigrate
  BY <1>10 DEF databaseMigrate, At, Put
<1>11. CASE serviceStart
  BY <1>11 DEF serviceStart, At, Mounted, Put
<1>12. CASE readinessWait
  BY <1>12 DEF readinessWait, At, host
<1> QED
  BY <1>1, <1>2, <1>3, <1>4, <1>5, <1>6, <1>7, <1>8, <1>9, <1>10, <1>11, <1>12 DEF RoleStep

\* A commit records what its plan expects.
LEMMA CommitKeepsData ==
  ASSUME DataInv, stateCommit
  PROVE  DataInv'
<1>1. /\ PlanKeepsData /\ pos' = 0 /\ manifest' = manifest
      /\ current' = [generation |-> plan.generation, manifest |-> plan.manifest, retained |-> plan.retained]
      /\ live' = live \cup (Persistent \cap Enabled(plan.manifest))
  BY DEF DataInv, stateCommit, At
<1>2. /\ current'.generation \in Nat \ {0} /\ current'.manifest \in Manifests
      /\ current'.manifest = plan.manifest /\ current'.retained = plan.retained
  BY <1>1 DEF PlanKeepsData
<1>3. resolveBaseline(current').volumes = ExpectedVolumes(plan)
  <2>1. resolveBaseline(current').volumes = ExpectedVolumes(current')
    BY <1>2 DEF resolveBaseline, appliedBaseline
  <2> QED
    BY <1>2, <2>1, ExpectedVolumesOf
<1>4. LiveDataStaysExpected'
  BY <1>1, <1>3 DEF PlanKeepsData, LiveDataStaysExpected
<1> QED
  BY <1>1, <1>2, <1>4 DEF DataInv

\* A step between operations, or one that gives an operation up, changes no record.
LEMMA RecordsUntouched ==
  ASSUME DataInv, manifest' \in Manifests, UNCHANGED <<current, live>>,
         pos' = 0 \/ (UNCHANGED <<pos, plan, volumes>>)
  PROVE  DataInv'
<1>1. LiveDataStaysExpected'
  BY DEF DataInv, LiveDataStaysExpected
<1>2. pos' > 0 => PlanKeepsData'
  BY DEF DataInv, PlanKeepsData
<1> QED
  BY <1>1, <1>2 DEF DataInv

\* Every step of the reconciler keeps the invariant.
LEMMA StepKeepsData ==
  ASSUME DataInv, [Next]_vars
  PROVE  DataInv'
<1>1. CASE EditManifest
  BY <1>1, RecordsUntouched DEF EditManifest, host
<1>2. CASE ensureSecrets
  BY <1>2, RecordsUntouched DEF ensureSecrets, host, DataInv
<1>3. CASE \E s \in WithSecret : RotateSecret(s)
  BY <1>3, RecordsUntouched DEF RotateSecret, host, DataInv
<1>4. CASE \E repairDrift \in BOOLEAN : BeginApply(repairDrift)
  BY <1>4, BeginKeepsData
<1>5. CASE RoleStep
  BY <1>5, RolesKeepVolumes, WorkKeepsData, CommitKeepsData
<1>6. CASE FailOperation
  BY <1>6, RecordsUntouched DEF FailOperation, DataInv
<1>7. CASE HandChange
  <2>1. Tamper
    BY <1>7 DEF HandChange, RemoveContainer, StopContainer, SwapImage, DropVolume, DropNetwork,
                ChangeFile
  <2> QED
    BY <2>1, RecordsUntouched DEF Tamper, Idle, DataInv
<1>8. CASE UNCHANGED vars
  BY <1>8, RecordsUntouched DEF vars, host, DataInv
<1> QED
  BY <1>1, <1>2, <1>3, <1>4, <1>5, <1>6, <1>7, <1>8 DEF Next

\* The invariant holds always.
LEMMA DataInvHolds == Spec => []DataInv
<1>1. Init => DataInv
  BY ManifestAssumption DEF Init, DataInv, LiveDataStaysExpected
<1>2. DataInv /\ [Next]_vars => DataInv'
  BY StepKeepsData
<1> QED
  BY <1>1, <1>2, PTL DEF Spec

\* computeRetainedServices(), resolveBaseline(): however often a service is disabled
\* and enabled again, and however operations fail in between, a baseline expects
\* the data that any generation ever recorded.
THEOREM LiveDataStaysExpectedHolds == Spec => []LiveDataStaysExpected
<1>1. DataInv => LiveDataStaysExpected
  BY DEF DataInv
<1> QED
  BY <1>1, DataInvHolds, PTL

\* computeBlockers(), servicesNeedingMigration(): committed data that is gone is never
\* replaced by an empty volume, and no step runs the first migration on it.
THEOREM LiveDataNeverReinitialisedHolds == Spec => LiveDataNeverReinitialised
<1> DEFINE Kept == \A s \in live :
              /\ s \notin DOMAIN volumes => s \notin DOMAIN volumes'
              /\ At("database.migrate") /\ Resource = s /\ databaseMigrate => s \in Enabled(current.manifest)
<1>1. ASSUME DataInv, [Next]_vars PROVE [Kept]_vars
  <2>1. CASE pos > 0
    <3>1. PlanKeepsData
      BY <1>1, <2>1 DEF DataInv
    <3>2. plan.operations[pos] \in ToSet(plan.operations)
      BY <3>1 DEF PlanKeepsData, IsSeq, ToSet
    <3> QED
      BY <3>1, <3>2 DEF PlanKeepsData, At, Resource
  <2>2. CASE pos = 0
    <3>1. CASE UNCHANGED vars
      BY <3>1
    <3>2. CASE EditManifest \/ ensureSecrets \/ (\E s \in WithSecret : RotateSecret(s))
                 \/ (\E repairDrift \in BOOLEAN : BeginApply(repairDrift))
      <4>1. UNCHANGED volumes
        BY <3>2 DEF EditManifest, ensureSecrets, RotateSecret, BeginApply, host
      <4> QED
        BY <2>2, <4>1 DEF At
    <3>3. CASE HandChange
      <4>1. DOMAIN volumes' \subseteq DOMAIN volumes
        BY <3>3 DEF HandChange, RemoveContainer, StopContainer, SwapImage, DropVolume, DropNetwork,
                    ChangeFile, Without
      <4> QED
        BY <2>2, <4>1 DEF At
    <3>4. ~RoleStep /\ ~FailOperation
      BY <2>2, RolesKeepVolumes DEF FailOperation
    <3> QED
      BY <1>1, <3>1, <3>2, <3>3, <3>4 DEF Next
  <2> QED
    BY <1>1, <2>1, <2>2 DEF DataInv
<1>2. DataInv /\ [Next]_vars => [Kept]_vars
  BY <1>1
<1> QED
  BY <1>2, DataInvHolds, PTL DEF Spec, LiveDataNeverReinitialised


-----------------------------------------------------------------------------
(* Counting up, and what the planner's loop puts in order.                 *)

\* A nonempty set of positions has a first one.
LEMMA FirstPosition ==
  ASSUME NEW N \in Nat, NEW I \in SUBSET (1 .. N), I # {}
  PROVE  \E i \in I : \A j \in I : i <= j
<1>1. IsFiniteSet(I) /\ Cardinality(I) \in Nat
  BY RankIsInjective
<1>2. 1 \in 1 .. Cardinality(I)
  BY <1>1, FS_EmptySet
<1>3. PICK i \in I : Rank(I, i) = 1
  BY <1>2, RankIsOnto
<1> DEFINE B == {j \in I : j <= i}
<1>4. IsFiniteSet(B) /\ Cardinality(B) = 1
  BY <1>1, <1>3, FS_Subset DEF Rank
<1>5. i \in B
  OBVIOUS
<1> HIDE DEF B
<1>6. \A j \in B : j = i
  BY <1>4, <1>5, FS_Singleton
<1>7. \A j \in I : i <= j
  <2> TAKE j \in I
  <2>1. j \in 1 .. N /\ i \in 1 .. N
    OBVIOUS
  <2>2. j <= i => j \in B
    BY DEF B
  <2> QED
    BY <1>6, <2>1, <2>2
<1> QED
  BY <1>7

\* Counting up from 0 reaches every number.
LEMMA CountingUp ==
  ASSUME NEW N \in Nat, NEW G, 0 \in G, \A n \in 0 .. (N - 1) : n \in G => n + 1 \in G
  PROVE  \A n \in 0 .. N : n \in G
<1> DEFINE I == {n \in 1 .. N : n \notin G}
<1>1. SUFFICES ASSUME I # {} PROVE FALSE
  OBVIOUS
<1>2. I \in SUBSET (1 .. N)
  OBVIOUS
<1>3. PICK i \in I : \A j \in I : i <= j
  <2> HIDE DEF I
  <2> QED
    BY <1>1, <1>2, FirstPosition
<1>4. i - 1 \in 0 .. (N - 1) /\ (i - 1) + 1 = i
  OBVIOUS
<1>5. i - 1 \in G
  <2>1. i - 1 \notin I
    BY <1>3, <1>4
  <2> QED
    BY <1>4, <2>1
<1> QED
  BY <1>4, <1>5

\* topologicallySortByDependency()'s rounds.
Rounds(f, N, base) == f = [n \in 0 .. N |-> IF n = 0 THEN base ELSE SequenceNext(f[n - 1])]

\* Recursion on numbers up to N defines a function.
LEMMA RoundsExist ==
  ASSUME NEW N \in Nat, NEW base
  PROVE  \E f : Rounds(f, N, base)
<1> DEFINE Upto(n, f) == f = [i \in 0 .. n |-> IF i = 0 THEN base ELSE SequenceNext(f[i - 1])]
           G == {n \in 0 .. N : \E f : Upto(n, f)}
<1>1. 0 \in G
  <2> DEFINE g == [i \in 0 .. 0 |-> base]
  <2>1. \A i \in 0 .. 0 : g[i] = IF i = 0 THEN base ELSE SequenceNext(g[i - 1])
    OBVIOUS
  <2>2. g = [i \in 0 .. 0 |-> g[i]]
    OBVIOUS
  <2> HIDE DEF g
  <2>3. Upto(0, g)
    BY <2>1, <2>2
  <2> HIDE DEF Upto
  <2> QED
    BY <2>3
<1>2. ASSUME NEW n \in 0 .. (N - 1), n \in G PROVE n + 1 \in G
  <2>1. PICK f : Upto(n, f)
    BY <1>2
  <2> DEFINE g == [i \in 0 .. (n + 1) |-> IF i <= n THEN f[i] ELSE SequenceNext(f[n])]
  <2>2. \A i \in 0 .. (n + 1) : g[i] = IF i = 0 THEN base ELSE SequenceNext(g[i - 1])
    <3> TAKE i \in 0 .. (n + 1)
    <3>1. CASE i = 0
      BY <2>1, <3>1
    <3>2. CASE i \in 1 .. n
      <4>1. g[i] = f[i] /\ g[i - 1] = f[i - 1]
        BY <3>2
      <4> QED
        BY <2>1, <3>2, <4>1
    <3>3. CASE i = n + 1
      <4>1. g[i] = SequenceNext(f[n]) /\ g[i - 1] = f[n]
        BY <3>3
      <4> QED
        BY <3>3, <4>1
    <3> QED
      BY <3>1, <3>2, <3>3
  <2>3. g = [i \in 0 .. (n + 1) |-> g[i]]
    OBVIOUS
  <2> HIDE DEF g
  <2>4. Upto(n + 1, g)
    BY <2>2, <2>3
  <2> HIDE DEF Upto
  <2> QED
    BY <2>4
<1> HIDE DEF G
<1>3. N \in G
  BY <1>1, <1>2, CountingUp
<1>4. PICK f : Upto(N, f)
  BY <1>3 DEF G
<1> QED
  BY <1>4 DEF Rounds

\* A member of Seq(S) is a sequence, whatever S is.
LEMMA SeqIsSeq ==
  ASSUME NEW S, NEW s \in Seq(S)
  PROVE  IsSeq(s) /\ \A i \in DOMAIN s : s[i] \in S
<1>1. s = [i \in 1 .. Len(s) |-> s[i]] /\ Len(s) \in Nat
  OBVIOUS
<1>2. \A i \in 1 .. Len(s) : s[i] \in ToSet(s)
  BY DEF ToSet
<1>3. s \in Seq(ToSet(s))
  <2> DEFINE T == ToSet(s)
  <2>1. \A i \in 1 .. Len(s) : s[i] \in T
    BY <1>2
  <2> HIDE DEF T
  <2>2. s \in Seq(T)
    BY <1>1, <2>1
  <2> QED
    BY <2>2 DEF T
<1> QED
  BY <1>3 DEF IsSeq

\* SequencesExt's RemoveAt().
LEMMA RemoveAtKeepsTheRest ==
  ASSUME NEW S, NEW s \in Seq(S), NEW i \in DOMAIN s, NEW t, t = RemoveAt(s, i)
  PROVE  /\ t \in Seq(S) /\ Len(t) = Len(s) - 1
         /\ \A k \in 1 .. Len(t) : t[k] = IF k < i THEN s[k] ELSE s[k + 1]
<1> DEFINE l == SubSeq(s, 1, i - 1)
           r == SubSeq(s, i + 1, Len(s))
<1>1. i \in 1 .. Len(s) /\ Len(s) \in Nat
  OBVIOUS
<1>2. l \in Seq(S) /\ Len(l) = i - 1 /\ \A k \in 1 .. (i - 1) : l[k] = s[k]
  BY <1>1
<1>3. r \in Seq(S) /\ Len(r) = Len(s) - i /\ \A k \in 1 .. (Len(s) - i) : r[k] = s[i + k]
  BY <1>1
<1>4. t = l \o r
  BY DEF RemoveAt
<1> HIDE DEF l, r
<1>5. t \in Seq(S) /\ Len(t) = Len(s) - 1
  BY <1>1, <1>2, <1>3, <1>4
<1>6. ASSUME NEW k \in 1 .. Len(t) PROVE t[k] = IF k < i THEN s[k] ELSE s[k + 1]
  <2>1. CASE k < i
    <3>1. t[k] = l[k]
      BY <1>1, <1>2, <1>3, <1>4, <2>1
    <3> QED
      BY <1>1, <1>2, <2>1, <3>1
  <2>2. CASE ~(k < i)
    <3> DEFINE j == k - (i - 1)
    <3>1. j \in 1 .. Len(r) /\ k = Len(l) + j /\ i + j = k + 1
      BY <1>1, <1>2, <1>3, <1>5, <2>2
    <3> HIDE DEF j
    <3>2. t[Len(l) + j] = r[j]
      <4>1. l \in Seq(S) /\ r \in Seq(S)
        BY <1>2, <1>3
      <4> QED
        BY ONLY <1>4, <3>1, <4>1
    <3>3. r[j] = s[i + j]
      BY <1>3, <3>1
    <3> QED
      BY <2>2, <3>1, <3>2, <3>3
  <2> QED
    BY <2>1, <2>2
<1> QED
  BY <1>5, <1>6

\* Among entries still to be sequenced, one depends on none of the others.
LEMMA SomeEntryIsReady ==
  ASSUME NEW r, IsSeq(r), r # << >>, \A i \in DOMAIN r : r[i].unit \in Units
  PROVE  \E i \in DOMAIN r : DependsOn[ServiceOf[r[i].unit]] \cap ServicesOf(r) = {}
<1> DEFINE N == Len(ServiceOrder)
           K == {k \in 1 .. N : ServiceOrder[k] \in ServicesOf(r)}
<1>1. N \in Nat /\ DOMAIN ServiceOrder = 1 .. N
  BY CatalogAssumption
<1>2. DOMAIN r = 1 .. Len(r) /\ Len(r) \in Nat /\ 1 \in DOMAIN r
  BY DEF IsSeq
<1>3. ServicesOf(r) = {ServiceOf[r[i].unit] : i \in DOMAIN r}
  BY DEF ServicesOf, TouchedUnits
<1>4. \A i \in DOMAIN r : \E k \in K : ServiceOrder[k] = ServiceOf[r[i].unit]
  <2> TAKE i \in DOMAIN r
  <2>1. ServiceOf[r[i].unit] \in Services
    BY CatalogAssumption
  <2>2. PICK k \in DOMAIN ServiceOrder : ServiceOrder[k] = ServiceOf[r[i].unit]
    BY <2>1 DEF Services, ToSet
  <2> QED
    BY <1>1, <1>3, <2>2
<1>5. K # {} /\ K \in SUBSET (1 .. N)
  BY <1>2, <1>4
<1>6. PICK k \in K : \A j \in K : k <= j
  <2> HIDE DEF K, N
  <2> QED
    BY <1>1, <1>5, FirstPosition
<1>7. PICK i \in DOMAIN r : ServiceOf[r[i].unit] = ServiceOrder[k]
  BY <1>3, <1>6
<1>8. ASSUME NEW s \in DependsOn[ServiceOrder[k]] PROVE s \notin ServicesOf(r)
  <2>1. PICK j \in 1 .. (k - 1) : s = ServiceOrder[j]
    BY <1>1, <1>6, <1>8, DependenciesFirst
  <2>2. j \in 1 .. N /\ ~(k <= j)
    BY <1>1, <1>6, <2>1
  <2>3. j \notin K
    BY <1>6, <2>2
  <2> QED
    BY <2>1, <2>2, <2>3
<1> QED
  BY <1>7, <1>8

\* One round moves such an entry from the remaining ones to the sorted ones.
LEMMA RoundMovesAReadyEntry ==
  ASSUME NEW acc, IsSeq(acc.remaining), acc.remaining # << >>,
         \A i \in DOMAIN acc.remaining : acc.remaining[i].unit \in Units,
         NEW next, next = SequenceNext(acc)
  PROVE  \E i \in DOMAIN acc.remaining :
           /\ DependsOn[ServiceOf[acc.remaining[i].unit]] \cap ServicesOf(acc.remaining) = {}
           /\ next.sorted = Append(acc.sorted, acc.remaining[i])
           /\ next.remaining = RemoveAt(acc.remaining, i)
<1> DEFINE r == acc.remaining
           ready == {i \in DOMAIN r : DependsOn[ServiceOf[r[i].unit]] \cap ServicesOf(r) = {}}
           first == CHOOSE i \in ready : \A j \in ready : i <= j
<1>1. DOMAIN r = 1 .. Len(r) /\ Len(r) \in Nat
  BY DEF IsSeq
<1>2. ready # {}
  BY SomeEntryIsReady
<1>3. \E i \in ready : \A j \in ready : i <= j
  <2>1. ready \in SUBSET (1 .. Len(r))
    BY <1>1
  <2> HIDE DEF ready, r
  <2> QED
    BY <1>1, <1>2, <2>1, FirstPosition
<1>4. first \in ready
  BY <1>3
<1>5. next = [sorted |-> Append(acc.sorted, r[first]), remaining |-> RemoveAt(r, first)]
  BY DEF SequenceNext
<1> HIDE DEF first
<1>6. next.sorted = Append(acc.sorted, r[first]) /\ next.remaining = RemoveAt(r, first)
  BY <1>5
<1> QED
  BY <1>4, <1>6

\* What holds after n rounds over the entries e.
Sequenced(e, n, acc) ==
  /\ acc.sorted \in Seq(ToSet(e)) /\ Len(acc.sorted) = n
  /\ acc.remaining \in Seq(ToSet(e)) /\ Len(acc.remaining) = Len(e) - n
  /\ \A i \in DOMAIN e : \/ \E j \in DOMAIN acc.sorted : acc.sorted[j] = e[i]
                         \/ \E j \in DOMAIN acc.remaining : acc.remaining[j] = e[i]
  /\ \A i, j \in DOMAIN acc.remaining : i < j => acc.remaining[i].unit # acc.remaining[j].unit
  /\ \A i \in DOMAIN acc.sorted, j \in DOMAIN acc.remaining :
       /\ acc.sorted[i].unit # acc.remaining[j].unit
       /\ ServiceOf[acc.remaining[j].unit] \notin DependsOn[ServiceOf[acc.sorted[i].unit]]
  /\ \A i, j \in DOMAIN acc.sorted :
       i < j => /\ acc.sorted[i].unit # acc.sorted[j].unit
                /\ ServiceOf[acc.sorted[j].unit] \notin DependsOn[ServiceOf[acc.sorted[i].unit]]

\* A round keeps that.
LEMMA RoundSequencesOneMore ==
  ASSUME NEW e, IsSeq(e), \A i \in DOMAIN e : e[i].unit \in Units,
         NEW n \in 0 .. (Len(e) - 1), NEW acc, Sequenced(e, n, acc),
         NEW next, next = SequenceNext(acc)
  PROVE  Sequenced(e, n + 1, next)
<1> DEFINE S == ToSet(e)
           r == acc.remaining
           t == acc.sorted
           q == next.remaining
           u == next.sorted
<1>1. /\ t \in Seq(S) /\ Len(t) = n /\ r \in Seq(S) /\ Len(r) = Len(e) - n
      /\ \A i \in DOMAIN e : \/ \E j \in DOMAIN t : t[j] = e[i]
                             \/ \E j \in DOMAIN r : r[j] = e[i]
      /\ \A i, j \in DOMAIN r : i < j => r[i].unit # r[j].unit
      /\ \A i \in DOMAIN t, j \in DOMAIN r : /\ t[i].unit # r[j].unit
                                             /\ ServiceOf[r[j].unit] \notin DependsOn[ServiceOf[t[i].unit]]
      /\ \A i, j \in DOMAIN t :
           i < j => /\ t[i].unit # t[j].unit
                    /\ ServiceOf[t[j].unit] \notin DependsOn[ServiceOf[t[i].unit]]
  BY DEF Sequenced
<1>2. /\ Len(e) \in Nat /\ n \in Nat /\ n < Len(e) /\ \A x \in S : x.unit \in Units
      /\ \A i \in DOMAIN e : e[i] \in S
  BY DEF IsSeq, ToSet
<1> HIDE DEF S
<1>3. /\ IsSeq(r) /\ r # << >> /\ \A i \in DOMAIN r : r[i].unit \in Units
  <2>1. DOMAIN r = 1 .. Len(r) /\ Len(r) \in Nat \ {0}
    BY <1>1, <1>2
  <2>2. IsSeq(r)
    BY <1>1, SeqIsSeq
  <2> QED
    BY <1>1, <1>2, <2>1, <2>2
<1>4. PICK k \in DOMAIN r : /\ DependsOn[ServiceOf[r[k].unit]] \cap ServicesOf(r) = {}
                            /\ u = Append(t, r[k]) /\ q = RemoveAt(r, k)
  BY <1>3, RoundMovesAReadyEntry
<1>5. /\ q \in Seq(S) /\ Len(q) = Len(r) - 1
      /\ \A i \in 1 .. Len(q) : q[i] = IF i < k THEN r[i] ELSE r[i + 1]
  <2> HIDE DEF r, q
  <2>1. r \in Seq(S) /\ k \in DOMAIN r /\ q = RemoveAt(r, k)
    BY <1>1, <1>4
  <2> QED
    BY ONLY <2>1, RemoveAtKeepsTheRest
<1>6. /\ u \in Seq(S) /\ Len(u) = n + 1
      /\ \A i \in 1 .. n : u[i] = t[i]
      /\ u[n + 1] = r[k]
  BY <1>1, <1>4
<1> HIDE DEF r, t, q, u
<1>7. /\ DOMAIN r = 1 .. Len(r) /\ DOMAIN t = 1 .. n /\ DOMAIN q = 1 .. Len(q) /\ DOMAIN u = 1 .. (n + 1)
      /\ Len(r) \in Nat /\ Len(q) = Len(e) - (n + 1) /\ k \in 1 .. Len(r)
  BY <1>1, <1>2, <1>4, <1>5, <1>6
<1>8. ASSUME NEW j \in DOMAIN q
      PROVE  /\ (IF j < k THEN j ELSE j + 1) \in DOMAIN r \ {k}
             /\ q[j] = r[IF j < k THEN j ELSE j + 1]
  BY <1>5, <1>7
<1>9. \A i, j \in DOMAIN r : i # j => r[i].unit # r[j].unit
  BY <1>1, <1>7
<1>10. \A i \in DOMAIN e : \/ \E j \in DOMAIN u : u[j] = e[i]
                           \/ \E j \in DOMAIN q : q[j] = e[i]
  <2> TAKE i \in DOMAIN e
  <2>1. CASE \E j \in DOMAIN t : t[j] = e[i]
    BY <1>6, <1>7, <1>2, <2>1
  <2>2. ASSUME NEW j \in DOMAIN r, r[j] = e[i]
        PROVE  (\E l \in DOMAIN u : u[l] = e[i]) \/ (\E l \in DOMAIN q : q[l] = e[i])
    <3>1. CASE j = k
      BY <1>2, <1>6, <1>7, <2>2, <3>1
    <3>2. CASE j < k
      <4>1. j \in DOMAIN q /\ q[j] = r[j]
        BY <1>5, <1>7, <3>2
      <4> QED
        BY <2>2, <4>1
    <3>3. CASE j > k
      <4> DEFINE l == j - 1
      <4>1. l \in DOMAIN q /\ ~(l < k) /\ l + 1 = j
        BY <1>5, <1>7, <3>3
      <4> HIDE DEF l
      <4>2. q[l] = r[j]
        BY <1>5, <1>7, <4>1
      <4> QED
        BY <2>2, <4>1, <4>2
    <3> QED
      BY <1>7, <3>1, <3>2, <3>3
  <2> QED
    BY <1>1, <2>1, <2>2
<1>11. \A i, j \in DOMAIN q : i < j => q[i].unit # q[j].unit
  <2> TAKE i, j \in DOMAIN q
  <2> HAVE i < j
  <2> DEFINE v == IF i < k THEN i ELSE i + 1
             w == IF j < k THEN j ELSE j + 1
  <2>1. v # w
    BY <1>7
  <2>2. v \in DOMAIN r /\ w \in DOMAIN r /\ q[i] = r[v] /\ q[j] = r[w]
    BY <1>8
  <2> HIDE DEF v, w
  <2> QED
    BY <1>9, <2>1, <2>2
<1>12. ASSUME NEW j \in DOMAIN q
       PROVE  /\ r[k].unit # q[j].unit
              /\ ServiceOf[q[j].unit] \notin DependsOn[ServiceOf[r[k].unit]]
  <2> DEFINE w == IF j < k THEN j ELSE j + 1
  <2>1. w \in DOMAIN r \ {k} /\ q[j] = r[w]
    BY <1>8
  <2> HIDE DEF w
  <2>2. ServiceOf[r[w].unit] \in ServicesOf(r)
    BY <2>1 DEF ServicesOf, TouchedUnits
  <2> QED
    BY <1>4, <1>9, <2>1, <2>2
<1>13. ASSUME NEW i \in DOMAIN t, NEW j \in DOMAIN q
       PROVE  /\ t[i].unit # q[j].unit
              /\ ServiceOf[q[j].unit] \notin DependsOn[ServiceOf[t[i].unit]]
  <2> DEFINE w == IF j < k THEN j ELSE j + 1
  <2>1. w \in DOMAIN r /\ q[j] = r[w]
    BY <1>8
  <2> HIDE DEF w
  <2> QED
    BY <1>1, <2>1 DEF r, t
<1>14. \A i \in DOMAIN u, j \in DOMAIN q : /\ u[i].unit # q[j].unit
                                           /\ ServiceOf[q[j].unit] \notin DependsOn[ServiceOf[u[i].unit]]
  <2> TAKE i \in DOMAIN u, j \in DOMAIN q
  <2>1. CASE i = n + 1
    BY <1>6, <1>12, <2>1
  <2>2. CASE i \in 1 .. n
    BY <1>6, <1>7, <1>13, <2>2
  <2> QED
    BY <1>2, <1>7, <2>1, <2>2
<1>15. \A i, j \in DOMAIN u : i < j => /\ u[i].unit # u[j].unit
                                       /\ ServiceOf[u[j].unit] \notin DependsOn[ServiceOf[u[i].unit]]
  <2> TAKE i, j \in DOMAIN u
  <2> HAVE i < j
  <2>0. i \in DOMAIN t /\ u[i] = t[i]
    BY <1>2, <1>6, <1>7
  <2>1. CASE j = n + 1
    <3>1. /\ t[i].unit # r[k].unit
          /\ ServiceOf[r[k].unit] \notin DependsOn[ServiceOf[t[i].unit]]
      BY <1>1, <1>4, <2>0 DEF r, t
    <3> QED
      BY <1>6, <2>0, <2>1, <3>1
  <2>2. CASE j \in 1 .. n
    <3>1. j \in DOMAIN t /\ u[j] = t[j]
      BY <1>6, <1>7, <2>2
    <3> QED
      BY <1>1, <2>0, <3>1 DEF t
  <2> QED
    BY <1>2, <1>7, <2>1, <2>2
<1> QED
  BY <1>5, <1>6, <1>7, <1>10, <1>11, <1>14, <1>15 DEF Sequenced, S, u, q

\* topologicallySortByDependency() puts all entries in an order in which no entry comes before
\* one it depends on; the loop always finds an entry that is ready.
LEMMA SortedByDependency ==
  ASSUME NEW e, IsSeq(e), \A i \in DOMAIN e : e[i].unit \in Units,
         \A i, j \in DOMAIN e : i < j => e[i].unit # e[j].unit,
         NEW sorted, sorted = topologicallySortByDependency(e)
  PROVE  /\ IsSeq(sorted) /\ Len(sorted) = Len(e) /\ ToSet(sorted) = ToSet(e)
         /\ \A i, j \in DOMAIN sorted :
              i < j => /\ sorted[i].unit # sorted[j].unit
                       /\ ServiceOf[sorted[j].unit] \notin DependsOn[ServiceOf[sorted[i].unit]]
<1> DEFINE N == Len(e)
           base == [sorted |-> << >>, remaining |-> e]
           round == CHOOSE f : f = [n \in 0 .. N |-> IF n = 0 THEN base ELSE SequenceNext(f[n - 1])]
<1>1. N \in Nat /\ DOMAIN e = 1 .. N
  BY DEF IsSeq
<1>2. sorted = [i \in DOMAIN e |-> round[N].sorted[i]]
  BY DEF topologicallySortByDependency
<1>3. round = [n \in 0 .. N |-> IF n = 0 THEN base ELSE SequenceNext(round[n - 1])]
  <2> HIDE DEF base, N
  <2>1. \E f : Rounds(f, N, base)
    BY <1>1, RoundsExist
  <2>2. \E f : f = [n \in 0 .. N |-> IF n = 0 THEN base ELSE SequenceNext(f[n - 1])]
    BY ONLY <2>1 DEF Rounds
  <2> QED
    BY <2>2
<1> HIDE DEF round
<1>4. round[0] = base /\ \A n \in 0 .. (N - 1) : round[n + 1] = SequenceNext(round[n])
  <2> HIDE DEF base, N
  <2>1. \A n \in 0 .. N : round[n] = IF n = 0 THEN base ELSE SequenceNext(round[n - 1])
    BY <1>3
  <2>2. ASSUME NEW n \in 0 .. (N - 1) PROVE round[n + 1] = SequenceNext(round[n])
    <3>1. n + 1 \in 0 .. N /\ n + 1 # 0 /\ (n + 1) - 1 = n
      BY <1>1
    <3> QED
      BY <2>1, <3>1
  <2> QED
    BY <1>1, <2>1, <2>2
<1> DEFINE G == {n \in 0 .. N : Sequenced(e, n, round[n])}
<1>5. 0 \in G
  <2>1. base.sorted = << >> /\ base.remaining = e
    OBVIOUS
  <2> HIDE DEF base
  <2>2. e \in Seq(ToSet(e))
    BY DEF IsSeq
  <2>3. Sequenced(e, 0, base)
    BY <1>1, <2>1, <2>2 DEF Sequenced
  <2> QED
    BY <1>1, <1>4, <2>3
<1>6. ASSUME NEW n \in 0 .. (N - 1), n \in G PROVE n + 1 \in G
  <2>1. PICK acc : acc = round[n]
    OBVIOUS
  <2>2. PICK next : next = round[n + 1]
    OBVIOUS
  <2>3. Sequenced(e, n, acc) /\ next = SequenceNext(acc)
    BY <1>4, <1>6, <2>1, <2>2
  <2>4. Sequenced(e, n + 1, next)
    BY <2>3, RoundSequencesOneMore
  <2> QED
    BY <1>1, <2>2, <2>4
<1>7. N \in G
  <2> HIDE DEF G, N
  <2>1. N \in Nat /\ 0 \in G /\ \A n \in 0 .. (N - 1) : n \in G => n + 1 \in G
    BY <1>1, <1>5, <1>6
  <2>2. \A n \in 0 .. N : n \in G
    BY ONLY <2>1, CountingUp
  <2> QED
    BY <1>1, <2>2
<1>8. PICK acc : acc = round[N] /\ Sequenced(e, N, acc)
  BY <1>7
<1>9. /\ acc.sorted \in Seq(ToSet(e)) /\ Len(acc.sorted) = N
      /\ \A i \in DOMAIN e : \E j \in DOMAIN acc.sorted : acc.sorted[j] = e[i]
      /\ \A i, j \in DOMAIN acc.sorted :
           i < j => /\ acc.sorted[i].unit # acc.sorted[j].unit
                    /\ ServiceOf[acc.sorted[j].unit] \notin DependsOn[ServiceOf[acc.sorted[i].unit]]
  <2>1. DOMAIN acc.remaining = {}
    BY <1>1, <1>8 DEF Sequenced
  <2> QED
    BY <1>8, <2>1 DEF Sequenced
<1>10. sorted = acc.sorted
  <2>1. DOMAIN acc.sorted = 1 .. N
    BY <1>1, <1>9
  <2>2. acc.sorted = [i \in 1 .. N |-> acc.sorted[i]]
    BY <1>9, <2>1
  <2> QED
    BY <1>1, <1>2, <1>8, <2>2
<1>11. IsSeq(sorted) /\ \A i \in DOMAIN sorted : sorted[i] \in ToSet(e)
  BY <1>9, <1>10, SeqIsSeq
<1>12. ToSet(sorted) = ToSet(e)
  <2>1. \A i \in DOMAIN e : \E j \in DOMAIN sorted : sorted[j] = e[i]
    BY <1>9, <1>10
  <2>2. ToSet(sorted) = {sorted[i] : i \in DOMAIN sorted} /\ ToSet(e) = {e[i] : i \in DOMAIN e}
    BY DEF ToSet
  <2> QED
    BY ONLY <1>11, <2>1, <2>2
<1> QED
  BY <1>9, <1>10, <1>11, <1>12

-----------------------------------------------------------------------------
(* The order of the operations, and what they ask for.                     *)

\* The order buildOperations() gives to the actions.
Phase(action) ==
  CASE action = "host.prepare" -> 1
    [] action = "secret.ensure" -> 2
    [] action = "volume.ensure" -> 3
    [] action = "network.ensure" -> 4
    [] action \in {"image.verify", "image.pull"} -> 5
    [] action = "service.stop" -> 6
    [] action = "config.write" -> 7
    [] action = "service.remove" -> 8
    [] action = "database.migrate" -> 9
    [] action \in {"service.start", "readiness.wait"} -> 10
    [] OTHER -> 11

\* The phases by name.
LEMMA Phases ==
  /\ Phase("host.prepare") = 1 /\ Phase("secret.ensure") = 2 /\ Phase("volume.ensure") = 3
  /\ Phase("network.ensure") = 4 /\ Phase("image.verify") = 5 /\ Phase("image.pull") = 5
  /\ Phase("service.stop") = 6 /\ Phase("config.write") = 7 /\ Phase("service.remove") = 8
  /\ Phase("database.migrate") = 9 /\ Phase("service.start") = 10 /\ Phase("readiness.wait") = 10
  /\ Phase("state.commit") = 11
BY DEF Phase

\* A part of a plan from one phase to another, in the order of the phases.
Ordered(s, low, high) ==
  /\ IsSeq(s)
  /\ \A i \in DOMAIN s : Phase(s[i].action) \in low .. high
  /\ \A i, j \in DOMAIN s : i <= j => Phase(s[i].action) <= Phase(s[j].action)

\* Concatenation, position by position.
LEMMA ConcatPositions ==
  ASSUME NEW s, NEW t, IsSeq(s), IsSeq(t), NEW w, w = s \o t
  PROVE  /\ IsSeq(w) /\ DOMAIN w = 1 .. (Len(s) + Len(t))
         /\ DOMAIN s = 1 .. Len(s) /\ DOMAIN t = 1 .. Len(t) /\ Len(s) \in Nat /\ Len(t) \in Nat
         /\ ToSet(w) = ToSet(s) \cup ToSet(t)
         /\ \A i \in DOMAIN w : /\ i <= Len(s) => i \in DOMAIN s /\ w[i] = s[i]
                                /\ ~(i <= Len(s)) => i - Len(s) \in DOMAIN t /\ w[i] = t[i - Len(s)]
<1> DEFINE S == ToSet(s) \cup ToSet(t)
<1>1. s \in Seq(S) /\ t \in Seq(S)
  BY DEF IsSeq
<1> HIDE DEF S
<1>2. /\ w \in Seq(S) /\ Len(w) = Len(s) + Len(t)
      /\ \A i \in 1 .. Len(w) : /\ i <= Len(s) => i \in 1 .. Len(s) /\ w[i] = s[i]
                                /\ ~(i <= Len(s)) => i - Len(s) \in 1 .. Len(t) /\ w[i] = t[i - Len(s)]
  BY <1>1
<1>3. DOMAIN s = 1 .. Len(s) /\ DOMAIN t = 1 .. Len(t) /\ DOMAIN w = 1 .. Len(w)
      /\ Len(s) \in Nat /\ Len(t) \in Nat
  BY <1>1, <1>2
<1>4. IsSeq(w) /\ ToSet(w) = ToSet(s) \cup ToSet(t)
  BY ConcatIsSeq
<1> QED
  BY <1>2, <1>3, <1>4

\* The elements of w are those of s and of t.
AddsUp(w, s, t) == ToSet(w) = ToSet(s) \cup ToSet(t)

\* w is s followed by t.
Joins(w, s, t) == w = s \o t

\* Parts whose phases follow each other.
LEMMA ConcatOrdered ==
  ASSUME NEW low \in Int, NEW mid \in Int, NEW next \in Int, NEW high \in Int,
         low <= mid, mid <= next, next <= high,
         NEW s, NEW t, Ordered(s, low, mid), Ordered(t, next, high), NEW w, w = s \o t
  PROVE  Ordered(w, low, high) /\ AddsUp(w, s, t)
<1>1. /\ IsSeq(s) /\ IsSeq(t)
      /\ \A i \in DOMAIN s : Phase(s[i].action) \in low .. mid
      /\ \A i \in DOMAIN t : Phase(t[i].action) \in next .. high
      /\ \A i, j \in DOMAIN s : i <= j => Phase(s[i].action) <= Phase(s[j].action)
      /\ \A i, j \in DOMAIN t : i <= j => Phase(t[i].action) <= Phase(t[j].action)
  BY DEF Ordered
<1>2. /\ IsSeq(w) /\ DOMAIN w = 1 .. (Len(s) + Len(t))
      /\ DOMAIN s = 1 .. Len(s) /\ DOMAIN t = 1 .. Len(t) /\ Len(s) \in Nat /\ Len(t) \in Nat
      /\ ToSet(w) = ToSet(s) \cup ToSet(t)
      /\ \A i \in DOMAIN w : /\ i <= Len(s) => i \in DOMAIN s /\ w[i] = s[i]
                             /\ ~(i <= Len(s)) => i - Len(s) \in DOMAIN t /\ w[i] = t[i - Len(s)]
  <2>1. IsSeq(s) /\ IsSeq(t) /\ w = s \o t
    BY <1>1
  <2>2. IsSeq(w) /\ ToSet(w) = ToSet(s) \cup ToSet(t) /\ DOMAIN w = 1 .. (Len(s) + Len(t))
    BY ONLY <2>1, ConcatPositions
  <2>3. DOMAIN s = 1 .. Len(s) /\ DOMAIN t = 1 .. Len(t) /\ Len(s) \in Nat /\ Len(t) \in Nat
    BY ONLY <2>1, ConcatPositions
  <2>4. \A i \in DOMAIN w : /\ i <= Len(s) => i \in DOMAIN s /\ w[i] = s[i]
                            /\ ~(i <= Len(s)) => i - Len(s) \in DOMAIN t /\ w[i] = t[i - Len(s)]
    BY ONLY <2>1, ConcatPositions
  <2> QED
    BY <2>2, <2>3, <2>4
<1>3. ASSUME NEW i \in DOMAIN w
      PROVE  /\ i <= Len(s) => Phase(w[i].action) \in low .. mid
             /\ ~(i <= Len(s)) => Phase(w[i].action) \in next .. high
  BY <1>1, <1>2
<1>4. \A i \in DOMAIN w : Phase(w[i].action) \in low .. high
  BY <1>3
<1>5. ASSUME NEW i \in DOMAIN w, NEW j \in DOMAIN w, i <= j
      PROVE  Phase(w[i].action) <= Phase(w[j].action)
  <2>0. i \in Int /\ j \in Int /\ Len(s) \in Int
    BY <1>2
  <2>1. CASE j <= Len(s)
    <3>1. i \in DOMAIN s /\ j \in DOMAIN s /\ w[i] = s[i] /\ w[j] = s[j]
      BY <1>2, <1>5, <2>0, <2>1
    <3> QED
      BY <1>1, <1>5, <3>1
  <2>2. CASE ~(i <= Len(s))
    <3> DEFINE k == i - Len(s)
               l == j - Len(s)
    <3>1. k \in DOMAIN t /\ l \in DOMAIN t /\ w[i] = t[k] /\ w[j] = t[l] /\ k <= l
      BY <1>2, <1>5, <2>0, <2>2
    <3> HIDE DEF k, l
    <3> QED
      BY <1>1, <3>1
  <2>3. CASE i <= Len(s) /\ ~(j <= Len(s))
    <3>1. Phase(w[i].action) \in low .. mid /\ Phase(w[j].action) \in next .. high
      BY <1>3, <2>3
    <3> QED
      BY <3>1
  <2> QED
    BY <1>5, <2>0, <2>1, <2>2, <2>3
<1> QED
  BY <1>2, <1>4, <1>5 DEF Ordered, AddsUp

\* A part made of operations of one phase.
LEMMA OnePhaseOrdered ==
  ASSUME NEW k \in Int, NEW s, IsSeq(s), \A o \in ToSet(s) : Phase(o.action) = k
  PROVE  Ordered(s, k, k)
<1>1. \A i \in DOMAIN s : s[i] \in ToSet(s)
  BY DEF ToSet
<1> QED
  BY <1>1 DEF Ordered

\* One operation or none.
LEMMA WhenAsks ==
  ASSUME NEW condition, NEW action, NEW resource, NEW k \in Int, Phase(action) = k,
         NEW s, s = When(condition, action, resource)
  PROVE  Ordered(s, k, k) /\ ToSet(s) = {o \in {Operation(action, resource)} : condition}
<1> DEFINE op == Operation(action, resource)
<1>0. op.action = action
  BY DEF Operation
<1>1. CASE condition
  <2>1. s = <<op>>
    BY <1>1 DEF When
  <2> HIDE DEF op
  <2>2. IsSeq(s) /\ ToSet(s) = {op}
    BY <2>1 DEF IsSeq, ToSet
  <2>3. \A o \in ToSet(s) : Phase(o.action) = k
    BY <1>0, <2>2
  <2> QED
    BY <1>1, <2>2, <2>3, OnePhaseOrdered DEF op
<1>2. CASE ~condition
  <2>1. s = << >>
    BY <1>2 DEF When
  <2>2. IsSeq(s) /\ ToSet(s) = {}
    BY <2>1 DEF IsSeq, ToSet
  <2> QED
    BY <1>2, <2>2, OnePhaseOrdered
<1> QED
  BY <1>1, <1>2

\* One operation for each of the resources, if the order names them all.
LEMMA ResourcesAsk ==
  ASSUME NEW action, NEW k \in Int, Phase(action) = k, NEW order, IsSeq(order),
         NEW resources, resources \subseteq ToSet(order),
         NEW s, s = ForResources(action, order, resources)
  PROVE  Ordered(s, k, k) /\ ToSet(s) = {Operation(action, r) : r \in resources}
<1> DEFINE I == {i \in DOMAIN order : order[i] \in resources}
           chosen == Pick(order, I)
<1>1. IsSeq(chosen) /\ ToSet(chosen) = {order[i] : i \in I}
  BY PickIsSeq
<1>2. ToSet(chosen) = resources
  BY <1>1 DEF ToSet
<1>3. s = [i \in DOMAIN chosen |-> Operation(action, chosen[i])]
  BY DEF ForResources
<1> HIDE DEF chosen
<1>4. DOMAIN chosen = 1 .. Len(chosen) /\ Len(chosen) \in Nat
  BY <1>1 DEF IsSeq
<1>5. ToSet(s) = {Operation(action, r) : r \in ToSet(chosen)}
  BY <1>3 DEF ToSet
<1>6. IsSeq(s)
  <2> DEFINE T == ToSet(s)
  <2>1. \A i \in 1 .. Len(chosen) : Operation(action, chosen[i]) \in T
    BY <1>3, <1>4 DEF ToSet
  <2> HIDE DEF T
  <2>2. s \in Seq(T)
    BY <1>3, <1>4, <2>1
  <2> QED
    BY <2>2 DEF IsSeq, T
<1>7. \A o \in ToSet(s) : Phase(o.action) = k
  BY <1>5 DEF Operation
<1> QED
  BY <1>2, <1>5, <1>6, <1>7, OnePhaseOrdered

\* One operation for each entry.
LEMMA UnitsAsk ==
  ASSUME NEW action, NEW k \in Int, Phase(action) = k, NEW entries, IsSeq(entries),
         NEW s, s = ForUnits(action, entries)
  PROVE  Ordered(s, k, k) /\ ToSet(s) = {Operation(action, u) : u \in TouchedUnits(entries)}
<1>1. DOMAIN entries = 1 .. Len(entries) /\ Len(entries) \in Nat
  BY DEF IsSeq
<1>2. s = [i \in DOMAIN entries |-> Operation(action, entries[i].unit)]
  BY DEF ForUnits
<1>3. ToSet(s) = {Operation(action, u) : u \in TouchedUnits(entries)}
  BY <1>2 DEF ToSet, TouchedUnits
<1>4. IsSeq(s)
  <2> DEFINE T == ToSet(s)
  <2>1. \A i \in 1 .. Len(entries) : Operation(action, entries[i].unit) \in T
    BY <1>1, <1>2 DEF ToSet
  <2> HIDE DEF T
  <2>2. s \in Seq(T)
    BY <1>1, <1>2, <2>1
  <2> QED
    BY <2>2 DEF IsSeq, T
<1>5. \A o \in ToSet(s) : Phase(o.action) = k
  BY <1>3 DEF Operation
<1> QED
  BY <1>3, <1>4, <1>5, OnePhaseOrdered

\* Two operations for each entry, the second right after the first.
LEMMA PairsAsk ==
  ASSUME NEW first, NEW second, NEW k \in Int, Phase(first) = k, Phase(second) = k,
         NEW entries, IsSeq(entries), NEW s, s = PairsFor(first, second, entries)
  PROVE  /\ Ordered(s, k, k) /\ DOMAIN s = 1 .. (2 * Len(entries)) /\ Len(entries) \in Nat
         /\ ToSet(s) = {Operation(a, u) : a \in {first, second}, u \in TouchedUnits(entries)}
         /\ \A i \in DOMAIN s : /\ (i + 1) \div 2 \in DOMAIN entries
                                /\ s[i].resource = entries[(i + 1) \div 2].unit
                                /\ s[i].action = IF i % 2 = 1 THEN first ELSE second
<1> DEFINE op(i) == Operation(IF i % 2 = 1 THEN first ELSE second, entries[(i + 1) \div 2].unit)
           n == 2 * Len(entries)
<1>1. DOMAIN entries = 1 .. Len(entries) /\ Len(entries) \in Nat /\ n \in Nat
  BY DEF IsSeq
<1>2. s = [i \in 1 .. n |-> op(i)]
  BY DEF PairsFor
<1>3. \A i \in 1 .. n : (i + 1) \div 2 \in DOMAIN entries
  BY <1>1
<1>4. \A i \in 1 .. n : /\ s[i].resource = entries[(i + 1) \div 2].unit
                        /\ s[i].action = IF i % 2 = 1 THEN first ELSE second
  BY <1>2 DEF Operation
<1>5. IsSeq(s) /\ DOMAIN s = 1 .. n
  <2> HIDE DEF op, n
  <2> DEFINE T == ToSet(s)
  <2>1. \A i \in 1 .. n : op(i) \in T
    BY <1>2 DEF ToSet
  <2> HIDE DEF T
  <2>2. s \in Seq(T)
    BY <1>1, <1>2, <2>1
  <2> QED
    BY <1>2, <2>2 DEF IsSeq, T
<1>6. \A i \in 1 .. n : s[i] = Operation(s[i].action, s[i].resource)
  BY <1>2 DEF Operation
<1>7. \A o \in ToSet(s) : \E a \in {first, second}, u \in TouchedUnits(entries) : o = Operation(a, u)
  <2> TAKE o \in ToSet(s)
  <2>1. PICK i \in 1 .. n : o = s[i]
    BY <1>5 DEF ToSet
  <2>2. s[i].action \in {first, second} /\ s[i].resource \in TouchedUnits(entries)
    BY <1>3, <1>4, <2>1 DEF TouchedUnits
  <2> QED
    BY <1>6, <2>1, <2>2
<1>8. ASSUME NEW u \in TouchedUnits(entries)
      PROVE  Operation(first, u) \in ToSet(s) /\ Operation(second, u) \in ToSet(s)
  <2>1. PICK j \in DOMAIN entries : entries[j].unit = u
    BY <1>8 DEF TouchedUnits
  <2>2. /\ 2 * j - 1 \in 1 .. n /\ ((2 * j - 1) + 1) \div 2 = j /\ (2 * j - 1) % 2 = 1
        /\ 2 * j \in 1 .. n /\ (2 * j + 1) \div 2 = j /\ (2 * j) % 2 # 1
    <3>1. j \in 1 .. Len(entries)
      BY <1>1, <2>1
    <3>2. j \in Int /\ 1 <= j /\ j <= Len(entries) /\ Len(entries) \in Int
      BY <1>1, <3>1
    <3>3. 2 * j - 1 \in 1 .. n /\ 2 * j \in 1 .. n
      BY <3>2
    <3>4. ((2 * j - 1) + 1) \div 2 = j /\ (2 * j + 1) \div 2 = j
      BY <3>2
    <3>5. (2 * j - 1) % 2 = 1 /\ (2 * j) % 2 # 1
      BY <3>2
    <3> QED
      BY <3>3, <3>4, <3>5
  <2>3. s[2 * j - 1] = Operation(first, u) /\ s[2 * j] = Operation(second, u)
    BY <1>4, <1>6, <2>1, <2>2
  <2> QED
    BY <1>5, <2>2, <2>3 DEF ToSet
<1>9. ToSet(s) = {Operation(a, u) : a \in {first, second}, u \in TouchedUnits(entries)}
  BY <1>7, <1>8
<1>10. \A o \in ToSet(s) : Phase(o.action) = k
  BY <1>7 DEF Operation
<1>11. Ordered(s, k, k)
  BY <1>5, <1>10, OnePhaseOrdered
<1> QED
  BY <1>1, <1>3, <1>4, <1>5, <1>9, <1>11

\* A unit is started once, and awaited after it and what it depends on were started.
StartsInOrder(operations) ==
  \A i, j \in DOMAIN operations :
    /\ i < j /\ operations[j].action = "service.start"
    /\ operations[i].action \in {"service.start", "readiness.wait"}
    => /\ operations[i].resource # operations[j].resource
       /\ operations[i].action = "readiness.wait" =>
            ServiceOf[operations[j].resource] \notin DependsOn[ServiceOf[operations[i].resource]]

\* Parts of which only the second or only the first starts anything.
LEMMA ConcatStartsInOrder ==
  ASSUME NEW s, NEW t, IsSeq(s), IsSeq(t), StartsInOrder(s), StartsInOrder(t), NEW w, w = s \o t,
         \/ \A o \in ToSet(s) : o.action \notin {"service.start", "readiness.wait"}
         \/ \A o \in ToSet(t) : o.action \notin {"service.start", "readiness.wait"}
  PROVE  StartsInOrder(w)
<1>1. /\ DOMAIN w = 1 .. (Len(s) + Len(t))
      /\ DOMAIN s = 1 .. Len(s) /\ DOMAIN t = 1 .. Len(t) /\ Len(s) \in Nat /\ Len(t) \in Nat
  BY ConcatPositions
<1>2. \A i \in DOMAIN w : /\ i <= Len(s) => i \in DOMAIN s /\ w[i] = s[i]
                          /\ ~(i <= Len(s)) => i - Len(s) \in DOMAIN t /\ w[i] = t[i - Len(s)]
  BY ConcatPositions
<1>3. SUFFICES ASSUME NEW i \in DOMAIN w, NEW j \in DOMAIN w, i < j, w[j].action = "service.start",
                      w[i].action \in {"service.start", "readiness.wait"}
               PROVE  /\ w[i].resource # w[j].resource
                      /\ w[i].action = "readiness.wait" =>
                           ServiceOf[w[j].resource] \notin DependsOn[ServiceOf[w[i].resource]]
  BY DEF StartsInOrder
<1>4. i \in Int /\ j \in Int /\ Len(s) \in Int
  BY <1>1
<1>5. CASE j <= Len(s)
  <2>1. i \in DOMAIN s /\ j \in DOMAIN s /\ w[i] = s[i] /\ w[j] = s[j]
    BY <1>2, <1>3, <1>4, <1>5
  <2> QED
    BY <1>3, <2>1 DEF StartsInOrder
<1>6. CASE ~(i <= Len(s))
  <2> DEFINE k == i - Len(s)
             l == j - Len(s)
  <2>1. k \in DOMAIN t /\ l \in DOMAIN t /\ w[i] = t[k] /\ w[j] = t[l] /\ k < l
    BY <1>2, <1>3, <1>4, <1>6
  <2> HIDE DEF k, l
  <2> QED
    BY <1>3, <2>1 DEF StartsInOrder
<1>7. CASE i <= Len(s) /\ ~(j <= Len(s))
  <2>1. PICK k \in DOMAIN t : w[j] = t[k]
    BY <1>2, <1>7
  <2>2. i \in DOMAIN s /\ w[i] = s[i]
    BY <1>2, <1>7
  <2>3. w[i] \in ToSet(s) /\ w[j] \in ToSet(t)
    BY <2>1, <2>2 DEF ToSet
  <2> QED
    BY <1>3, <2>3
<1> QED
  BY <1>3, <1>4, <1>5, <1>6, <1>7

\* StartAndWait() of entries in which no entry comes before one it depends on.
LEMMA PairsStartInOrder ==
  ASSUME NEW entries, IsSeq(entries),
         \A i, j \in DOMAIN entries :
           i < j => /\ entries[i].unit # entries[j].unit
                    /\ ServiceOf[entries[j].unit] \notin DependsOn[ServiceOf[entries[i].unit]],
         NEW s, s = PairsFor("service.start", "readiness.wait", entries)
  PROVE  StartsInOrder(s)
<1>1. /\ DOMAIN s = 1 .. (2 * Len(entries)) /\ Len(entries) \in Nat
      /\ \A i \in DOMAIN s : /\ (i + 1) \div 2 \in DOMAIN entries
                             /\ s[i].resource = entries[(i + 1) \div 2].unit
                             /\ s[i].action = IF i % 2 = 1 THEN "service.start" ELSE "readiness.wait"
  <2>1. 10 \in Int /\ Phase("service.start") = 10 /\ Phase("readiness.wait") = 10
    BY Phases
  <2> QED
    BY <2>1, PairsAsk
<1>2. SUFFICES ASSUME NEW i \in DOMAIN s, NEW j \in DOMAIN s, i < j, s[j].action = "service.start"
               PROVE  /\ s[i].resource # s[j].resource
                      /\ ServiceOf[s[j].resource] \notin DependsOn[ServiceOf[s[i].resource]]
  BY DEF StartsInOrder
<1> DEFINE k == (i + 1) \div 2
           l == (j + 1) \div 2
<1>3. j % 2 = 1 /\ i \in Int /\ j \in Int /\ 1 <= i
  <2>1. i \in 1 .. (2 * Len(entries)) /\ j \in 1 .. (2 * Len(entries))
    BY <1>1
  <2>2. s[j].action = IF j % 2 = 1 THEN "service.start" ELSE "readiness.wait"
    BY <1>1
  <2>3. i \in Int /\ j \in Int /\ 1 <= i
    BY <1>1, <2>1
  <2>4. j % 2 = 1
    BY <1>2, <2>2
  <2> QED
    BY <2>3, <2>4
<1>4. k < l
  BY <1>2, <1>3
<1>5. k \in DOMAIN entries /\ l \in DOMAIN entries
      /\ s[i].resource = entries[k].unit /\ s[j].resource = entries[l].unit
  BY <1>1
<1> HIDE DEF k, l
<1> QED
  BY <1>4, <1>5

\* Entries for different units.
Distinct(entries) ==
  /\ IsSeq(entries)
  /\ \A i \in DOMAIN entries : entries[i].unit \in Units
  /\ \A i, j \in DOMAIN entries : i < j => entries[i].unit # entries[j].unit

\* The operations all: those of each part of buildOperations().
AskedFor(all, b, d, create, update, remove, needing, missingNetworks, anyChange) ==
  ToSet(all) =
  {o \in {Operation("host.prepare", "host")} : anyChange /\ b.mode = "bootstrap"}
     \cup {o \in {Operation("secret.ensure", "secrets.sops.yaml")} : anyChange}
     \cup {Operation("volume.ensure", r) : r \in d.volumes \ b.volumes}
     \cup {Operation("network.ensure", r) : r \in missingNetworks \cup (d.networks \ b.networks)}
     \cup {Operation(a, u) : a \in {"image.verify", "image.pull"},
                             u \in TouchedUnits(Pick(create \o update,
                                    {i \in DOMAIN (create \o update) : (create \o update)[i].imageChanged}))}
     \cup {Operation("service.stop", u) : u \in TouchedUnits(update)}
     \cup {Operation("service.stop", u) : u \in TouchedUnits(remove)}
     \cup {o \in {Operation("config.write", "compose.yml")} : anyChange}
     \cup {Operation("service.remove", u) : u \in TouchedUnits(remove)}
     \cup {Operation("database.migrate", r) : r \in needing}
     \cup {Operation(a, u) : a \in {"service.start", "readiness.wait"}, u \in TouchedUnits(create \o update)}
     \cup {o \in {Operation("state.commit", "state/current.json")} : anyChange}

\* buildOperations() as the concatenation of its parts: in the order of their phases.
LEMMA OperationsInOrder ==
  ASSUME NEW b, NEW d, NEW create, NEW update, NEW remove, NEW needing, NEW missingNetworks,
         NEW repaired, IsSeq(create), IsSeq(update), IsSeq(remove), Distinct(create \o update),
         needing \subseteq Services, d.volumes \subseteq Services,
         missingNetworks \cup d.networks \subseteq {"hof"} \cup Services,
         NEW all, all = buildOperations(b, d, create, update, remove, needing, missingNetworks,
                                        repaired),
         NEW anyChange \in BOOLEAN,
         anyChange <=> \/ (create \o update) \o remove # <<>> \/ needing # {} \/ repaired # {}
                       \/ b.topologyDigest # d.topologyDigest \/ missingNetworks # {}
  PROVE  /\ Ordered(all, 1, 11) /\ StartsInOrder(all)
         /\ AskedFor(all, b, d, create, update, remove, needing, missingNetworks, anyChange)
<1>1. PICK touched : touched = create \o update
  OBVIOUS
<1>2. PICK changed : changed = Pick(touched, {i \in DOMAIN touched : touched[i].imageChanged})
  OBVIOUS
<1>3. PICK sorted : sorted = topologicallySortByDependency(touched)
  OBVIOUS
<1>4. IsSeq(changed)
  <2>1. IsSeq(touched)
    BY <1>1 DEF Distinct
  <2>2. PICK I : I = {i \in DOMAIN touched : touched[i].imageChanged}
    OBVIOUS
  <2>3. I \in SUBSET DOMAIN touched /\ changed = Pick(touched, I)
    BY <1>2, <2>2
  <2> QED
    BY <2>1, <2>3, PickIsSeq
<1>5. /\ IsSeq(sorted) /\ ToSet(sorted) = ToSet(touched)
      /\ \A i, j \in DOMAIN sorted :
           i < j => /\ sorted[i].unit # sorted[j].unit
                    /\ ServiceOf[sorted[j].unit] \notin DependsOn[ServiceOf[sorted[i].unit]]
  <2>1. /\ IsSeq(touched) /\ \A i \in DOMAIN touched : touched[i].unit \in Units
        /\ \A i, j \in DOMAIN touched : i < j => touched[i].unit # touched[j].unit
    BY <1>1 DEF Distinct
  <2>2. /\ IsSeq(sorted) /\ ToSet(sorted) = ToSet(touched)
    BY ONLY <1>3, <2>1, SortedByDependency
  <2>3. \A i, j \in DOMAIN sorted :
           i < j => /\ sorted[i].unit # sorted[j].unit
                    /\ ServiceOf[sorted[j].unit] \notin DependsOn[ServiceOf[sorted[i].unit]]
    BY ONLY <1>3, <2>1, SortedByDependency
  <2> QED
    BY <2>2, <2>3
<1>6. TouchedUnits(sorted) = TouchedUnits(touched)
  <2>1. \A e : TouchedUnits(e) = {x.unit : x \in ToSet(e)}
    BY DEF TouchedUnits, ToSet
  <2> QED
    BY <1>5, <2>1
<1>7. PICK bootstrap \in BOOLEAN : bootstrap <=> anyChange /\ b.mode = "bootstrap"
  OBVIOUS
<1>8. PICK V : V = d.volumes \ b.volumes
  OBVIOUS
<1>9. PICK W : W = missingNetworks \cup (d.networks \ b.networks)
  OBVIOUS
<1>10. PICK order : order = <<"hof">> \o ServiceOrder
  OBVIOUS
<1>11. PICK p1 : p1 = When(bootstrap, "host.prepare", "host")
  OBVIOUS
<1>12. PICK p2 : p2 = When(anyChange, "secret.ensure", "secrets.sops.yaml")
  OBVIOUS
<1>13. PICK p3 : p3 = ForResources("volume.ensure", ServiceOrder, V)
  OBVIOUS
<1>14. PICK p4 : p4 = ForResources("network.ensure", order, W)
  OBVIOUS
<1>15. PICK p5 : p5 = PairsFor("image.verify", "image.pull", changed)
  OBVIOUS
<1>16. PICK p6 : p6 = ForUnits("service.stop", update)
  OBVIOUS
<1>17. PICK p7 : p7 = ForUnits("service.stop", remove)
  OBVIOUS
<1>18. PICK p8 : p8 = When(anyChange, "config.write", "compose.yml")
  OBVIOUS
<1>19. PICK p9 : p9 = ForUnits("service.remove", remove)
  OBVIOUS
<1>20. PICK p10 : p10 = ForResources("database.migrate", ServiceOrder, needing)
  OBVIOUS
<1>21. PICK p11 : p11 = PairsFor("service.start", "readiness.wait", sorted)
  OBVIOUS
<1>22. PICK p12 : p12 = When(anyChange, "state.commit", "state/current.json")
  OBVIOUS
<1>23. all = p1 \o p2 \o p3 \o p4 \o p5 \o p6 \o p7 \o p8 \o p9 \o p10 \o p11 \o p12
  <2> DEFINE change == \/ (create \o update) \o remove # <<>> \/ needing # {} \/ repaired # {}
                       \/ b.topologyDigest # d.topologyDigest \/ missingNetworks # {}
  <2>1. /\ p1 = When(change /\ b.mode = "bootstrap", "host.prepare", "host")
        /\ p2 = When(change, "secret.ensure", "secrets.sops.yaml")
        /\ p8 = When(change, "config.write", "compose.yml")
        /\ p12 = When(change, "state.commit", "state/current.json")
    BY <1>7, <1>11, <1>12, <1>18, <1>22 DEF When
  <2> QED
    BY <1>1, <1>2, <1>3, <1>8, <1>9, <1>10, <1>13, <1>14, <1>15, <1>16, <1>17, <1>19, <1>20, <1>21, <2>1
       DEF buildOperations, VerifyAndPull, StartAndWait
<1>24. IsSeq(ServiceOrder) /\ ToSet(ServiceOrder) = Services
  BY CatalogAssumption DEF IsSeq, Services
<1>25. IsSeq(order) /\ ToSet(order) = {"hof"} \cup Services
  <2>1. PICK h : h = <<"hof">>
    OBVIOUS
  <2>2. IsSeq(h) /\ ToSet(h) = {"hof"}
    BY <2>1 DEF IsSeq, ToSet
  <2>3. order = h \o ServiceOrder
    BY <1>10, <2>1
  <2> QED
    BY <1>24, <2>2, <2>3, ConcatIsSeq
<1>26. V \subseteq ToSet(ServiceOrder) /\ W \subseteq ToSet(order) /\ needing \subseteq ToSet(ServiceOrder)
  BY <1>8, <1>9, <1>24, <1>25
<1>31. Ordered(p1, 1, 1) /\ ToSet(p1) = {o \in {Operation("host.prepare", "host")} : bootstrap}
  BY <1>11, Phases, WhenAsks
<1>32. Ordered(p2, 2, 2) /\ ToSet(p2) = {o \in {Operation("secret.ensure", "secrets.sops.yaml")} : anyChange}
  BY <1>12, Phases, WhenAsks
<1>33. Ordered(p3, 3, 3) /\ ToSet(p3) = {Operation("volume.ensure", r) : r \in V}
  BY <1>13, <1>24, <1>26, Phases, ResourcesAsk
<1>34. Ordered(p4, 4, 4) /\ ToSet(p4) = {Operation("network.ensure", r) : r \in W}
  BY <1>14, <1>25, <1>26, Phases, ResourcesAsk
<1>35. Ordered(p5, 5, 5) /\ ToSet(p5) = {Operation(a, u) : a \in {"image.verify", "image.pull"},
                                                          u \in TouchedUnits(changed)}
  <2>1. Phase("image.verify") = 5 /\ Phase("image.pull") = 5 /\ 5 \in Int
    BY Phases
  <2>2. Ordered(p5, 5, 5)
    BY ONLY <2>1, <1>4, <1>15, PairsAsk
  <2>3. ToSet(p5) = {Operation(a, u) : a \in {"image.verify", "image.pull"}, u \in TouchedUnits(changed)}
    BY ONLY <2>1, <1>4, <1>15, PairsAsk
  <2> QED
    BY <2>2, <2>3
<1>36. Ordered(p6, 6, 6) /\ ToSet(p6) = {Operation("service.stop", u) : u \in TouchedUnits(update)}
  BY <1>16, Phases, UnitsAsk
<1>37. Ordered(p7, 6, 6) /\ ToSet(p7) = {Operation("service.stop", u) : u \in TouchedUnits(remove)}
  BY <1>17, Phases, UnitsAsk
<1>38. Ordered(p8, 7, 7) /\ ToSet(p8) = {o \in {Operation("config.write", "compose.yml")} : anyChange}
  BY <1>18, Phases, WhenAsks
<1>39. Ordered(p9, 8, 8) /\ ToSet(p9) = {Operation("service.remove", u) : u \in TouchedUnits(remove)}
  BY <1>19, Phases, UnitsAsk
<1>40. Ordered(p10, 9, 9) /\ ToSet(p10) = {Operation("database.migrate", r) : r \in needing}
  BY <1>20, <1>24, <1>26, Phases, ResourcesAsk
<1>41. Ordered(p11, 10, 10) /\ ToSet(p11) = {Operation(a, u) : a \in {"service.start", "readiness.wait"},
                                                              u \in TouchedUnits(touched)}
  <2>1. Phase("service.start") = 10 /\ Phase("readiness.wait") = 10 /\ 10 \in Int /\ IsSeq(sorted)
    BY <1>5, Phases
  <2>2. Ordered(p11, 10, 10)
    BY ONLY <2>1, <1>21, PairsAsk
  <2>3. ToSet(p11) = {Operation(a, u) : a \in {"service.start", "readiness.wait"}, u \in TouchedUnits(sorted)}
    BY ONLY <2>1, <1>21, PairsAsk
  <2> QED
    BY <1>6, <2>2, <2>3
<1>42. Ordered(p12, 11, 11) /\ ToSet(p12) = {o \in {Operation("state.commit", "state/current.json")} : anyChange}
  BY <1>22, Phases, WhenAsks
<1>43. StartsInOrder(p11)
  BY <1>5, <1>21, PairsStartInOrder
<1>44. /\ Ordered(all, 1, 11) /\ StartsInOrder(all)
       /\ ToSet(all) = ToSet(p1) \cup ToSet(p2) \cup ToSet(p3) \cup ToSet(p4) \cup ToSet(p5) \cup ToSet(p6)
                         \cup ToSet(p7) \cup ToSet(p8) \cup ToSet(p9) \cup ToSet(p10) \cup ToSet(p11)
                         \cup ToSet(p12)
  <2>0. /\ Ordered(p1, 1, 1) /\ Ordered(p2, 2, 2) /\ Ordered(p3, 3, 3) /\ Ordered(p4, 4, 4)
        /\ Ordered(p5, 5, 5) /\ Ordered(p6, 6, 6) /\ Ordered(p7, 6, 6) /\ Ordered(p8, 7, 7)
        /\ Ordered(p9, 8, 8) /\ Ordered(p10, 9, 9) /\ Ordered(p11, 10, 10) /\ Ordered(p12, 11, 11)
    BY <1>31, <1>32, <1>33, <1>34, <1>35, <1>36, <1>37, <1>38, <1>39, <1>40, <1>41, <1>42
  <2>1. ASSUME NEW s, NEW t, NEW w, NEW mid \in Int, NEW next \in Int, 1 <= mid, mid <= next,
               Ordered(s, 1, mid), Ordered(t, next, next), Joins(w, s, t)
        PROVE  Ordered(w, 1, next) /\ AddsUp(w, s, t)
    <3>1. /\ w = s \o t /\ Ordered(s, 1, mid) /\ Ordered(t, next, next)
          /\ 1 \in Int /\ mid \in Int /\ next \in Int /\ 1 <= mid /\ mid <= next /\ next <= next
      BY <2>1 DEF Joins
    <3>2. Ordered(w, 1, next)
      BY ONLY <3>1, ConcatOrdered
    <3>3. AddsUp(w, s, t)
      BY ONLY <3>1, ConcatOrdered
    <3> QED
      BY <3>2, <3>3
  <2>2. PICK w2 : Joins(w2, p1, p2)
    BY DEF Joins
  <2>3. Ordered(w2, 1, 2) /\ AddsUp(w2, p1, p2)
    BY <2>0, <2>1, <2>2
  <2>4. PICK w3 : Joins(w3, w2, p3)
    BY DEF Joins
  <2>5. Ordered(w3, 1, 3) /\ AddsUp(w3, w2, p3)
    BY <2>0, <2>1, <2>4, <2>3
  <2>6. PICK w4 : Joins(w4, w3, p4)
    BY DEF Joins
  <2>7. Ordered(w4, 1, 4) /\ AddsUp(w4, w3, p4)
    BY <2>0, <2>1, <2>6, <2>5
  <2>8. PICK w5 : Joins(w5, w4, p5)
    BY DEF Joins
  <2>9. Ordered(w5, 1, 5) /\ AddsUp(w5, w4, p5)
    BY <2>0, <2>1, <2>8, <2>7
  <2>10. PICK w6 : Joins(w6, w5, p6)
    BY DEF Joins
  <2>11. Ordered(w6, 1, 6) /\ AddsUp(w6, w5, p6)
    BY <2>0, <2>1, <2>10, <2>9
  <2>12. PICK w7 : Joins(w7, w6, p7)
    BY DEF Joins
  <2>13. Ordered(w7, 1, 6) /\ AddsUp(w7, w6, p7)
    BY <2>0, <2>1, <2>12, <2>11
  <2>14. PICK w8 : Joins(w8, w7, p8)
    BY DEF Joins
  <2>15. Ordered(w8, 1, 7) /\ AddsUp(w8, w7, p8)
    BY <2>0, <2>1, <2>14, <2>13
  <2>16. PICK w9 : Joins(w9, w8, p9)
    BY DEF Joins
  <2>17. Ordered(w9, 1, 8) /\ AddsUp(w9, w8, p9)
    BY <2>0, <2>1, <2>16, <2>15
  <2>18. PICK w10 : Joins(w10, w9, p10)
    BY DEF Joins
  <2>19. Ordered(w10, 1, 9) /\ AddsUp(w10, w9, p10)
    BY <2>0, <2>1, <2>18, <2>17
  <2>20. PICK w11 : Joins(w11, w10, p11)
    BY DEF Joins
  <2>21. Ordered(w11, 1, 10) /\ AddsUp(w11, w10, p11)
    BY <2>0, <2>1, <2>20, <2>19
  <2>22. Joins(all, w11, p12)
    BY <1>23, <2>2, <2>4, <2>6, <2>8, <2>10, <2>12, <2>14, <2>16, <2>18, <2>20 DEF Joins
  <2>23. Ordered(all, 1, 11) /\ AddsUp(all, w11, p12)
    BY <2>0, <2>1, <2>22, <2>21
  <2>30. \A s, low, high : Ordered(s, low, high) /\ low \in Int /\ high \in Int /\ high <= 9
                             => \A o \in ToSet(s) : o.action \notin {"service.start", "readiness.wait"}
    BY Phases DEF Ordered, ToSet
  <2>31. StartsInOrder(w10) /\ \A o \in ToSet(w10) : o.action \notin {"service.start", "readiness.wait"}
    <3>1. \A o \in ToSet(w10) : o.action \notin {"service.start", "readiness.wait"}
      BY <2>19, <2>30
    <3> QED
      BY <3>1 DEF StartsInOrder, ToSet
  <2>32. StartsInOrder(w11)
    BY <1>43, <2>0, <2>19, <2>20, <2>31, ConcatStartsInOrder DEF Ordered, Joins
  <2>33. StartsInOrder(p12) /\ \A o \in ToSet(p12) : o.action \notin {"service.start", "readiness.wait"}
    <3>1. \A o \in ToSet(p12) : o.action \notin {"service.start", "readiness.wait"}
      <4>1. \A i \in DOMAIN p12 : Phase(p12[i].action) = 11
        BY <2>0 DEF Ordered
      <4>2. \A o \in ToSet(p12) : Phase(o.action) = 11
        BY <4>1 DEF ToSet
      <4> QED
        BY <4>2, Phases
    <3> QED
      BY <3>1 DEF StartsInOrder, ToSet
  <2>34. StartsInOrder(all)
    BY <2>0, <2>21, <2>22, <2>32, <2>33, ConcatStartsInOrder DEF Ordered, Joins
  <2> QED
    BY <2>3, <2>5, <2>7, <2>9, <2>11, <2>13, <2>15, <2>17, <2>19, <2>21, <2>23, <2>34 DEF AddsUp
<1>45. /\ ToSet(p1) = {o \in {Operation("host.prepare", "host")} : anyChange /\ b.mode = "bootstrap"}
       /\ ToSet(p5) = {Operation(a, u) : a \in {"image.verify", "image.pull"},
                                        u \in TouchedUnits(Pick(create \o update,
                                               {i \in DOMAIN (create \o update) : (create \o update)[i].imageChanged}))}
       /\ ToSet(p11) = {Operation(a, u) : a \in {"service.start", "readiness.wait"}, u \in TouchedUnits(create \o update)}
  BY <1>1, <1>2, <1>7, <1>31, <1>35, <1>41
<1> QED
  BY <1>8, <1>9, <1>32, <1>33, <1>34, <1>36, <1>37, <1>38, <1>39, <1>40, <1>42, <1>44, <1>45 DEF AskedFor

-----------------------------------------------------------------------------
(* The entries of a plan: one for each unit that is acted on.              *)

\* Picked elements of a sequence without repetitions do not repeat.
LEMMA PickIsInjective ==
  ASSUME NEW s, IsSeq(s), IsInjective(s), NEW I \in SUBSET DOMAIN s
  PROVE  \A m, n \in DOMAIN Pick(s, I) : Pick(s, I)[m] = Pick(s, I)[n] => m = n
<1> DEFINE Place(n) == CHOOSE i \in I : Cardinality({j \in I : j <= i}) = n
           p == Pick(s, I)
<1>0. DOMAIN s = 1 .. Len(s) /\ Len(s) \in Nat
  BY DEF IsSeq
<1>1. \A n \in 1 .. Cardinality(I) : Place(n) \in I /\ Rank(I, Place(n)) = n
  <2> TAKE n \in 1 .. Cardinality(I)
  <2>1. \E i \in I : Rank(I, i) = n
    BY <1>0, RankIsOnto
  <2> QED
    BY <2>1 DEF Rank
<1>2. p = [n \in 1 .. Cardinality(I) |-> s[Place(n)]]
  BY DEF Pick
<1> HIDE DEF Place, p
<1>3. ASSUME NEW m \in DOMAIN p, NEW n \in DOMAIN p, p[m] = p[n] PROVE m = n
  <2>1. /\ p[m] = s[Place(m)] /\ p[n] = s[Place(n)] /\ Place(m) \in I /\ Place(n) \in I
        /\ Rank(I, Place(m)) = m /\ Rank(I, Place(n)) = n
    BY <1>1, <1>2
  <2>2. Place(m) = Place(n)
    BY <1>3, <2>1 DEF IsInjective
  <2> QED
    BY <2>1, <2>2
<1> QED
  BY <1>3 DEF p

\* The units of two lists of entries.
LEMMA ConcatTouches ==
  ASSUME NEW s, NEW t, IsSeq(s), IsSeq(t), NEW w, w = s \o t
  PROVE  IsSeq(w) /\ TouchedUnits(w) = TouchedUnits(s) \cup TouchedUnits(t)
<1>1. IsSeq(w) /\ ToSet(w) = ToSet(s) \cup ToSet(t)
  BY ConcatIsSeq
<1>2. \A e : TouchedUnits(e) = {x.unit : x \in ToSet(e)}
  BY DEF TouchedUnits, ToSet
<1>3. TouchedUnits(w) = TouchedUnits(s) \cup TouchedUnits(t)
  BY <1>1, <1>2
<1> QED
  BY <1>1, <1>3

\* Two lists of entries for different units.
LEMMA ConcatDistinct ==
  ASSUME NEW s, NEW t, Distinct(s), Distinct(t), TouchedUnits(s) \cap TouchedUnits(t) = {},
         NEW w, w = s \o t
  PROVE  Distinct(w) /\ TouchedUnits(w) = TouchedUnits(s) \cup TouchedUnits(t)
<1>0. IsSeq(s) /\ IsSeq(t)
  BY DEF Distinct
<1>1. /\ DOMAIN w = 1 .. (Len(s) + Len(t))
      /\ DOMAIN s = 1 .. Len(s) /\ DOMAIN t = 1 .. Len(t) /\ Len(s) \in Nat /\ Len(t) \in Nat
  BY <1>0, ConcatPositions
<1>2. \A i \in DOMAIN w : /\ i <= Len(s) => i \in DOMAIN s /\ w[i] = s[i]
                          /\ ~(i <= Len(s)) => i - Len(s) \in DOMAIN t /\ w[i] = t[i - Len(s)]
  BY <1>0, ConcatPositions
<1>3. IsSeq(w) /\ TouchedUnits(w) = TouchedUnits(s) \cup TouchedUnits(t)
  BY <1>0, ConcatTouches
<1>4. \A i \in DOMAIN w : w[i].unit \in Units
  BY <1>2 DEF Distinct
<1>5. ASSUME NEW i \in DOMAIN w, NEW j \in DOMAIN w, i < j
      PROVE  w[i].unit # w[j].unit
  <2>0. i \in Int /\ j \in Int /\ Len(s) \in Int
    BY <1>1
  <2>1. CASE j <= Len(s)
    <3>1. i \in DOMAIN s /\ j \in DOMAIN s /\ w[i] = s[i] /\ w[j] = s[j]
      BY <1>2, <1>5, <2>0, <2>1
    <3> QED
      BY <1>5, <3>1 DEF Distinct
  <2>2. CASE ~(i <= Len(s))
    <3> DEFINE k == i - Len(s)
               l == j - Len(s)
    <3>1. k \in DOMAIN t /\ l \in DOMAIN t /\ w[i] = t[k] /\ w[j] = t[l] /\ k < l
      BY <1>2, <1>5, <2>0, <2>2
    <3> HIDE DEF k, l
    <3> QED
      BY <3>1 DEF Distinct
  <2>3. CASE i <= Len(s) /\ ~(j <= Len(s))
    <3>1. PICK k \in DOMAIN t : w[j] = t[k]
      BY <1>2, <2>3
    <3>2. i \in DOMAIN s /\ w[i] = s[i]
      BY <1>2, <2>3
    <3>3. w[i].unit \in TouchedUnits(s) /\ w[j].unit \in TouchedUnits(t)
      BY <3>1, <3>2 DEF TouchedUnits
    <3> QED
      BY <3>3
  <2> QED
    BY <1>5, <2>0, <2>1, <2>2, <2>3
<1> QED
  BY <1>3, <1>4, <1>5 DEF Distinct

\* EntriesFor() makes one entry for each chosen unit.
LEMMA EntriesAreDistinct ==
  ASSUME NEW I \in SUBSET DOMAIN UnitOrder, NEW e,
         e = [i \in DOMAIN Pick(UnitOrder, I) |-> e[i]],
         \A i \in DOMAIN e : e[i].unit = Pick(UnitOrder, I)[i]
  PROVE  Distinct(e) /\ TouchedUnits(e) = {UnitOrder[i] : i \in I}
<1>1. IsSeq(e) /\ TouchedUnits(e) = {UnitOrder[i] : i \in I}
  BY EntriesAreChosen
<1>2. IsSeq(UnitOrder) /\ IsInjective(UnitOrder)
  BY CatalogAssumption DEF IsSeq, Units
<1>3. \A i \in DOMAIN e : e[i].unit \in Units
  BY <1>1 DEF TouchedUnits, Units, ToSet
<1>4. \A m, n \in DOMAIN Pick(UnitOrder, I) : Pick(UnitOrder, I)[m] = Pick(UnitOrder, I)[n] => m = n
  BY <1>2, PickIsInjective
<1>5. PICK chosen : chosen = Pick(UnitOrder, I)
  OBVIOUS
<1>6. /\ DOMAIN e = DOMAIN chosen /\ \A i \in DOMAIN e : e[i].unit = chosen[i]
      /\ \A m, n \in DOMAIN chosen : chosen[m] = chosen[n] => m = n
  BY <1>4, <1>5
<1>7. ASSUME NEW i \in DOMAIN e, NEW j \in DOMAIN e, i < j PROVE e[i].unit # e[j].unit
  <2>1. i # j
    <3>1. i \in Int /\ j \in Int
      BY <1>1 DEF IsSeq
    <3> QED
      BY <1>7, <3>1
  <2> QED
    BY <1>6, <2>1
<1> QED
  BY <1>1, <1>3, <1>7 DEF Distinct

\* diffUnits(): the units that are new, those that are described differently, and those that
\* are no longer there.
LEMMA DiffInDetail ==
  ASSUME NEW b, NEW d, DOMAIN b.units \subseteq Units, DOMAIN d.units \subseteq Units,
         NEW diff, diff = diffUnits(b, d)
  PROVE  /\ Distinct(diff.create) /\ Distinct(diff.update) /\ Distinct(diff.remove)
         /\ TouchedUnits(diff.create) = DOMAIN d.units \ DOMAIN b.units
         /\ TouchedUnits(diff.update) =
              {u \in DOMAIN d.units \cap DOMAIN b.units :
                 d.units[u].configFingerprint # b.units[u].configFingerprint}
         /\ TouchedUnits(diff.remove) = DOMAIN b.units \ DOMAIN d.units
<1> DEFINE old == DOMAIN b.units
           new == DOMAIN d.units
           C == {i \in DOMAIN UnitOrder : UnitOrder[i] \in new \ old}
           U == {i \in DOMAIN UnitOrder :
                   /\ UnitOrder[i] \in new \cap old
                   /\ d.units[UnitOrder[i]].configFingerprint # b.units[UnitOrder[i]].configFingerprint}
           R == {i \in DOMAIN UnitOrder : UnitOrder[i] \in old \ new}
           c == diffUnits(b, d).create
           u == diffUnits(b, d).update
           r == diffUnits(b, d).remove
<1>1. /\ c = [i \in DOMAIN Pick(UnitOrder, C) |->
                Entry(Pick(UnitOrder, C)[i], "none", d.units[Pick(UnitOrder, C)[i]].image, TRUE)]
      /\ u = [i \in DOMAIN Pick(UnitOrder, U) |->
                Entry(Pick(UnitOrder, U)[i], b.units[Pick(UnitOrder, U)[i]].image,
                      d.units[Pick(UnitOrder, U)[i]].image,
                      b.units[Pick(UnitOrder, U)[i]].image # d.units[Pick(UnitOrder, U)[i]].image)]
      /\ r = [i \in DOMAIN Pick(UnitOrder, R) |->
                Entry(Pick(UnitOrder, R)[i], b.units[Pick(UnitOrder, R)[i]].image, "none", FALSE)]
  BY DEF diffUnits, EntriesFor
<1>2. C \in SUBSET DOMAIN UnitOrder /\ U \in SUBSET DOMAIN UnitOrder /\ R \in SUBSET DOMAIN UnitOrder
  OBVIOUS
<1>3. /\ {UnitOrder[i] : i \in C} = new \ old /\ {UnitOrder[i] : i \in R} = old \ new
      /\ {UnitOrder[i] : i \in U} = {v \in new \cap old : d.units[v].configFingerprint # b.units[v].configFingerprint}
  BY DEF Units, ToSet
<1> HIDE DEF C, U, R, c, u, r
<1>4. Distinct(c) /\ TouchedUnits(c) = {UnitOrder[i] : i \in C}
  BY <1>1, <1>2, EntriesAreDistinct DEF Entry
<1>5. Distinct(u) /\ TouchedUnits(u) = {UnitOrder[i] : i \in U}
  BY <1>1, <1>2, EntriesAreDistinct DEF Entry
<1>6. Distinct(r) /\ TouchedUnits(r) = {UnitOrder[i] : i \in R}
  BY <1>1, <1>2, EntriesAreDistinct DEF Entry
<1> QED
  BY <1>3, <1>4, <1>5, <1>6 DEF c, u, r

\* e lists entries for the units at the positions in I.
EntriesAt(e, I) ==
  /\ e = [i \in DOMAIN Pick(UnitOrder, I) |-> e[i]]
  /\ \A i \in DOMAIN e : e[i].unit = Pick(UnitOrder, I)[i]

\* No unit has an entry in both.
Apart(create, update) == TouchedUnits(create) \cap TouchedUnits(update) = {}

\* new is update with the entries e for the units X, which stand at the positions in I
\* and which no entry of create or update is about.
FoldsIn(create, update, I, X, e, new) ==
  /\ Distinct(create) /\ Distinct(update) /\ Apart(create, update)
  /\ I \in SUBSET DOMAIN UnitOrder /\ X = {UnitOrder[i] : i \in I} /\ EntriesAt(e, I)
  /\ X \cap TouchedUnits(create \o update) = {} /\ new = update \o e

\* The result of that.
Folded(create, update, X, new) ==
  /\ Distinct(new) /\ Apart(create, new)
  /\ TouchedUnits(new) = TouchedUnits(update) \cup X

\* Such entries can be added.
LEMMA FoldAddsUnits ==
  ASSUME NEW create, NEW update, NEW I, NEW X, NEW e, NEW new, FoldsIn(create, update, I, X, e, new)
  PROVE  Folded(create, update, X, new)
<1>0. /\ Distinct(create) /\ Distinct(update) /\ Apart(create, update)
      /\ I \in SUBSET DOMAIN UnitOrder /\ X = {UnitOrder[i] : i \in I} /\ EntriesAt(e, I)
      /\ X \cap TouchedUnits(create \o update) = {} /\ new = update \o e
  BY DEF FoldsIn
<1>1. Distinct(e) /\ TouchedUnits(e) = X
  BY <1>0, EntriesAreDistinct DEF EntriesAt
<1>2. TouchedUnits(create \o update) = TouchedUnits(create) \cup TouchedUnits(update)
  BY <1>0, ConcatTouches DEF Distinct
<1>3. TouchedUnits(e) \cap TouchedUnits(update) = {} /\ TouchedUnits(e) \cap TouchedUnits(create) = {}
  BY <1>0, <1>1, <1>2
<1>4. Distinct(new) /\ TouchedUnits(new) = TouchedUnits(update) \cup TouchedUnits(e)
  BY <1>0, <1>1, <1>3, ConcatDistinct
<1> QED
  BY <1>0, <1>1, <1>3, <1>4 DEF Apart, Folded

\* foldRepairs(): the units with that drift that are to stay and that nothing acts on yet.
LEMMA RepairsFolded ==
  ASSUME NEW create, NEW update, Distinct(create), Distinct(update),
         Apart(create, update), NEW d, NEW kind, NEW drift,
         NEW new, new = foldRepairs(kind, d, drift, create, update)
  PROVE  /\ Distinct(new) /\ Apart(create, new)
         /\ TouchedUnits(new) =
              TouchedUnits(update)
                \cup {u \in Units : /\ [unit |-> u, kind |-> kind] \in drift
                                    /\ u \notin TouchedUnits(create \o update) /\ u \in DOMAIN d.units}
<1> DEFINE I == {i \in DOMAIN UnitOrder : /\ [unit |-> UnitOrder[i], kind |-> kind] \in drift
                                          /\ UnitOrder[i] \notin TouchedUnits(create \o update)
                                          /\ UnitOrder[i] \in DOMAIN d.units}
           e == [i \in DOMAIN Pick(UnitOrder, I) |->
                   Entry(Pick(UnitOrder, I)[i], d.units[Pick(UnitOrder, I)[i]].image,
                         d.units[Pick(UnitOrder, I)[i]].image, TRUE)]
           X == {u \in Units : /\ [unit |-> u, kind |-> kind] \in drift
                               /\ u \notin TouchedUnits(create \o update) /\ u \in DOMAIN d.units}
<1>1. new = update \o e
  BY DEF foldRepairs, EntriesFor
<1>2. I \in SUBSET DOMAIN UnitOrder /\ X \cap TouchedUnits(create \o update) = {}
  OBVIOUS
<1>3. X = {UnitOrder[i] : i \in I}
  BY DEF Units, ToSet
<1> HIDE DEF I, X
<1>4. EntriesAt(e, I)
  BY DEF Entry, EntriesAt
<1> HIDE DEF e
<1>7. FoldsIn(create, update, I, X, e, new)
  BY <1>1, <1>2, <1>3, <1>4 DEF FoldsIn
<1>8. Folded(create, update, X, new)
  BY ONLY <1>7, FoldAddsUnits
<1> QED
  BY <1>8 DEF Folded, X

\* foldGatewayRestartForCaddyfile(): at most the gateway.
LEMMA GatewayFolded ==
  ASSUME NEW create, NEW update, Distinct(create), Distinct(update),
         Apart(create, update), NEW d, NEW repaired,
         NEW new, new = foldGatewayRestartForCaddyfile(d, repaired, create, update)
  PROVE  /\ Distinct(new) /\ Apart(create, new)
         /\ TouchedUnits(update) \subseteq TouchedUnits(new)
         /\ TouchedUnits(new) \subseteq TouchedUnits(update) \cup DOMAIN d.units
         /\ repaired = {} => TouchedUnits(new) = TouchedUnits(update)
<1> DEFINE I == {i \in DOMAIN UnitOrder : /\ UnitOrder[i] = Gateway
                                          /\ \E g \in repaired : g.file = "Caddyfile"
                                          /\ UnitOrder[i] \notin TouchedUnits(create \o update)
                                          /\ UnitOrder[i] \in DOMAIN d.units}
           e == [i \in DOMAIN Pick(UnitOrder, I) |->
                   Entry(Pick(UnitOrder, I)[i], d.units[Pick(UnitOrder, I)[i]].image,
                         d.units[Pick(UnitOrder, I)[i]].image, FALSE)]
           X == {UnitOrder[i] : i \in I}
<1>1. new = update \o e
  BY DEF foldGatewayRestartForCaddyfile, EntriesFor
<1>2. /\ I \in SUBSET DOMAIN UnitOrder /\ X \cap TouchedUnits(create \o update) = {}
      /\ \A i \in I : UnitOrder[i] \in DOMAIN d.units
      /\ repaired = {} => I = {}
  OBVIOUS
<1>3. X = {UnitOrder[i] : i \in I}
  OBVIOUS
<1>9. X \subseteq DOMAIN d.units /\ (repaired = {} => X = {})
  BY <1>2
<1> HIDE DEF I, X
<1>4. EntriesAt(e, I)
  BY DEF Entry, EntriesAt
<1> HIDE DEF e
<1>7. FoldsIn(create, update, I, X, e, new)
  BY <1>1, <1>2, <1>3, <1>4 DEF FoldsIn
<1>8. Folded(create, update, X, new)
  BY ONLY <1>7, FoldAddsUnits
<1> QED
  BY <1>8, <1>9 DEF Folded

\* foldMigrationOnlyIntoUpdates(): the database units of the services that are migrated.
LEMMA MigrationsFolded ==
  ASSUME NEW create, NEW update, Distinct(create), Distinct(update),
         Apart(create, update), NEW d, NEW needing,
         NEW new, new = foldMigrationOnlyIntoUpdates(d, needing, create, update)
  PROVE  /\ Distinct(new) /\ Apart(create, new)
         /\ TouchedUnits(new) =
              TouchedUnits(update)
                \cup {u \in Units : (\E s \in needing : DbUnit[s] = u) /\ u \notin TouchedUnits(create \o update)}
<1> DEFINE I == {i \in DOMAIN UnitOrder : /\ \E s \in needing : DbUnit[s] = UnitOrder[i]
                                          /\ UnitOrder[i] \notin TouchedUnits(create \o update)}
           e == [i \in DOMAIN Pick(UnitOrder, I) |->
                   Entry(Pick(UnitOrder, I)[i], d.units[Pick(UnitOrder, I)[i]].image,
                         d.units[Pick(UnitOrder, I)[i]].image, FALSE)]
           X == {u \in Units : (\E s \in needing : DbUnit[s] = u) /\ u \notin TouchedUnits(create \o update)}
<1>1. new = update \o e
  BY DEF foldMigrationOnlyIntoUpdates, EntriesFor
<1>2. I \in SUBSET DOMAIN UnitOrder /\ X \cap TouchedUnits(create \o update) = {}
  OBVIOUS
<1>3. X = {UnitOrder[i] : i \in I}
  BY DEF Units, ToSet
<1> HIDE DEF I, X
<1>4. EntriesAt(e, I)
  BY DEF Entry, EntriesAt
<1> HIDE DEF e
<1>7. FoldsIn(create, update, I, X, e, new)
  BY <1>1, <1>2, <1>3, <1>4 DEF FoldsIn
<1>8. Folded(create, update, X, new)
  BY ONLY <1>7, FoldAddsUnits
<1> QED
  BY <1>8 DEF Folded, X

\* What each fold keeps of the entries it gets.
Grown(create, update, new, d) ==
  /\ Distinct(new) /\ Apart(create, new)
  /\ TouchedUnits(update) \subseteq TouchedUnits(new) /\ TouchedUnits(new) \subseteq DOMAIN d.units

\* buildPlan(): the units of first are updated, and those that each fold adds.
Folds(d, create, first, drift, repairDrift, repaired, needing, withMissing, withManual, withGateway,
      update) ==
  /\ DOMAIN d.units \subseteq Units /\ Distinct(create) /\ Grown(create, first, first, d)
  /\ repairDrift \in BOOLEAN /\ \A s \in needing : DbUnit[s] \in DOMAIN d.units
  /\ withMissing = foldRepairs("missing", d, drift, create, first)
  /\ withManual = IF repairDrift THEN foldRepairs("manual-change", d, drift, create, withMissing)
                                 ELSE withMissing
  /\ withGateway = foldGatewayRestartForCaddyfile(d, repaired, create, withManual)
  /\ update = foldMigrationOnlyIntoUpdates(d, needing, create, withGateway)

\* All of them are updated in the end.
FoldsGive(d, create, first, drift, repairDrift, needing, update) ==
  /\ Grown(create, first, update, d)
  /\ \A u \in DOMAIN d.units \ TouchedUnits(create) :
       \/ [unit |-> u, kind |-> "missing"] \in drift
       \/ repairDrift /\ [unit |-> u, kind |-> "manual-change"] \in drift
       => u \in TouchedUnits(update)
  /\ \A s \in needing : DbUnit[s] \in TouchedUnits(create) \cup TouchedUnits(update)

\* The folds do that.
LEMMA UpdatesInParts ==
  ASSUME NEW d, NEW create, NEW first, NEW drift, NEW repairDrift, NEW repaired, NEW needing,
         NEW withMissing, NEW withManual, NEW withGateway, NEW update,
         Folds(d, create, first, drift, repairDrift, repaired, needing, withMissing, withManual,
               withGateway, update)
  PROVE  FoldsGive(d, create, first, drift, repairDrift, needing, update)
<1> USE DEF Folds
<1>0. ASSUME NEW new, Distinct(new)
      PROVE  TouchedUnits(create \o new) = TouchedUnits(create) \cup TouchedUnits(new)
  BY <1>0, ConcatTouches DEF Distinct
<1>1. Distinct(first) /\ Apart(create, first) /\ TouchedUnits(first) \subseteq DOMAIN d.units
  BY DEF Grown
<1>2. /\ Distinct(withMissing) /\ Apart(create, withMissing)
      /\ TouchedUnits(withMissing) =
           TouchedUnits(first)
             \cup {u \in Units : /\ [unit |-> u, kind |-> "missing"] \in drift
                                 /\ u \notin TouchedUnits(create \o first) /\ u \in DOMAIN d.units}
  BY <1>1, RepairsFolded
<1>3. /\ Grown(create, first, withMissing, d)
      /\ \A u \in DOMAIN d.units \ TouchedUnits(create) :
           [unit |-> u, kind |-> "missing"] \in drift => u \in TouchedUnits(withMissing)
  BY <1>0, <1>1, <1>2 DEF Grown
<1>4. /\ Grown(create, withMissing, withManual, d)
      /\ repairDrift =>
           \A u \in DOMAIN d.units \ TouchedUnits(create) :
             [unit |-> u, kind |-> "manual-change"] \in drift => u \in TouchedUnits(withManual)
  <2>1. CASE ~repairDrift
    BY <1>2, <1>3, <2>1 DEF Grown
  <2>2. CASE repairDrift
    <3>1. withManual = foldRepairs("manual-change", d, drift, create, withMissing)
      BY <2>2
    <3>2. /\ Distinct(withManual) /\ Apart(create, withManual)
          /\ TouchedUnits(withManual) =
               TouchedUnits(withMissing)
                 \cup {u \in Units : /\ [unit |-> u, kind |-> "manual-change"] \in drift
                                     /\ u \notin TouchedUnits(create \o withMissing) /\ u \in DOMAIN d.units}
      BY <1>2, <3>1, RepairsFolded
    <3>3. /\ TouchedUnits(create \o withMissing) = TouchedUnits(create) \cup TouchedUnits(withMissing)
          /\ TouchedUnits(withMissing) \subseteq DOMAIN d.units /\ DOMAIN d.units \subseteq Units
      BY <1>0, <1>2, <1>3 DEF Grown
    <3>4. Grown(create, withMissing, withManual, d)
      BY ONLY <3>2, <3>3 DEF Grown
    <3>5. \A u \in DOMAIN d.units \ TouchedUnits(create) :
            [unit |-> u, kind |-> "manual-change"] \in drift => u \in TouchedUnits(withManual)
      BY ONLY <3>2, <3>3
    <3> QED
      BY ONLY <3>4, <3>5
  <2> QED
    BY <2>1, <2>2
<1>5. Grown(create, withManual, withGateway, d)
  <2>1. Distinct(withManual) /\ Apart(create, withManual)
    BY <1>4 DEF Grown
  <2>2. /\ Distinct(withGateway) /\ Apart(create, withGateway)
        /\ TouchedUnits(withManual) \subseteq TouchedUnits(withGateway)
        /\ TouchedUnits(withGateway) \subseteq TouchedUnits(withManual) \cup DOMAIN d.units
    BY <2>1, GatewayFolded
  <2> QED
    BY <1>4, <2>2 DEF Grown
<1>6. /\ Grown(create, withGateway, update, d)
      /\ \A s \in needing : DbUnit[s] \in TouchedUnits(create) \cup TouchedUnits(update)
  <2>1. Distinct(withGateway) /\ Apart(create, withGateway)
    BY <1>5 DEF Grown
  <2>2. /\ Distinct(update) /\ Apart(create, update)
        /\ TouchedUnits(update) =
             TouchedUnits(withGateway)
               \cup {u \in Units : (\E s \in needing : DbUnit[s] = u) /\ u \notin TouchedUnits(create \o withGateway)}
    BY <2>1, MigrationsFolded
  <2> QED
    BY <1>0, <1>5, <2>1, <2>2 DEF Grown
<1> QED
  BY <1>3, <1>4, <1>5, <1>6 DEF Grown, FoldsGive

-----------------------------------------------------------------------------
(* What a plan asks for.                                                   *)

Has(p, action, resource) == Operation(action, resource) \in ToSet(p.operations)

\* The plan p is about a change if anyChange.  It ensures the volumes V and the networks W,
\* creates the units C, updates U, removes R, and migrates the services N.
Asks(p, bootstrap, anyChange, V, W, C, U, R, N) ==
  /\ Ordered(p.operations, 1, 11) /\ StartsInOrder(p.operations)
  /\ \A o \in ToSet(p.operations) : o = Operation(o.action, o.resource)
  /\ anyChange /\ bootstrap => Has(p, "host.prepare", "host")
  /\ anyChange => Has(p, "secret.ensure", "secrets.sops.yaml") /\ Has(p, "config.write", "compose.yml")
  /\ \A r : Has(p, "volume.ensure", r) <=> r \in V
  /\ \A r : Has(p, "network.ensure", r) <=> r \in W
  /\ \A r : Has(p, "service.stop", r) <=> r \in U \cup R
  /\ \A r : Has(p, "service.remove", r) <=> r \in R
  /\ \A r : Has(p, "database.migrate", r) <=> r \in N
  /\ \A r : Has(p, "service.start", r) <=> r \in C \cup U
  /\ \A r : Has(p, "readiness.wait", r) <=> r \in C \cup U
  /\ \A r : Has(p, "state.commit", r) => anyChange

\* The same as one set; the images of the units K are pulled, the units T started.
AskedInSets(p, bootstrap, anyChange, V, W, K, T, U, R, N) ==
  ToSet(p.operations) =
    {o \in {Operation("host.prepare", "host")} : anyChange /\ bootstrap}
      \cup {o \in {Operation("secret.ensure", "secrets.sops.yaml")} : anyChange}
      \cup {Operation("volume.ensure", r) : r \in V}
      \cup {Operation("network.ensure", r) : r \in W}
      \cup {Operation(a, u) : a \in {"image.verify", "image.pull"}, u \in K}
      \cup {Operation("service.stop", u) : u \in U}
      \cup {Operation("service.stop", u) : u \in R}
      \cup {o \in {Operation("config.write", "compose.yml")} : anyChange}
      \cup {Operation("service.remove", u) : u \in R}
      \cup {Operation("database.migrate", r) : r \in N}
      \cup {Operation(a, u) : a \in {"service.start", "readiness.wait"}, u \in T}
      \cup {o \in {Operation("state.commit", "state/current.json")} : anyChange}

\* From the parts of the operations to the operations of each action.
LEMMA AsksOneByOne ==
  ASSUME NEW p, Ordered(p.operations, 1, 11), StartsInOrder(p.operations),
         NEW bootstrap \in BOOLEAN, NEW anyChange \in BOOLEAN,
         NEW V, NEW W, NEW K, NEW C, NEW U, NEW R, NEW N, NEW T, T = C \cup U,
         AskedInSets(p, bootstrap, anyChange, V, W, K, T, U, R, N)
  PROVE  Asks(p, bootstrap, anyChange, V, W, C, U, R, N)
<1>1. PICK All : All = ToSet(p.operations)
  OBVIOUS
<1>2. \A o : o \in All <=>
        \/ o = Operation("host.prepare", "host") /\ anyChange /\ bootstrap
        \/ o = Operation("secret.ensure", "secrets.sops.yaml") /\ anyChange
        \/ \E r \in V : o = Operation("volume.ensure", r)
        \/ \E r \in W : o = Operation("network.ensure", r)
        \/ \E u \in K : o = Operation("image.verify", u) \/ o = Operation("image.pull", u)
        \/ \E u \in U \cup R : o = Operation("service.stop", u)
        \/ o = Operation("config.write", "compose.yml") /\ anyChange
        \/ \E u \in R : o = Operation("service.remove", u)
        \/ \E r \in N : o = Operation("database.migrate", r)
        \/ \E u \in C \cup U : o = Operation("service.start", u) \/ o = Operation("readiness.wait", u)
        \/ o = Operation("state.commit", "state/current.json") /\ anyChange
  BY <1>1 DEF AskedInSets
<1>3. \A action, resource : /\ Operation(action, resource).action = action
                            /\ Operation(action, resource).resource = resource
  BY DEF Operation
<1>4. \A action, resource : Has(p, action, resource) <=> Operation(action, resource) \in All
  BY <1>1 DEF Has
<1>5. \A o \in All : o = Operation(o.action, o.resource)
  BY <1>2, <1>3
<1>6. /\ anyChange /\ bootstrap => Has(p, "host.prepare", "host")
      /\ anyChange => Has(p, "secret.ensure", "secrets.sops.yaml") /\ Has(p, "config.write", "compose.yml")
  BY <1>2, <1>4
<1>7. \A r : Has(p, "volume.ensure", r) <=> r \in V
  BY <1>2, <1>3, <1>4
<1>8. \A r : Has(p, "network.ensure", r) <=> r \in W
  BY <1>2, <1>3, <1>4
<1>9. \A r : Has(p, "service.stop", r) <=> r \in U \cup R
  BY <1>2, <1>3, <1>4
<1>10. \A r : Has(p, "service.remove", r) <=> r \in R
  BY <1>2, <1>3, <1>4
<1>11. \A r : Has(p, "database.migrate", r) <=> r \in N
  BY <1>2, <1>3, <1>4
<1>12. \A r : Has(p, "service.start", r) <=> r \in C \cup U
  BY <1>2, <1>3, <1>4
<1>13. \A r : Has(p, "readiness.wait", r) <=> r \in C \cup U
  BY <1>2, <1>3, <1>4
<1>14. \A r : Has(p, "state.commit", r) => anyChange
  BY <1>2, <1>3, <1>4
<1> QED
  BY <1>1, <1>5, <1>6, <1>7, <1>8, <1>9, <1>10, <1>11, <1>12, <1>13, <1>14 DEF Asks

\* p is what buildPlan() makes of the record c, the manifest m and the observation o.
Planned(c, m, o, repairDrift, b, d, p) ==
  /\ c.manifest \in Manifests /\ c.generation \in Nat /\ m \in Manifests
  /\ b = resolveBaseline(c) /\ d = topologyToServiceState(m)
  /\ p = buildPlan(b, m, o, repairDrift)

\* What buildPlan() repairs of the generated files, with or without --repair-drift.
Repairable(b, o, repairDrift) ==
  {e \in computeGeneratedDrift(b, o) : \/ e.kind = "generated-missing"
                                       \/ e.kind = "generated-modified" /\ repairDrift}

\* The services U that are updated and those, N, that are migrated.
UpdatesFit(b, d, drift, repairDrift, C, U, N) ==
  /\ U \subseteq DOMAIN d.units /\ C \cap U = {}
  /\ \A u \in DOMAIN d.units \cap DOMAIN b.units :
       \/ d.units[u].configFingerprint # b.units[u].configFingerprint
       \/ [unit |-> u, kind |-> "missing"] \in drift
       \/ repairDrift /\ [unit |-> u, kind |-> "manual-change"] \in drift
       => u \in U
  /\ N \subseteq Persistent \cap d.enabled /\ \A s \in N : DbUnit[s] \in C \cup U
  /\ \A s \in (Persistent \cap d.enabled) \ N :
       IF s \in b.enabled THEN b.schemaVersion[s] = d.schemaVersion[s]
                          ELSE b.retained[s] # 0 /\ b.retained[s] = d.schemaVersion[s]

\* The rest of a plan.
DocumentFits(b, m, p, C, U, R) ==
  /\ p.mode = b.mode /\ p.manifest = m /\ p.generation = b.generation + 1
  /\ p.secrets = IF b.mode = "bootstrap" THEN requiredSecrets(m)
                                         ELSE UNION {secretsOf(u, m) : u \in C \cup U}
  /\ p.retained = [s \in Persistent |->
                     CASE s \in {ServiceOf[u] : u \in C} -> 0
                       [] s \in {ServiceOf[u] : u \in R} /\ s \in m.retain -> b.schemaVersion[s]
                       [] OTHER -> b.retained[s]]

\* What a plan asks for, from what it is made of.
PlanParts(m, o, repairDrift, b, d, p, anyChange, V, W, C, U, R, N) ==
  /\ Asks(p, b.mode = "bootstrap", anyChange, V, W, C, U, R, N)
  /\ V = d.volumes \ b.volumes
  /\ W = computeMissingResources(b.networks, o, o.networks) \cup (d.networks \ b.networks)
  /\ C = DOMAIN d.units \ DOMAIN b.units /\ R = DOMAIN b.units \ DOMAIN d.units
  /\ UpdatesFit(b, d, computeDrift(b, o), repairDrift, C, U, N)
  /\ DocumentFits(b, m, p, C, U, R)
  /\ ~anyChange => /\ Repairable(b, o, repairDrift) = {} /\ b.topologyDigest = d.topologyDigest
                   /\ computeMissingResources(b.networks, o, o.networks) = {}

\* The domains that the parts of a plan are taken from.
LEMMA PlanDomains ==
  ASSUME NEW c, NEW m, NEW o, NEW repairDrift, NEW b, NEW d, NEW p,
         Planned(c, m, o, repairDrift, b, d, p)
  PROVE  /\ DOMAIN b.units \subseteq Units /\ DOMAIN d.units = RenderedUnits(m)
         /\ RenderedUnits(m) \subseteq Units /\ d.enabled = Enabled(m)
         /\ d.volumes \subseteq Services
         /\ b.networks \cup d.networks \subseteq {"hof"} \cup Services
<1>1. /\ c.manifest \in Manifests /\ m \in Manifests
      /\ b = resolveBaseline(c) /\ d = topologyToServiceState(m)
  BY DEF Planned
<1>2. d.enabled = Enabled(m) /\ DOMAIN d.units = RenderedUnits(m) /\ d.volumes = Enabled(m) \cap WithVolume
      /\ d.networks = Networks(m)
  BY <1>1 DEF topologyToServiceState
<1>3. \A x : Networks(x) \subseteq {"hof"} \cup Services
  BY CatalogAssumption DEF Networks
<1>4. DOMAIN b.units \subseteq Units
  BY <1>1, BaselineOfRecord
<1>5. b.networks \subseteq {"hof"} \cup Services
  <2>1. CASE c.generation = 0
    BY <1>1, <2>1 DEF resolveBaseline, emptyBaseline
  <2>2. CASE c.generation # 0
    BY <1>1, <1>3, <2>2 DEF resolveBaseline, appliedBaseline, topologyToServiceState
  <2> QED
    BY <2>1, <2>2
<1> QED
  BY <1>2, <1>3, <1>4, <1>5, CatalogAssumption DEF RenderedUnits

\* Every plan has such parts.
LEMMA PlanInParts ==
  ASSUME NEW c, NEW m, NEW o, NEW repairDrift \in BOOLEAN, NEW b, NEW d, NEW p,
         Planned(c, m, o, repairDrift, b, d, p)
  PROVE  \E anyChange \in BOOLEAN : \E V, W, C, U, R, N :
           PlanParts(m, o, repairDrift, b, d, p, anyChange, V, W, C, U, R, N)
<1>1. PICK drift : drift = computeDrift(b, o)
  OBVIOUS
<1>2. PICK missingNetworks : missingNetworks = computeMissingResources(b.networks, o, o.networks)
  OBVIOUS
<1>3. PICK diff : diff = diffUnits(b, d)
  OBVIOUS
<1>4. PICK create : create = diff.create
  OBVIOUS
<1>12. PICK remove : remove = diff.remove
  OBVIOUS
<1>13. /\ c.manifest \in Manifests /\ m \in Manifests
       /\ b = resolveBaseline(c) /\ d = topologyToServiceState(m)
       /\ p = buildPlan(b, m, o, repairDrift)
  BY DEF Planned
<1>0. PICK repaired, withMissing, withManual, withGateway, imageChanged, needing, update :
        Decided(b, m, o, repairDrift, p, d, repaired, withMissing, withManual, withGateway,
                imageChanged, needing, update)
  BY <1>13, PlanDecides
<1>5. repaired = Repairable(b, o, repairDrift)
  BY <1>0 DEF Decided, Repairable
<1>6. withMissing = foldRepairs("missing", d, drift, create, diff.update)
  BY <1>0, <1>1, <1>3, <1>4 DEF Decided
<1>7. withManual = IF repairDrift THEN foldRepairs("manual-change", d, drift, create, withMissing)
                                  ELSE withMissing
  BY <1>0, <1>1, <1>3, <1>4 DEF Decided
<1>8. withGateway = foldGatewayRestartForCaddyfile(d, repaired, create, withManual)
  BY <1>0, <1>3, <1>4 DEF Decided
<1>9. imageChanged = {e.unit : e \in {f \in ToSet(create \o withGateway) : f.imageChanged}}
  BY <1>0, <1>3, <1>4 DEF Decided
<1>10. needing = servicesNeedingMigration(b, d, imageChanged)
  BY <1>0 DEF Decided
<1>11. update = foldMigrationOnlyIntoUpdates(d, needing, create, withGateway)
  BY <1>0, <1>3, <1>4 DEF Decided
<1>14. /\ p.mode = b.mode /\ p.manifest = m /\ p.generation = b.generation + 1
       /\ p.retained = computeRetainedServices(b, m, remove, create)
       /\ p.secrets = scopedSecretNames(b, m, create \o update)
       /\ p.operations = buildOperations(b, d, create, update, remove, needing, missingNetworks, repaired)
  BY <1>0, <1>2, <1>3, <1>4, <1>12 DEF Decided
<1>15. /\ DOMAIN b.units \subseteq Units /\ DOMAIN d.units = RenderedUnits(m)
       /\ RenderedUnits(m) \subseteq Units /\ d.enabled = Enabled(m)
       /\ d.volumes \subseteq Services
       /\ b.networks \cup d.networks \subseteq {"hof"} \cup Services
  BY PlanDomains
<1>16. PICK C : C = TouchedUnits(create)
  OBVIOUS
<1>17. PICK U : U = TouchedUnits(update)
  OBVIOUS
<1>18. PICK R : R = TouchedUnits(remove)
  OBVIOUS
<1>19. /\ Distinct(create) /\ Distinct(diff.update) /\ Distinct(remove)
       /\ C = DOMAIN d.units \ DOMAIN b.units /\ R = DOMAIN b.units \ DOMAIN d.units
       /\ TouchedUnits(diff.update) =
            {u \in DOMAIN d.units \cap DOMAIN b.units :
               d.units[u].configFingerprint # b.units[u].configFingerprint}
  <2>1. DOMAIN b.units \subseteq Units /\ DOMAIN d.units \subseteq Units
    BY <1>15
  <2> QED
    BY <1>3, <1>4, <1>12, <1>16, <1>18, <2>1, DiffInDetail
<1>20. needing \subseteq Persistent \cap d.enabled
  BY <1>10 DEF servicesNeedingMigration
<1>21. \A s \in needing : DbUnit[s] \in DOMAIN d.units
  BY <1>15, <1>20, CatalogAssumption DEF RenderedUnits
<1>22. Grown(create, diff.update, diff.update, d)
  BY <1>16, <1>19 DEF Grown, Apart
<1>23. FoldsGive(d, create, diff.update, drift, repairDrift, needing, update)
  <2>1. DOMAIN d.units \subseteq Units
    BY <1>15
  <2>2. Folds(d, create, diff.update, drift, repairDrift, repaired, needing, withMissing, withManual,
              withGateway, update)
    BY <1>6, <1>7, <1>8, <1>11, <1>19, <1>21, <1>22, <2>1 DEF Folds
  <2> QED
    BY ONLY <2>2, UpdatesInParts
<1>24. \A s \in (Persistent \cap d.enabled) \ needing :
         IF s \in b.enabled THEN b.schemaVersion[s] = d.schemaVersion[s]
                            ELSE b.retained[s] # 0 /\ b.retained[s] = d.schemaVersion[s]
  BY <1>10 DEF servicesNeedingMigration
<1>25. UpdatesFit(b, d, drift, repairDrift, C, U, needing)
  BY <1>16, <1>17, <1>19, <1>20, <1>23, <1>24 DEF UpdatesFit, Grown, Apart, FoldsGive
<1>26. DocumentFits(b, m, p, C, U, R)
  <2>0. IsSeq(create) /\ IsSeq(update)
    BY <1>19, <1>23 DEF Grown, Distinct, FoldsGive
  <2>1. /\ TouchedUnits(create \o update) = C \cup U
        /\ ServicesOf(create) = {ServiceOf[u] : u \in C} /\ ServicesOf(remove) = {ServiceOf[u] : u \in R}
    <3>1. ServicesOf(create) = {ServiceOf[u] : u \in C}
      BY <1>16 DEF ServicesOf
    <3>2. ServicesOf(remove) = {ServiceOf[u] : u \in R}
      BY <1>18 DEF ServicesOf
    <3>3. TouchedUnits(create \o update) = C \cup U
      BY <1>16, <1>17, <2>0, ConcatTouches
    <3> QED
      BY <3>1, <3>2, <3>3
  <2>2. p.secrets = IF b.mode = "bootstrap" THEN requiredSecrets(m)
                                           ELSE UNION {secretsOf(u, m) : u \in C \cup U}
    BY <1>14, <2>1 DEF scopedSecretNames
  <2>3. p.retained = [s \in Persistent |->
                       CASE s \in {ServiceOf[u] : u \in C} -> 0
                         [] s \in {ServiceOf[u] : u \in R} /\ s \in m.retain -> b.schemaVersion[s]
                         [] OTHER -> b.retained[s]]
    BY <1>14, <2>1 DEF computeRetainedServices
  <2> QED
    BY <1>14, <2>2, <2>3 DEF DocumentFits
<1>27. Distinct(create \o update) /\ TouchedUnits(create \o update) = C \cup U
  <2>1. Distinct(create) /\ Distinct(update) /\ TouchedUnits(create) \cap TouchedUnits(update) = {}
    BY <1>19, <1>23 DEF Grown, Apart, FoldsGive
  <2> QED
    BY <1>16, <1>17, <2>1, ConcatDistinct
<1>28. PICK anyChange \in BOOLEAN :
         anyChange <=> \/ (create \o update) \o remove # << >> \/ needing # {} \/ repaired # {}
                       \/ b.topologyDigest # d.topologyDigest \/ missingNetworks # {}
  OBVIOUS
<1>29. PICK V : V = d.volumes \ b.volumes
  OBVIOUS
<1>30. PICK W : W = missingNetworks \cup (d.networks \ b.networks)
  OBVIOUS
<1>31. PICK bootstrap \in BOOLEAN : bootstrap <=> b.mode = "bootstrap"
  OBVIOUS
<1>32. PICK K : K = TouchedUnits(Pick(create \o update,
                       {i \in DOMAIN (create \o update) : (create \o update)[i].imageChanged}))
  OBVIOUS
<1>33. Asks(p, bootstrap, anyChange, V, W, C, U, R, needing)
  <2>1. /\ IsSeq(create) /\ IsSeq(update) /\ IsSeq(remove) /\ Distinct(create \o update)
        /\ needing \subseteq Services /\ d.volumes \subseteq Services
        /\ missingNetworks \cup d.networks \subseteq {"hof"} \cup Services
        /\ p.operations = buildOperations(b, d, create, update, remove, needing, missingNetworks, repaired)
        /\ anyChange \in BOOLEAN
        /\ anyChange <=> \/ (create \o update) \o remove # << >> \/ needing # {} \/ repaired # {}
                         \/ b.topologyDigest # d.topologyDigest \/ missingNetworks # {}
    <3>1. missingNetworks \subseteq b.networks
      BY <1>2 DEF computeMissingResources
    <3> QED
      BY <1>14, <1>15, <1>19, <1>20, <1>23, <1>27, <1>28, <3>1, CatalogAssumption
         DEF Distinct, Grown, FoldsGive
  <2>2. PICK all : all = p.operations
    OBVIOUS
  <2>3. Ordered(all, 1, 11) /\ StartsInOrder(all)
    BY ONLY <2>1, <2>2, OperationsInOrder
  <2>4. AskedFor(all, b, d, create, update, remove, needing, missingNetworks, anyChange)
    BY ONLY <2>1, <2>2, OperationsInOrder
  <2>5. PICK T : T = C \cup U
    OBVIOUS
  <2>6. ToSet(all) =
              {o_ \in {Operation("host.prepare", "host")} : anyChange /\ bootstrap}
                \cup {o_ \in {Operation("secret.ensure", "secrets.sops.yaml")} : anyChange}
                \cup {Operation("volume.ensure", r) : r \in V}
                \cup {Operation("network.ensure", r) : r \in W}
                \cup {Operation(a, u) : a \in {"image.verify", "image.pull"}, u \in K}
                \cup {Operation("service.stop", u) : u \in U}
                \cup {Operation("service.stop", u) : u \in R}
                \cup {o_ \in {Operation("config.write", "compose.yml")} : anyChange}
                \cup {Operation("service.remove", u) : u \in R}
                \cup {Operation("database.migrate", r) : r \in needing}
                \cup {Operation(a, u) : a \in {"service.start", "readiness.wait"}, u \in T}
                \cup {o_ \in {Operation("state.commit", "state/current.json")} : anyChange}
    <3>1. TouchedUnits(create \o update) = T
      BY <1>27, <2>5
    <3> QED
      BY ONLY <1>17, <1>18, <1>29, <1>30, <1>31, <1>32, <2>4, <3>1 DEF AskedFor
  <2>7. AskedInSets(p, bootstrap, anyChange, V, W, K, T, U, R, needing)
    BY <2>2, <2>6 DEF AskedInSets
  <2>8. Ordered(p.operations, 1, 11) /\ StartsInOrder(p.operations)
    BY <2>2, <2>3
  <2> QED
    BY <2>5, <2>7, <2>8, AsksOneByOne
<1>34. ~anyChange => /\ Repairable(b, o, repairDrift) = {} /\ b.topologyDigest = d.topologyDigest
                     /\ computeMissingResources(b.networks, o, o.networks) = {}
  BY <1>2, <1>5, <1>28
<1>35. PlanParts(m, o, repairDrift, b, d, p, anyChange, V, W, C, U, R, needing)
  <2>1. Asks(p, b.mode = "bootstrap", anyChange, V, W, C, U, R, needing)
    BY <1>31, <1>33
  <2> QED
    BY <1>1, <1>2, <1>19, <1>25, <1>26, <1>29, <1>30, <1>34, <2>1 DEF PlanParts
<1> QED
  BY ONLY <1>35

\* What has been checked when nothing blocks a plan.
Unblocked(m, o, repairDrift, b, d) ==
  /\ b.mode = "applied" => o.docker = "available"
  /\ \A u : /\ [unit |-> u, kind |-> "unmanaged"] \notin computeDrift(b, o)
            /\ [unit |-> u, kind |-> "manual-change"] \in computeDrift(b, o) => repairDrift
  /\ \A e \in computeGeneratedDrift(b, o) :
       e.kind # "generated-unreadable" /\ (e.kind = "generated-modified" => repairDrift)
  /\ computeMissingResources(b.volumes, o, o.volumes) = {}
  /\ b.release = "none" \/ b.release = d.release
  /\ \A s \in Persistent \cap b.enabled \cap d.enabled : b.schemaVersion[s] = d.schemaVersion[s]
  /\ \A s \in (Persistent \cap d.enabled) \ b.enabled :
       b.retained[s] # 0 => b.retained[s] = d.schemaVersion[s]
  /\ \A u \in DOMAIN b.units \ DOMAIN d.units :
       ServiceOf[u] \in Persistent => ServiceOf[u] \in m.retain

\* computeBlockers(), computeUpgradeBlockers() and retainBlockers() report all of that.
LEMMA NothingBlocks ==
  ASSUME NEW c, NEW m, NEW o, NEW repairDrift \in BOOLEAN, NEW b, NEW d, NEW p,
         Planned(c, m, o, repairDrift, b, d, p), executable(p)
  PROVE  Unblocked(m, o, repairDrift, b, d)
<1>1. PICK diff : diff = diffUnits(b, d)
  OBVIOUS
<1>2. PICK drift : drift = computeDrift(b, o)
  OBVIOUS
<1>3. PICK generatedDrift : generatedDrift = computeGeneratedDrift(b, o)
  OBVIOUS
<1>4. PICK missingVolumes : missingVolumes = computeMissingResources(b.volumes, o, o.volumes)
  OBVIOUS
<1>5. \E needing, update :
        p.blockers = computeBlockers(b, o, drift, generatedDrift, missingVolumes, repairDrift,
                                     migrationBlockers(b, m, needing)
                                       \cup computeUpgradeBlockers(b, d, update)
                                       \cup retainBlockers(m, diff.remove))
  <2>1. d = topologyToServiceState(m) /\ p = buildPlan(b, m, o, repairDrift)
    BY DEF Planned
  <2>2. PICK repairable, withMissing, withManual, withGateway, imageChanged, needing, update :
          Decided(b, m, o, repairDrift, p, d, repairable, withMissing, withManual, withGateway,
                  imageChanged, needing, update)
    BY <2>1, PlanDecides
  <2>3. p.blockers = computeBlockers(b, o, drift, generatedDrift, missingVolumes, repairDrift,
                                     migrationBlockers(b, m, needing)
                                       \cup computeUpgradeBlockers(b, d, withGateway)
                                       \cup retainBlockers(m, diff.remove))
    BY <1>1, <1>2, <1>3, <1>4, <2>2 DEF Decided
  <2> QED
    BY ONLY <2>3
<1>6. PICK needing, update :
        p.blockers = computeBlockers(b, o, drift, generatedDrift, missingVolumes, repairDrift,
                                     migrationBlockers(b, m, needing)
                                       \cup computeUpgradeBlockers(b, d, update)
                                       \cup retainBlockers(m, diff.remove))
  BY <1>5
<1>7. PICK others : others = migrationBlockers(b, m, needing) \cup computeUpgradeBlockers(b, d, update)
                               \cup retainBlockers(m, diff.remove)
  OBVIOUS
<1>8. \A x : x \notin computeBlockers(b, o, drift, generatedDrift, missingVolumes, repairDrift, others)
  BY <1>6, <1>7 DEF executable
<1>9. \A x : x \notin others
  BY <1>8 DEF computeBlockers
<1>10. \A x : /\ x \notin computeUpgradeBlockers(b, d, update)
              /\ x \notin retainBlockers(m, diff.remove)
  BY <1>7, <1>9
<1>11. b.mode = "applied" => o.docker = "available"
  <2>1. <<"observation", "docker">> \notin
          computeBlockers(b, o, drift, generatedDrift, missingVolumes, repairDrift, others)
    BY <1>8
  <2> QED
    BY <2>1 DEF computeBlockers
<1>12. ASSUME NEW u
       PROVE  /\ [unit |-> u, kind |-> "unmanaged"] \notin drift
              /\ [unit |-> u, kind |-> "manual-change"] \in drift => repairDrift
  <2>1. <<"unmanaged", u>> \notin
          computeBlockers(b, o, drift, generatedDrift, missingVolumes, repairDrift, others)
    BY <1>8
  <2>2. <<"manual-change", u>> \notin
          computeBlockers(b, o, drift, generatedDrift, missingVolumes, repairDrift, others)
    BY <1>8
  <2> QED
    BY <2>1, <2>2 DEF computeBlockers
<1>13. ASSUME NEW e \in generatedDrift
       PROVE  e.kind # "generated-unreadable" /\ (e.kind = "generated-modified" => repairDrift)
  <2>1. <<e.kind, e.file>> \notin
          computeBlockers(b, o, drift, generatedDrift, missingVolumes, repairDrift, others)
    BY <1>8
  <2> QED
    BY <2>1 DEF computeBlockers
<1>14. \A v : v \notin missingVolumes
  <2> TAKE v
  <2>1. <<"missing volume", v>> \notin
          computeBlockers(b, o, drift, generatedDrift, missingVolumes, repairDrift, others)
    BY <1>8
  <2> QED
    BY <2>1 DEF computeBlockers
<1>15. b.release = "none" \/ b.release = d.release
  <2>1. <<"release", d.release>> \notin computeUpgradeBlockers(b, d, update)
    BY <1>10
  <2> QED
    BY <2>1 DEF computeUpgradeBlockers
<1>16. ASSUME NEW s \in Persistent \cap b.enabled \cap d.enabled
       PROVE  b.schemaVersion[s] = d.schemaVersion[s]
  <2>1. <<"schema", s>> \notin computeUpgradeBlockers(b, d, update)
    BY <1>10
  <2> QED
    BY <2>1 DEF computeUpgradeBlockers
<1>17. ASSUME NEW s \in (Persistent \cap d.enabled) \ b.enabled, b.retained[s] # 0
       PROVE  b.retained[s] = d.schemaVersion[s]
  <2>1. <<"retained schema", s>> \notin computeUpgradeBlockers(b, d, update)
    BY <1>10
  <2> QED
    BY <1>17, <2>1 DEF computeUpgradeBlockers
<1>18. ASSUME NEW u \in DOMAIN b.units \ DOMAIN d.units, ServiceOf[u] \in Persistent
       PROVE  ServiceOf[u] \in m.retain
  <2>1. DOMAIN b.units \subseteq Units /\ DOMAIN d.units \subseteq Units
    BY PlanDomains
  <2>2. TouchedUnits(diff.remove) = DOMAIN b.units \ DOMAIN d.units
    BY <1>1, <2>1, DiffInDetail
  <2>3. ServiceOf[u] \in ServicesOf(diff.remove)
    BY <2>2 DEF ServicesOf
  <2>4. <<"retain", ServiceOf[u]>> \notin retainBlockers(m, diff.remove)
    BY <1>10
  <2> QED
    BY <1>18, <2>3, <2>4 DEF retainBlockers
<1> QED
  BY <1>2, <1>3, <1>4, <1>11, <1>12, <1>13, <1>14, <1>15, <1>16, <1>17, <1>18 DEF Unblocked

\* The baseline b of the record c.
Recorded(c, b) ==
  /\ b.generation = c.generation
  /\ c.generation = 0 =>
       /\ b.mode = "bootstrap" /\ b.release = "none" /\ DOMAIN b.units = {} /\ b.enabled = {}
       /\ b.volumes = {} /\ b.networks = {} /\ \A s \in Persistent : b.retained[s] = 0
  /\ c.generation # 0 =>
       /\ b.mode = "applied" /\ b.release = c.manifest.release /\ b.release # "none"
       /\ DOMAIN b.units = RenderedUnits(c.manifest) /\ b.enabled = Enabled(c.manifest)
       /\ \A u \in RenderedUnits(c.manifest) :
            /\ b.units[u].image = c.manifest.release
            /\ b.units[u].configFingerprint = unitConfigFingerprint(u, c.manifest)
       /\ \A s \in Persistent \cap Enabled(c.manifest) :
            b.schemaVersion[s] = Schema[c.manifest.release][s].to
       /\ b.volumes = ExpectedVolumes(c) /\ b.networks = Networks(c.manifest)
       /\ b.retained = c.retained
       /\ b.topologyDigest = [enabled |-> Enabled(c.manifest), release |-> c.manifest.release,
                              backup |-> c.manifest.backup]
       /\ b.digests = [f \in Files |-> FileContents(f, c.manifest, c.generation)]

\* What m asks for.
Desired(m, d) ==
  /\ d.release = m.release /\ d.enabled = Enabled(m) /\ DOMAIN d.units = RenderedUnits(m)
  /\ \A u \in RenderedUnits(m) : d.units[u].configFingerprint = unitConfigFingerprint(u, m)
  /\ \A s \in Persistent \cap Enabled(m) : d.schemaVersion[s] = Schema[m.release][s].to
  /\ d.volumes = Enabled(m) \cap WithVolume /\ d.networks = Networks(m)
  /\ d.topologyDigest = [enabled |-> Enabled(m), release |-> m.release, backup |-> m.backup]

\* resolveBaseline() and topologyToServiceState(), field by field.
LEMMA PlannedFrom ==
  ASSUME NEW c, NEW m, NEW o, NEW repairDrift, NEW b, NEW d, NEW p,
         Planned(c, m, o, repairDrift, b, d, p)
  PROVE  Recorded(c, b) /\ Desired(m, d)
<1>1. /\ c.manifest \in Manifests /\ m \in Manifests
      /\ b = resolveBaseline(c) /\ d = topologyToServiceState(m)
  BY DEF Planned
<1>2. \A x \in Manifests : \A y : y = topologyToServiceState(x) =>
        /\ y.release = x.release /\ y.enabled = Enabled(x) /\ DOMAIN y.units = RenderedUnits(x)
        /\ \A u \in RenderedUnits(x) : /\ y.units[u].image = x.release
                                       /\ y.units[u].configFingerprint = unitConfigFingerprint(u, x)
        /\ \A s \in Persistent \cap Enabled(x) : y.schemaVersion[s] = Schema[x.release][s].to
        /\ y.volumes = Enabled(x) \cap WithVolume /\ y.networks = Networks(x)
        /\ y.topologyDigest = [enabled |-> Enabled(x), release |-> x.release, backup |-> x.backup]
  BY DEF topologyToServiceState
<1>3. Desired(m, d)
  BY <1>1, <1>2 DEF Desired
<1>4. CASE c.generation = 0
  <2>1. b = emptyBaseline
    BY <1>1, <1>4 DEF resolveBaseline
  <2>2. /\ b.generation = 0 /\ b.mode = "bootstrap" /\ b.release = "none" /\ b.units = << >> /\ b.enabled = {}
        /\ b.volumes = {} /\ b.networks = {} /\ \A s \in Persistent : b.retained[s] = 0
    BY <2>1 DEF emptyBaseline
  <2>3. DOMAIN b.units = {}
    BY <2>2
  <2> QED
    BY <1>3, <1>4, <2>2, <2>3 DEF Recorded
<1>5. CASE c.generation # 0
  <2>1. PICK state : state = topologyToServiceState(c.manifest)
    OBVIOUS
  <2>2. /\ b.mode = "applied" /\ b.generation = c.generation /\ b.release = state.release
        /\ b.enabled = state.enabled
        /\ b.units = state.units /\ b.volumes = ExpectedVolumes(c) /\ b.retained = c.retained
        /\ b.topologyDigest = state.topologyDigest /\ b.schemaVersion = state.schemaVersion
        /\ b.networks = state.networks
        /\ b.digests = [f \in Files |-> FileContents(f, c.manifest, c.generation)]
    BY <1>1, <1>5, <2>1 DEF resolveBaseline, appliedBaseline
  <2>3. /\ state.release = c.manifest.release /\ state.enabled = Enabled(c.manifest)
        /\ DOMAIN state.units = RenderedUnits(c.manifest)
        /\ \A u \in RenderedUnits(c.manifest) :
             /\ state.units[u].image = c.manifest.release
             /\ state.units[u].configFingerprint = unitConfigFingerprint(u, c.manifest)
        /\ \A s \in Persistent \cap Enabled(c.manifest) :
             state.schemaVersion[s] = Schema[c.manifest.release][s].to
        /\ state.networks = Networks(c.manifest)
        /\ state.topologyDigest = [enabled |-> Enabled(c.manifest), release |-> c.manifest.release,
                                   backup |-> c.manifest.backup]
    BY <1>1, <1>2, <2>1
  <2>4. c.manifest.release # "none"
    BY <1>1, ManifestAssumption, CatalogAssumption
  <2> QED
    BY <1>3, <1>5, <2>2, <2>3, <2>4 DEF Recorded
<1> QED
  BY <1>4, <1>5
=============================================================================
