-------------------------- MODULE SavedModels_proofs --------------------------
(***************************************************************************)
(* Proofs about SavedModels: the properties its runs check on a small      *)
(* instance, for any users, names and inputs and without any bound being   *)
(* small.                                                                  *)
(***************************************************************************)
EXTENDS SavedModels, FiniteSetTheorems, TLAPS

-----------------------------------------------------------------------------
(* The order of list_models has a first element.                           *)

\* A set of natural numbers that is not empty has a least element.
LEMMA NatMinimum ==
    ASSUME NEW T, T \subseteq Nat, T # {}
    PROVE  \E m \in T : \A n \in T : m <= n
<1> DEFINE R == {ss \in Nat \X Nat : ss[1] < ss[2]}
<1>1. IsWellFoundedOn(R, Nat)
  BY NatLessThanWellFounded, Zenon DEF OpToRel
<1>2. \E m \in T : \A n \in T : ~ (<<n, m>> \in R)
  <2> HIDE DEF R
  <2> QED BY <1>1, WFMin, Zenon
<1>3. PICK m \in T : \A n \in T : ~ (<<n, m>> \in R)
  BY <1>2
<1>4. ASSUME NEW n \in T PROVE m <= n
  <2>1. <<n, m>> \notin R
    BY <1>3
  <2>2. ~ (n < m)
    BY <2>1
  <2> QED BY <2>2
<1> QED BY <1>4

-----------------------------------------------------------------------------
(* The inductive invariant.                                                *)

\* BirthsDistinct is not inductive alone: a new model takes the number births,
\* which no stored model must have.
BirthsBelow == \A id \in DOMAIN models : models[id].birth < births

StoreInv == StoreTypeOK /\ HistoryWellFormed /\ BirthsDistinct /\ BirthsBelow

\* The same of any document: what a call has read is as good as what is stored.
Sound(ms) ==
    /\ Complete(ms)
    /\ DistinctBirths(ms)
    /\ \A id \in DOMAIN ms : WellFormed(ms[id]) /\ ms[id].birth < births

LEMMA StoreInvSound ==
    StoreInv <=> Sound(models) /\ births \in Nat /\ clock \in Nat
BY DEF StoreInv, StoreTypeOK, HistoryWellFormed, BirthsDistinct, BirthsBelow, Sound

\* A candidate id for a slug is an id.
LEMMA CandidatesAreIds ==
    ASSUME NEW slug \in Ids, NEW id \in Candidates(slug)
    PROVE  id \in Ids
BY SavedModelsAssumption DEF Candidates, Ids

\* A model has current inputs.
LEMMA CurrentInputs ==
    ASSUME NEW m \in SavedModel, m.versions # <<>>
    PROVE  Current(m).inputs \in Inputs
<1>1. m.versions \in Seq(Version)
  BY DEF SavedModel
<1>2. Current(m) \in Version
  BY <1>1 DEF Current
<1> QED BY <1>2 DEF Version

LEMMA StoreInitInv == StoreInit => StoreInv
BY DEF StoreInit, StoreInv, StoreTypeOK, HistoryWellFormed, BirthsDistinct, BirthsBelow,
       Complete, DistinctBirths

\* What create makes of the document it has read.
LEMMA CreatedModel ==
    ASSUME NEW ms, NEW name, NEW id, NEW inputs, NEW owner,
           CreateFrom(ms, name, id, inputs, owner)
    PROVE  /\ id \notin DOMAIN ms
           /\ DOMAIN models' = DOMAIN ms \cup {id}
           /\ \A i \in DOMAIN ms : models'[i] = ms[i]
           /\ models'[id] = NewModel(name, inputs, owner)
           /\ births' = births + 1
           /\ clock' = clock
BY DEF CreateFrom, StoreIn, IsUniqueId

LEMMA CreateFromInv ==
    ASSUME NEW ms, Sound(ms), births \in Nat, clock \in Nat,
           NEW name \in Ids, NEW id \in Ids, NEW inputs \in Inputs, NEW owner \in Owners,
           CreateFrom(ms, name, id, inputs, owner)
    PROVE  StoreInv'
<1> DEFINE v == [version |-> 1, saved_at |-> clock, inputs |-> inputs]
           new == NewModel(name, inputs, owner)
<1>1. /\ id \notin DOMAIN ms
      /\ DOMAIN models' = DOMAIN ms \cup {id}
      /\ \A i \in DOMAIN ms : models'[i] = ms[i]
      /\ models'[id] = new
      /\ births' = births + 1
      /\ clock' = clock
  BY CreatedModel
<1>2. v \in Version
  BY DEF Version
<1>3. <<v>> \in Seq(Version) /\ Len(<<v>>) = 1 /\ <<v>>[1] = v /\ <<v>> # <<>>
  BY <1>2
<1>4. /\ new \in SavedModel
      /\ new.versions = <<v>> /\ new.birth = births
      /\ new.created_at = clock /\ new.updated_at = clock
  BY <1>3 DEF SavedModel, NewModel
<1>5. v.version = 1 /\ v.saved_at = clock
  OBVIOUS
<1> HIDE DEF new, v
<1>6. StoreTypeOK'
  BY <1>1, <1>3, <1>4 DEF Sound, StoreTypeOK, Complete
<1>7. HistoryWellFormed'
  <2>1. \A i \in DOMAIN ms : WellFormed(models[i])'
    BY <1>1 DEF Sound, WellFormed, Current
  <2>2. WellFormed(models[id])'
    BY <1>1, <1>3, <1>4, <1>5 DEF WellFormed, Current
  <2> QED BY <1>1, <2>1, <2>2 DEF HistoryWellFormed
<1>8. BirthsDistinct' /\ BirthsBelow'
  <2>1. \A i \in DOMAIN ms : ms[i].birth \in Nat /\ ms[i].birth < births
    BY DEF Sound, Complete, SavedModel
  <2> QED BY <1>1, <1>4, <2>1 DEF Sound, DistinctBirths, BirthsDistinct, BirthsBelow
<1> QED BY <1>6, <1>7, <1>8 DEF StoreInv

LEMMA CreateInv ==
    ASSUME StoreInv,
           NEW name \in Ids, NEW id \in Ids, NEW inputs \in Inputs, NEW owner \in Owners,
           Create(name, id, inputs, owner)
    PROVE  StoreInv'
BY StoreInvSound, CreateFromInv DEF Create

\* A model with one more version is a model, and has lost nothing.
LEMMA RevisedModel ==
    ASSUME clock \in Nat, NEW m \in SavedModel, m.versions # <<>>, NEW inputs \in Inputs
    PROVE  /\ Revised(m, inputs) \in SavedModel
           /\ Revised(m, inputs).versions # <<>>
           /\ Revised(m, inputs).versions
                 = Append(m.versions, [version |-> Current(m).version + 1,
                                       saved_at |-> clock, inputs |-> inputs])
           /\ Revised(m, inputs).updated_at = clock
           /\ Revised(m, inputs).name = m.name
           /\ Revised(m, inputs).owner = m.owner
           /\ Revised(m, inputs).birth = m.birth
           /\ Revised(m, inputs).created_at = m.created_at
<1> DEFINE v == [version |-> Current(m).version + 1, saved_at |-> clock, inputs |-> inputs]
           w == [m EXCEPT !.updated_at = clock, !.versions = Append(m.versions, v)]
<1>1. m.versions \in Seq(Version) /\ m.versions # <<>>
  BY DEF SavedModel
<1>2. Current(m) \in Version
  BY <1>1 DEF Current
<1>3. v \in Version
  BY <1>1, <1>2 DEF Version
<1>4. Append(m.versions, v) \in Seq(Version) /\ Append(m.versions, v) # <<>>
  BY <1>1, <1>3
<1>5. Revised(m, inputs) = w
  BY DEF Revised
<1> HIDE DEF v
<1>6. /\ w \in SavedModel /\ w.versions = Append(m.versions, v)
      /\ w.updated_at = clock /\ w.name = m.name /\ w.owner = m.owner
      /\ w.birth = m.birth /\ w.created_at = m.created_at
  BY <1>1, <1>4 DEF SavedModel
<1> HIDE DEF w
<1>7. Revised(m, inputs).versions # <<>>
  BY <1>4, <1>5, <1>6
<1> QED BY <1>5, <1>6, <1>7 DEF v

LEMMA RevisedWellFormed ==
    ASSUME clock \in Nat, NEW m \in SavedModel, m.versions # <<>>, WellFormed(m),
           NEW inputs \in Inputs
    PROVE  WellFormed(Revised(m, inputs))
<1> DEFINE n == Len(m.versions)
           v == [version |-> Current(m).version + 1, saved_at |-> clock, inputs |-> inputs]
           w == Revised(m, inputs)
<1>1. m.versions \in Seq(Version) /\ m.versions # <<>>
  BY DEF SavedModel
<1>2. /\ n \in Nat \ {0}
      /\ Len(Append(m.versions, v)) = n + 1
      /\ Append(m.versions, v)[n + 1] = v
      /\ \A k \in 1 .. n : Append(m.versions, v)[k] = m.versions[k]
  BY <1>1
<1>3. /\ w.versions = Append(m.versions, v)
      /\ w.updated_at = clock
      /\ w.created_at = m.created_at
  BY RevisedModel
<1>4. /\ \A k \in 1 .. n : m.versions[k].version = k
      /\ \A k \in 1 .. n - 1 : m.versions[k].saved_at <= m.versions[k + 1].saved_at
      /\ m.created_at = m.versions[1].saved_at
      /\ m.updated_at = m.versions[n].saved_at
      /\ m.updated_at <= clock
  BY DEF WellFormed, Current
<1>5. v.version = n + 1 /\ v.saved_at = clock
  BY <1>2, <1>4 DEF Current
<1> HIDE DEF v, w
<1>6. \A k \in 1 .. n + 1 : w.versions[k].version = k
  BY <1>2, <1>3, <1>4, <1>5
<1>7. \A k \in 1 .. n : w.versions[k].saved_at <= w.versions[k + 1].saved_at
  <2> SUFFICES ASSUME NEW k \in 1 .. n
               PROVE  w.versions[k].saved_at <= w.versions[k + 1].saved_at
    OBVIOUS
  <2>1. CASE k = n
    BY <2>1, <1>2, <1>3, <1>4, <1>5
  <2>2. CASE k # n
    <3>1. k \in 1 .. n - 1 /\ k + 1 \in 1 .. n
      BY <2>2, <1>2
    <3>2. w.versions[k] = m.versions[k] /\ w.versions[k + 1] = m.versions[k + 1]
      BY <3>1, <1>2, <1>3
    <3> QED BY <3>1, <3>2, <1>4
  <2> QED BY <2>1, <2>2
<1>8. w.created_at = w.versions[1].saved_at
  BY <1>2, <1>3, <1>4
<1>9. /\ Len(w.versions) = n + 1 /\ Len(w.versions) - 1 = n
      /\ Current(w).saved_at = clock
  BY <1>2, <1>3, <1>5 DEF Current
<1> HIDE DEF n
<1>10. \A k \in 1 .. Len(w.versions) : w.versions[k].version = k
  BY <1>6, <1>9
<1>11. \A k \in 1 .. Len(w.versions) - 1 :
          w.versions[k].saved_at <= w.versions[k + 1].saved_at
  BY <1>7, <1>9
<1>12. w.updated_at = Current(w).saved_at /\ w.updated_at <= clock
  BY <1>3, <1>9
<1>13. WellFormed(w)
  BY <1>8, <1>10, <1>11, <1>12 DEF WellFormed
<1> QED BY <1>13 DEF w

\* What update makes of the document it has read.
LEMMA UpdatedModel ==
    ASSUME NEW ms, NEW id, NEW inputs, UpdateFrom(ms, id, inputs)
    PROVE  /\ id \in DOMAIN ms
           /\ DOMAIN models' = DOMAIN ms
           /\ \A i \in DOMAIN ms \ {id} : models'[i] = ms[i]
           /\ models'[id] = Revised(ms[id], inputs)
           /\ births' = births
           /\ clock' = clock
BY DEF UpdateFrom, StoreIn

LEMMA UpdateFromInv ==
    ASSUME NEW ms, Sound(ms), births \in Nat, clock \in Nat,
           NEW id, NEW inputs \in Inputs, UpdateFrom(ms, id, inputs)
    PROVE  StoreInv'
<1> DEFINE w == Revised(ms[id], inputs)
<1>1. /\ id \in DOMAIN ms
      /\ DOMAIN models' = DOMAIN ms
      /\ \A i \in DOMAIN ms \ {id} : models'[i] = ms[i]
      /\ models'[id] = w
      /\ births' = births
      /\ clock' = clock
  BY UpdatedModel
<1>2. ms[id] \in SavedModel /\ ms[id].versions # <<>> /\ WellFormed(ms[id])
  BY <1>1 DEF Sound, Complete
<1>3. w \in SavedModel /\ w.versions # <<>> /\ w.birth = ms[id].birth /\ WellFormed(w)
  BY <1>2, RevisedModel, RevisedWellFormed
<1> HIDE DEF w
<1>4. StoreTypeOK'
  BY <1>1, <1>3 DEF Sound, StoreTypeOK, Complete
<1>5. HistoryWellFormed'
  <2>1. \A i \in DOMAIN ms : WellFormed(models'[i])
    BY <1>1, <1>3 DEF Sound
  <2> QED BY <1>1, <2>1 DEF HistoryWellFormed, WellFormed, Current
<1>6. BirthsDistinct' /\ BirthsBelow'
  <2>1. \A i \in DOMAIN ms : models'[i].birth = ms[i].birth
    BY <1>1, <1>3
  <2> QED BY <2>1, <1>1 DEF Sound, DistinctBirths, BirthsDistinct, BirthsBelow
<1> QED BY <1>4, <1>5, <1>6 DEF StoreInv

LEMMA UpdateInv ==
    ASSUME StoreInv, NEW id, NEW inputs \in Inputs, Update(id, inputs)
    PROVE  StoreInv'
BY StoreInvSound, UpdateFromInv DEF Update

LEMMA CloneInv ==
    ASSUME StoreInv, NEW source, NEW owner \in Owners,
           NEW id \in Candidates(Append(models[source].name, Copy)),
           Clone(source, id, owner)
    PROVE  StoreInv'
<1> DEFINE m == models[source]
<1>1. source \in DOMAIN models /\ m \in SavedModel /\ m.versions # <<>>
  BY DEF Clone, StoreInv, StoreTypeOK, Complete
<1>2. Append(m.name, Copy) \in Ids
  BY <1>1, SavedModelsAssumption DEF SavedModel, Ids
<1>3. id \in Ids
  BY <1>2, CandidatesAreIds
<1>4. Current(m).inputs \in Inputs
  BY <1>1, CurrentInputs
<1>5. CloneOwner(m, owner) \in Owners
  BY <1>1 DEF SavedModel, CloneOwner
<1>6. Create(Append(m.name, Copy), id, Current(m).inputs, CloneOwner(m, owner))
  BY DEF Clone
<1> QED BY <1>2, <1>3, <1>4, <1>5, <1>6, CreateInv

LEMMA DeleteFromInv ==
    ASSUME NEW ms, Sound(ms), births \in Nat, clock \in Nat, NEW id, DeleteFrom(ms, id)
    PROVE  StoreInv'
<1>1. /\ DOMAIN models' = DOMAIN ms \ {id}
      /\ \A i \in DOMAIN models' : models'[i] = ms[i]
      /\ births' = births
      /\ clock' = clock
  BY DEF DeleteFrom
<1>2. StoreTypeOK'
  BY <1>1 DEF Sound, StoreTypeOK, Complete
<1>3. HistoryWellFormed'
  BY <1>1 DEF Sound, HistoryWellFormed, WellFormed, Current
<1>4. BirthsDistinct' /\ BirthsBelow'
  BY <1>1 DEF Sound, BirthsDistinct, DistinctBirths, BirthsBelow
<1> QED BY <1>2, <1>3, <1>4 DEF StoreInv

LEMMA DeleteInv ==
    ASSUME StoreInv, NEW id, Delete(id)
    PROVE  StoreInv'
BY StoreInvSound, DeleteFromInv DEF Delete

LEMMA TickInv ==
    ASSUME StoreInv, Tick
    PROVE  StoreInv'
<1>1. models' = models /\ births' = births /\ clock \in Nat /\ clock' = clock + 1
  BY DEF Tick, StoreInv, StoreTypeOK
<1>2. StoreTypeOK'
  BY <1>1 DEF StoreInv, StoreTypeOK, Complete
<1>3. HistoryWellFormed'
  <2>1. \A i \in DOMAIN models : models[i].updated_at \in Nat
    BY DEF StoreInv, StoreTypeOK, Complete, SavedModel
  <2> QED BY <1>1, <2>1 DEF StoreInv, HistoryWellFormed, WellFormed, Current
<1>4. BirthsDistinct' /\ BirthsBelow'
  BY <1>1 DEF StoreInv, BirthsDistinct, DistinctBirths, BirthsBelow
<1> QED BY <1>2, <1>3, <1>4 DEF StoreInv

LEMMA StoreNextInv == StoreInv /\ [StoreNext]_storeVars => StoreInv'
<1> SUFFICES ASSUME StoreInv, [StoreNext]_storeVars PROVE StoreInv'
  OBVIOUS
<1>1. ASSUME NEW name \in Names, NEW inputs \in Inputs, NEW owner \in Owners,
             NEW id \in Candidates(name), Create(name, id, inputs, owner)
      PROVE  StoreInv'
  <2>1. name \in Ids
    BY SavedModelsAssumption DEF Ids
  <2> QED BY <1>1, <2>1, CandidatesAreIds, CreateInv
<1>2. ASSUME NEW id \in DOMAIN models, NEW inputs \in Inputs, Update(id, inputs)
      PROVE  StoreInv'
  BY <1>2, UpdateInv
<1>3. ASSUME NEW source \in DOMAIN models, NEW owner \in Owners,
             NEW id \in Candidates(Append(models[source].name, Copy)),
             Clone(source, id, owner)
      PROVE  StoreInv'
  BY <1>3, CloneInv
<1>4. ASSUME NEW id \in DOMAIN models, Delete(id) PROVE StoreInv'
  BY <1>4, DeleteInv
<1>5. CASE Tick
  BY <1>5, TickInv
<1>6. CASE UNCHANGED storeVars
  BY <1>6 DEF storeVars, StoreInv, StoreTypeOK, Complete, HistoryWellFormed, WellFormed,
              Current, BirthsDistinct, DistinctBirths, BirthsBelow
<1> QED BY <1>1, <1>2, <1>3, <1>4, <1>5, <1>6 DEF StoreNext

\* StoreInv holds in every behaviour of the store.
THEOREM StoreInvariant == StoreSpec => []StoreInv
<1>1. StoreInit => StoreInv
  BY StoreInitInv
<1>2. StoreInv /\ [StoreNext]_storeVars => StoreInv'
  BY StoreNextInv
<1> QED BY <1>1, <1>2, PTL DEF StoreSpec

\* Every stored model is complete and has a current version.
THEOREM StoreTypeCorrect == StoreSpec => []StoreTypeOK
<1>1. StoreInv => StoreTypeOK
  BY DEF StoreInv
<1> QED BY <1>1, StoreInvariant, PTL

\* The version history of every stored model is a gapless audit trail.
THEOREM StoreHistory == StoreSpec => []HistoryWellFormed
<1>1. StoreInv => HistoryWellFormed
  BY DEF StoreInv
<1> QED BY <1>1, StoreInvariant, PTL

\* No two stored models share their place in the dict.
THEOREM StoreOrder == StoreSpec => []BirthsDistinct
<1>1. StoreInv => BirthsDistinct
  BY DEF StoreInv
<1> QED BY <1>1, StoreInvariant, PTL

-----------------------------------------------------------------------------
(* There is always an id for a new model.                                  *)

\* A slug and its first suffixes cannot all be taken: each of the models that
\* took them was one more insertion.
LEMMA SomeSuffixFree ==
    ASSUME StoreInv, births <= MaxBirths, NEW slug \in Ids, slug \in DOMAIN models
    PROVE  \E n \in 2 .. MaxBirths + 1 : Append(slug, n) \notin DOMAIN models
<1> SUFFICES ASSUME \A n \in 2 .. MaxBirths + 1 : Append(slug, n) \in DOMAIN models
             PROVE  FALSE
  OBVIOUS
<1> DEFINE id(n) == IF n = 1 THEN slug ELSE Append(slug, n)
           taken == 1 .. MaxBirths + 1
           places == 0 .. MaxBirths - 1
           place == [n \in taken |-> models[id(n)].birth]
<1>1. MaxBirths \in Nat /\ births \in Nat
  BY SavedModelsAssumption DEF StoreInv, StoreTypeOK
<1>2. \A n \in taken : id(n) \in DOMAIN models
  <2> SUFFICES ASSUME NEW n \in taken PROVE id(n) \in DOMAIN models
    OBVIOUS
  <2>1. n = 1 \/ n \in 2 .. MaxBirths + 1
    BY <1>1
  <2> QED BY <2>1
<1>3. \A j, k \in taken : id(j) = id(k) => j = k
  <2>1. \A n \in taken : n \in Nat
    BY <1>1
  <2>2. \A n \in Nat : Append(slug, n) \in Seq(Nat) /\ Append(slug, n)[Len(slug) + 1] = n
    BY DEF Ids
  <2>3. \A n \in Nat : Append(slug, n) # slug
    BY DEF Ids
  <2> QED BY <2>1, <2>2, <2>3
<1>4. place \in [taken -> places]
  <2> SUFFICES ASSUME NEW n \in taken PROVE models[id(n)].birth \in places
    OBVIOUS
  <2>1. models[id(n)].birth \in Nat /\ models[id(n)].birth < births
    BY <1>2 DEF StoreInv, StoreTypeOK, Complete, SavedModel, BirthsBelow
  <2> HIDE DEF id
  <2> QED BY <1>1, <2>1
<1>5. /\ IsFiniteSet(taken) /\ IsFiniteSet(places)
      /\ Cardinality(places) < Cardinality(taken)
  <2>1. IsFiniteSet(taken) /\ Cardinality(taken) = MaxBirths + 1
    BY <1>1, FS_Interval
  <2>2. IsFiniteSet(places) /\ Cardinality(places) = MaxBirths
    BY <1>1, FS_Interval
  <2> QED BY <1>1, <2>1, <2>2
<1>6. PICK j, k \in taken : j # k /\ place[j] = place[k]
  <2> HIDE DEF taken, places, place
  <2> QED BY <1>4, <1>5, FS_PigeonHole
<1>7. models[id(j)].birth = models[id(k)].birth
  BY <1>6
<1>8. id(j) = id(k)
  <2> HIDE DEF id
  <2> QED BY <1>2, <1>7 DEF StoreInv, BirthsDistinct, DistinctBirths
<1> QED BY <1>3, <1>6, <1>8

\* The search for an id ends with one, and with no other.
LEMMA UniqueIdFound ==
    ASSUME StoreInv, births <= MaxBirths, NEW slug \in Ids
    PROVE  \E id \in Candidates(slug) :
              \A other \in Candidates(slug) : IsUniqueId(models, slug, other) <=> other = id
<1>1. CASE slug \notin DOMAIN models
  BY <1>1 DEF Candidates, IsUniqueId
<1>2. CASE slug \in DOMAIN models
  <2> DEFINE free == {n \in 2 .. MaxBirths + 1 : Append(slug, n) \notin DOMAIN models}
  <2>1. MaxBirths \in Nat /\ free \subseteq Nat
    BY SavedModelsAssumption
  <2>2. PICK m \in free : \A n \in free : m <= n
    BY <1>2, <2>1, SomeSuffixFree, NatMinimum
  <2>3. m \in 2 .. MaxBirths + 1 /\ Append(slug, m) \notin DOMAIN models
    OBVIOUS
  <2>4. \A k \in 2 .. m - 1 : Append(slug, k) \in DOMAIN models
    BY <2>1, <2>2, <2>3
  <2>5. IsUniqueId(models, slug, Append(slug, m))
    BY <1>2, <2>3, <2>4 DEF IsUniqueId
  <2>6. ASSUME NEW other, IsUniqueId(models, slug, other) PROVE other = Append(slug, m)
    <3>1. PICK n \in 2 .. MaxBirths + 1 :
             /\ other = Append(slug, n)
             /\ \A k \in 2 .. n - 1 : Append(slug, k) \in DOMAIN models
      BY <1>2, <2>6 DEF IsUniqueId
    <3>2. n \in free
      BY <2>6, <3>1 DEF IsUniqueId
    <3>3. m <= n /\ ~ (m < n)
      BY <2>1, <2>2, <2>3, <3>1, <3>2
    <3>4. m = n
      BY <2>1, <2>3, <3>1, <3>3
    <3> QED BY <3>1, <3>4
  <2>7. Append(slug, m) \in Candidates(slug)
    BY <2>3 DEF Candidates
  <2> QED BY <2>5, <2>6, <2>7
<1> QED BY <1>1, <1>2

\* No more models are created than the bound allows.
LEMMA BirthsBounded ==
    ASSUME StoreInv, births <= MaxBirths, [StoreNext]_storeVars
    PROVE  births' <= MaxBirths
<1>1. births \in Nat /\ MaxBirths \in Nat
  BY SavedModelsAssumption DEF StoreInv, StoreTypeOK
<1>2. births' = births \/ (births < MaxBirths /\ births' = births + 1)
  BY DEF StoreNext, Create, CreateFrom, Update, UpdateFrom, Clone, Delete, DeleteFrom, Tick,
         storeVars
<1> QED BY <1>1, <1>2

\* Whatever has been created, cloned and deleted, the next model gets an id.
THEOREM StoreIdAlwaysFree == StoreSpec => []IdAlwaysFree
<1> DEFINE Inv == StoreInv /\ births <= MaxBirths
<1>1. StoreInit => Inv
  BY SavedModelsAssumption, StoreInitInv DEF StoreInit
<1>2. Inv /\ [StoreNext]_storeVars => Inv'
  BY StoreNextInv, BirthsBounded
<1>3. Inv => IdAlwaysFree
  <2> SUFFICES ASSUME StoreInv, births <= MaxBirths,
                      NEW slug \in Names \cup {Append(models[id].name, Copy) : id \in DOMAIN models}
               PROVE  \E id \in Candidates(slug) :
                         \A other \in Candidates(slug) :
                            IsUniqueId(models, slug, other) <=> other = id
    BY DEF IdAlwaysFree
  <2>1. CASE slug \in Names
    <3>1. slug \in Ids
      BY <2>1, SavedModelsAssumption DEF Ids
    <3> QED BY <3>1, UniqueIdFound
  <2>2. CASE slug \in {Append(models[id].name, Copy) : id \in DOMAIN models}
    <3>1. PICK id \in DOMAIN models : slug = Append(models[id].name, Copy)
      BY <2>2
    <3>2. models[id].name \in Seq(Nat)
      BY DEF StoreInv, StoreTypeOK, Complete, SavedModel, Ids
    <3>3. slug \in Ids
      BY <3>1, <3>2, SavedModelsAssumption DEF Ids
    <3> QED BY <3>3, UniqueIdFound
  <2> QED BY <2>1, <2>2
<1> HIDE DEF Inv
<1> QED BY <1>1, <1>2, <1>3, PTL DEF StoreSpec

-----------------------------------------------------------------------------
(* No operation writes over a model.                                       *)

LEMMA CreateKeeps ==
    ASSUME NEW name, NEW id, NEW inputs, NEW owner, Create(name, id, inputs, owner),
           NEW i \in DOMAIN models
    PROVE  models'[i] = models[i]
BY CreatedModel DEF Create

LEMMA RevisedPreserves ==
    ASSUME clock \in Nat, NEW m \in SavedModel, m.versions # <<>>, NEW inputs \in Inputs
    PROVE  Preserves(m, Revised(m, inputs))
<1> DEFINE v == [version |-> Current(m).version + 1, saved_at |-> clock, inputs |-> inputs]
<1>1. /\ Revised(m, inputs).birth = m.birth
      /\ Revised(m, inputs).name = m.name
      /\ Revised(m, inputs).owner = m.owner
      /\ Revised(m, inputs).created_at = m.created_at
      /\ Revised(m, inputs).versions = Append(m.versions, v)
  BY RevisedModel
<1>2. m.versions \in Seq(Version)
  BY DEF SavedModel
<1>3. /\ Len(m.versions) <= Len(Append(m.versions, v))
      /\ \A k \in 1 .. Len(m.versions) : Append(m.versions, v)[k] = m.versions[k]
  BY <1>2
<1> HIDE DEF v
<1> QED BY <1>1, <1>3 DEF Preserves

LEMMA UpdateGrows ==
    ASSUME StoreTypeOK, NEW id, NEW inputs \in Inputs, Update(id, inputs)
    PROVE  Preserves(models[id], models'[id])
<1>1. id \in DOMAIN models /\ models'[id] = Revised(models[id], inputs)
  BY UpdatedModel DEF Update
<1> QED BY <1>1, RevisedPreserves DEF StoreTypeOK, Complete

LEMMA Unchanged ==
    ASSUME StoreTypeOK, NEW i \in DOMAIN models, models'[i] = models[i]
    PROVE  Preserves(models[i], models'[i])
<1>1. Len(models[i].versions) \in Nat
  BY DEF StoreTypeOK, Complete, SavedModel
<1> QED BY <1>1 DEF Preserves

LEMMA StoreNextPreserves ==
    ASSUME StoreInv, [StoreNext]_storeVars, NEW i \in DOMAIN models \cap DOMAIN models'
    PROVE  Preserves(models[i], models'[i])
<1>1. StoreTypeOK
  BY DEF StoreInv
<1>2. ASSUME models'[i] = models[i] PROVE Preserves(models[i], models'[i])
  BY <1>1, <1>2, Unchanged
<1>3. ASSUME NEW name \in Names, NEW inputs \in Inputs, NEW owner \in Owners,
             NEW id \in Candidates(name), Create(name, id, inputs, owner)
      PROVE  models'[i] = models[i]
  BY <1>3, CreateKeeps
<1>4. ASSUME NEW id \in DOMAIN models, NEW inputs \in Inputs, Update(id, inputs)
      PROVE  Preserves(models[i], models'[i])
  <2>1. CASE i = id
    BY <1>1, <1>4, <2>1, UpdateGrows
  <2>2. CASE i # id
    <3>1. models'[i] = models[i]
      BY <1>4, <2>2, UpdatedModel DEF Update
    <3> QED BY <3>1, <1>2
  <2> QED BY <2>1, <2>2
<1>5. ASSUME NEW source \in DOMAIN models, NEW owner \in Owners,
             NEW id \in Candidates(Append(models[source].name, Copy)),
             Clone(source, id, owner)
      PROVE  models'[i] = models[i]
  BY <1>5, CreateKeeps DEF Clone
<1>6. ASSUME NEW id \in DOMAIN models, Delete(id)
      PROVE  models'[i] = models[i]
  BY <1>6 DEF Delete, DeleteFrom
<1>7. CASE Tick
  BY <1>2, <1>7 DEF Tick
<1>8. CASE UNCHANGED storeVars
  BY <1>2, <1>8 DEF storeVars
<1> QED BY <1>2, <1>3, <1>4, <1>5, <1>6, <1>7, <1>8 DEF StoreNext

\* As long as an id is stored it is the same model of the same owner, and its
\* history only grows at the end.
THEOREM StoreNothingOverwritten == StoreSpec => NothingOverwritten
<1>1. ASSUME StoreInv, [StoreNext]_storeVars
      PROVE  [\A id \in DOMAIN models \cap DOMAIN models' :
                 Preserves(models[id], models'[id])]_storeVars
  BY <1>1, StoreNextPreserves
<1> QED BY <1>1, StoreInvariant, PTL DEF StoreSpec, NothingOverwritten

-----------------------------------------------------------------------------
(* list_models: the first model of a list is one of the listed models.     *)

LEMMA FirstListedIsListed ==
    ASSUME StoreInv, NEW ids, ids \subseteq DOMAIN models, ids # {}
    PROVE  FirstListed(ids) \in ids
<1>1. \A a \in ids : /\ models[a].updated_at \in Nat
                     /\ models[a].birth \in Nat
                     /\ models[a].updated_at <= clock
  BY DEF StoreInv, StoreTypeOK, Complete, SavedModel, HistoryWellFormed, WellFormed
<1>2. clock \in Nat
  BY DEF StoreInv, StoreTypeOK
<1>3. PICK latest \in ids : \A b \in ids : models[b].updated_at <= models[latest].updated_at
  <2> DEFINE Ages == {clock - models[a].updated_at : a \in ids}
  <2>1. Ages \subseteq Nat /\ Ages # {}
    BY <1>1, <1>2
  <2>2. PICK age \in Ages : \A other \in Ages : age <= other
    BY <2>1, NatMinimum
  <2>3. PICK a \in ids : age = clock - models[a].updated_at
    BY <2>2
  <2>4. \A b \in ids : clock - models[a].updated_at <= clock - models[b].updated_at
    BY <2>2, <2>3
  <2>5. \A b \in ids : models[b].updated_at <= models[a].updated_at
    BY <1>1, <1>2, <2>4
  <2> QED BY <2>5
<1> DEFINE Latest == {a \in ids : models[a].updated_at = models[latest].updated_at}
           Births == {models[a].birth : a \in Latest}
<1>4. Births \subseteq Nat /\ Births # {}
  BY <1>1
<1>5. PICK first \in Births : \A other \in Births : first <= other
  BY <1>4, NatMinimum
<1>6. PICK a \in Latest : first = models[a].birth
  BY <1>5
<1>7. ASSUME NEW b \in ids \ {a} PROVE ListedBefore(a, b)
  <2>1. CASE b \in Latest
    <3>1. models[a].birth <= models[b].birth
      BY <1>5, <1>6, <2>1
    <3>2. models[a].birth # models[b].birth
      BY <1>7 DEF StoreInv, BirthsDistinct, DistinctBirths
    <3>3. models[a].birth < models[b].birth
      BY <1>1, <3>1, <3>2
    <3> QED BY <2>1, <3>3 DEF ListedBefore
  <2>2. CASE b \notin Latest
    <3>1. models[b].updated_at # models[latest].updated_at
      BY <2>2, <1>7
    <3>2. models[b].updated_at < models[latest].updated_at
      BY <1>1, <1>3, <1>7, <3>1
    <3> QED BY <1>1, <3>2 DEF ListedBefore
  <2> QED BY <2>1, <2>2
<1> HIDE DEF Births
<1> QED BY <1>7 DEF FirstListed
=============================================================================
