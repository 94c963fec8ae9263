----------------------------- MODULE SavedModels -----------------------------
(***************************************************************************)
(* The saved-models store of model/saved_models.py: ModelStore with its    *)
(* four mutations (create, update, clone, delete), the id it picks for a   *)
(* new model, the order of list_models, and the two pure ownership rules   *)
(* filter_visible_models and can_mutate.                                   *)
(*                                                                         *)
(* Every operation is one atomic step on the stored document: this module  *)
(* is what the store promises its callers.  The code reads the whole       *)
(* document and writes back what it has made of it; StoreIn, CreateFrom,   *)
(* UpdateFrom and DeleteFrom say what, given the document ms that was      *)
(* read, and here that is the document stored.  PolicyApp has the steps    *)
(* between the read and the write, for the application's sessions;         *)
(* JsonFile looks inside a read and a write.  A call that raises           *)
(* ModelStoreError leaves the document alone, so it is a step that is not  *)
(* enabled.                                                                *)
(*                                                                         *)
(* A slug is the sequence of its '-'-separated words; a word is a number,  *)
(* the numeric suffixes 2, 3, ... being themselves, so that the slug of a  *)
(* name ("plan-2") and a suffixed id ("plan" taken twice) can be equal, as *)
(* they can in the code.  The lever and assumption values of a version are *)
(* one value of Inputs.                                                    *)
(***************************************************************************)
EXTENDS Naturals, Sequences

CONSTANTS
    Users,        \* canonical user ids
    NoUser,       \* Python's None: a guest, or the owner of a legacy model
    Names,        \* names a caller can give, each one its slug
    Copy,         \* the word " copy" adds to a slug
    Inputs,       \* bundles of lever and assumption values
    MaxBirths,    \* bound: models created in one behaviour
    MaxVersions,  \* bound: versions of one model
    MaxClock      \* bound: seconds the wall clock advances

ASSUME SavedModelsAssumption ==
    /\ NoUser \notin Users
    /\ \A name \in Names : name \in Seq(Nat)
    /\ Copy \in Nat
    /\ MaxBirths \in Nat /\ MaxVersions \in Nat /\ MaxClock \in Nat

VARIABLES
    models,  \* the document: id -> saved model, for the ids that exist
    births,  \* models created so far; numbers the insertions of the dict
    clock    \* the store's clock, in the whole seconds _timestamp keeps

storeVars == <<models, births, clock>>

Owners == Users \cup {NoUser}
Ids == Seq(Nat)

Version == [version : Nat, saved_at : Nat, inputs : Inputs]

\* birth is the model's place in the dict: updating keeps it, and a model
\* created again under the id of a deleted one goes to the end.
SavedModel == [name : Ids, owner : Owners, birth : Nat,
               created_at : Nat, updated_at : Nat, versions : Seq(Version)]

Current(m) == m.versions[Len(m.versions)]

-----------------------------------------------------------------------------
(* The ownership rules.                                                    *)

\* Wrong: no viewer is taken for no filter.
VisibleToGuests(m, viewer) == m.owner = NoUser \/ viewer = NoUser \/ m.owner = viewer

VisibleTo(m, viewer) == m.owner = NoUser \/ m.owner = viewer

\* Wrong: Python's None equals None, so guests own the legacy models.
CanMutateIfSame(m, actor) == actor = m.owner

CanMutate(m, actor) == m.owner # NoUser /\ actor # NoUser /\ actor = m.owner

-----------------------------------------------------------------------------
(* Reads.                                                                  *)

\* list_models sorts by updated_at, latest first; the sort is stable, so
\* models of one second keep the order of the dict.
ListedBefore(a, b) ==
    \/ models[a].updated_at > models[b].updated_at
    \/ /\ models[a].updated_at = models[b].updated_at
       /\ models[a].birth < models[b].birth

FirstListed(ids) == CHOOSE a \in ids : \A b \in ids \ {a} : ListedBefore(a, b)

-----------------------------------------------------------------------------
(* Mutations.                                                              *)

\* Wrong: the suffixed id is not looked up.
IsSecondId(ms, slug, id) ==
    \/ id = slug /\ slug \notin DOMAIN ms
    \/ id = Append(slug, 2) /\ slug \in DOMAIN ms

\* Wrong: 2 is the only suffix that is tried.
IsSecondIdIfFree(ms, slug, id) ==
    /\ id \notin DOMAIN ms
    /\ id = slug \/ (slug \in DOMAIN ms /\ id = Append(slug, 2))

\* The slug itself when it is free, else the slug with the least free suffix.
IsUniqueId(ms, slug, id) ==
    /\ id \notin DOMAIN ms
    /\ \/ id = slug
       \/ /\ slug \in DOMAIN ms
          /\ \E n \in 2 .. MaxBirths + 1 :
                /\ id = Append(slug, n)
                /\ \A k \in 2 .. n - 1 : Append(slug, k) \in DOMAIN ms

\* models[id] = m, on the dict ms.
StoreIn(ms, id, m) == [i \in DOMAIN ms \cup {id} |-> IF i = id THEN m ELSE ms[i]]

\* Wrong: the model is stored before its first version is made.
NewModelEmpty(name, inputs, owner) ==
    [name |-> name, owner |-> owner, birth |-> births,
     created_at |-> clock, updated_at |-> clock, versions |-> <<>>]

NewModel(name, inputs, owner) ==
    [name |-> name, owner |-> owner, birth |-> births,
     created_at |-> clock, updated_at |-> clock,
     versions |-> <<[version |-> 1, saved_at |-> clock, inputs |-> inputs]>>]

CreateFrom(ms, name, id, inputs, owner) ==
    /\ IsUniqueId(ms, name, id)
    /\ models' = StoreIn(ms, id, NewModel(name, inputs, owner))
    /\ births' = births + 1
    /\ UNCHANGED clock

Create(name, id, inputs, owner) ==
    births < MaxBirths /\ CreateFrom(models, name, id, inputs, owner)

\* The model m with one more version.
Revised(m, inputs) ==
    [m EXCEPT !.updated_at = clock,
              !.versions = Append(m.versions, [version |-> Current(m).version + 1,
                                               saved_at |-> clock, inputs |-> inputs])]

UpdateFrom(ms, id, inputs) ==
    /\ id \in DOMAIN ms
    /\ models' = StoreIn(ms, id, Revised(ms[id], inputs))
    /\ UNCHANGED <<births, clock>>

Update(id, inputs) ==
    /\ id \in DOMAIN models
    /\ Len(models[id].versions) < MaxVersions
    /\ UpdateFrom(models, id, inputs)

\* Wrong: the copy stays with the owner of its source.
SourceOwner(m, owner) == m.owner

\* owner = NoUser stands for the default argument None, which inherits.
CloneOwner(m, owner) == IF owner = NoUser THEN m.owner ELSE owner

Clone(source, id, owner) ==
    /\ source \in DOMAIN models
    /\ LET m == models[source]
       IN  Create(Append(m.name, Copy), id, Current(m).inputs, CloneOwner(m, owner))

DeleteFrom(ms, id) ==
    /\ id \in DOMAIN ms
    /\ models' = [i \in DOMAIN ms \ {id} |-> ms[i]]
    /\ UNCHANGED <<births, clock>>

Delete(id) == DeleteFrom(models, id)

\* The wall clock reaches the next second.
Tick ==
    /\ clock < MaxClock
    /\ clock' = clock + 1
    /\ UNCHANGED <<models, births>>

\* The ids a new model of this slug can get.
Candidates(slug) == {slug} \cup {Append(slug, n) : n \in 2 .. MaxBirths + 1}

-----------------------------------------------------------------------------
StoreInit ==
    /\ models = [i \in {} |-> i]
    /\ births = 0
    /\ clock = 0

StoreNext ==
    \/ \E name \in Names, inputs \in Inputs, owner \in Owners :
          \E id \in Candidates(name) : Create(name, id, inputs, owner)
    \/ \E id \in DOMAIN models, inputs \in Inputs : Update(id, inputs)
    \/ \E source \in DOMAIN models, owner \in Owners :
          \E id \in Candidates(Append(models[source].name, Copy)) :
             Clone(source, id, owner)
    \/ \E id \in DOMAIN models : Delete(id)
    \/ Tick

StoreSpec == StoreInit /\ [][StoreNext]_storeVars

-----------------------------------------------------------------------------
(* What makes the store correct.                                           *)

Complete(ms) ==
    /\ DOMAIN ms \subseteq Ids
    /\ \A id \in DOMAIN ms : ms[id] \in SavedModel /\ ms[id].versions # <<>>

\* Every stored model is a complete record (the dataclasses SavedModel and
\* ModelVersion) with at least one version: Current is always defined.
StoreTypeOK ==
    /\ Complete(models)
    /\ births \in Nat
    /\ clock \in Nat

WellFormed(m) ==
    /\ \A k \in 1 .. Len(m.versions) : m.versions[k].version = k
    /\ \A k \in 1 .. Len(m.versions) - 1 :
          m.versions[k].saved_at <= m.versions[k + 1].saved_at
    /\ m.created_at = m.versions[1].saved_at
    /\ m.updated_at = Current(m).saved_at
    /\ m.updated_at <= clock

\* The audit trail of a model: its versions are numbered 1, 2, ... without a
\* gap, their timestamps never go back, and created_at / updated_at are those
\* of the first and of the last version (create and update, after any
\* sequence of deletions, clones and re-creations under the same id).
HistoryWellFormed == \A id \in DOMAIN models : WellFormed(models[id])

DistinctBirths(ms) == \A a, b \in DOMAIN ms : ms[a].birth = ms[b].birth => a = b

\* Two stored models are never the same insertion of the dict, so list_models
\* has one order and FirstListed is defined.
BirthsDistinct == DistinctBirths(models)

\* Whatever is stored, and whatever slugs the ids of other models look like,
\* create and clone find an id for the new model, and only one: the loop of
\* _unique_id ends, by a suffix that no bound of this module cuts off.
IdAlwaysFree ==
    \A slug \in Names \cup {Append(models[id].name, Copy) : id \in DOMAIN models} :
       \E id \in Candidates(slug) :
          \A other \in Candidates(slug) : IsUniqueId(models, slug, other) <=> other = id

\* No operation writes over a model: as long as an id is stored it is the same
\* model with the same owner, and its history only grows at the end
\* ("history is never overwritten"; create and clone pick a free id even when
\* the slug of one name is the suffixed id of another).
Preserves(old, new) ==
    /\ new.birth = old.birth
    /\ new.name = old.name
    /\ new.owner = old.owner
    /\ new.created_at = old.created_at
    /\ Len(old.versions) <= Len(new.versions)
    /\ \A k \in 1 .. Len(old.versions) : new.versions[k] = old.versions[k]

NothingOverwritten ==
    [][\A id \in DOMAIN models \cap DOMAIN models' :
          Preserves(models[id], models'[id])]_storeVars
=============================================================================
