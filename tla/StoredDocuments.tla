--------------------------- MODULE StoredDocuments ---------------------------
(***************************************************************************)
(* The document that ModelStore keeps its models in: what _read accepts of *)
(* a file that callers, an older build or a hand have made, what the four  *)
(* mutations make of it, and what _write puts back.  Every mutation reads, *)
(* validates and decodes the whole file and encodes all of it again, so a  *)
(* call on a file that does not validate raises and is no step.            *)
(*                                                                         *)
(* The mutations are those of the code, on the records of the file.  What  *)
(* they come to is read off the file: models, the document of SavedModels, *)
(* is in every state what the undamaged file decodes to.                   *)
(*                                                                         *)
(* A value that is not what it should be (no JSON, text for a number, a    *)
(* lever missing or too many, a rate out of range) is Junk.  Levers that   *)
(* callers give are validated before they are stored; assumptions, a note  *)
(* and an owner are not, and what _read would not accept of them is        *)
(* Unchecked and Blanks.  The note is part of the inputs; callers of clone *)
(* leave it to its default.                                                *)
(***************************************************************************)
EXTENDS SavedModels, SequencesExt

CONSTANTS
    Absent,       \* the owner of a model whose record has no such key
    Junk,
    NoFile,
    NoBackup,
    Unchecked,    \* inputs stored as given that _read refuses: years of 10.0
    Blanks        \* owners stored as given that _read refuses: " "

VARIABLES
    file,    \* NoFile, Junk, or a schema version and a list of records
    backup   \* what a hand that damaged the file can put back, or NoBackup

storedVars == <<storeVars, file, backup>>

\* The records of a file, the damaged ones too.  birth is no key of the file:
\* it tells a model from another that gets its id later.
Record == [id : Ids, name : Ids, owner : Owners \cup {Absent, Junk}, birth : Nat,
           created_at : Nat, updated_at : Nat, versions : Seq(Version)]

Documents == [schema_version : Nat, models : Seq(Record)]

\* What callers give for the levers, the assumptions and the note.
Offered == Inputs \cup {Junk}

ASSUME StoredAssumption ==
    /\ NoFile \notin Documents \cup {Junk, NoBackup}
    /\ Junk \notin Documents \cup Owners \cup Inputs \cup {Absent}
    /\ NoBackup \notin Documents \cup {Junk}
    /\ Absent \notin Owners
    /\ Unchecked \subseteq Inputs
    /\ Blanks \subseteq Users

-----------------------------------------------------------------------------
(* _read.                                                                  *)

\* _version_from_dict, which has _validate_levers and _assumptions_from_dict
\* look at the inputs.
IsVersion(raw) == raw.version >= 1 /\ raw.inputs \in Inputs \ Unchecked

\* _model_from_dict.
IsModel(raw) ==
    /\ raw.versions # <<>>
    /\ \A k \in DOMAIN raw.versions : IsVersion(raw.versions[k])
    /\ raw.owner \in (Users \ Blanks) \cup {NoUser, Absent}

\* Wrong: of two records with one id the last is taken.
ReadableTwice(doc) ==
    \/ doc = NoFile
    \/ /\ doc \notin {NoFile, Junk}
       /\ doc.schema_version = 1
       /\ \A k \in DOMAIN doc.models : IsModel(doc.models[k])

Readable(doc) ==
    \/ doc = NoFile
    \/ /\ doc \notin {NoFile, Junk}
       /\ doc.schema_version = 1
       /\ \A k \in DOMAIN doc.models : IsModel(doc.models[k])
       /\ \A j, k \in DOMAIN doc.models : j # k => doc.models[j].id # doc.models[k].id

Records(doc) == IF Readable(doc) /\ doc # NoFile THEN doc.models ELSE <<>>

OwnerIn(raw) == IF raw.owner = Absent THEN NoUser ELSE raw.owner

\* The SavedModel that _model_from_dict makes of a record.
ModelOf(raw) == [name |-> raw.name, owner |-> OwnerIn(raw), birth |-> raw.birth,
                 created_at |-> raw.created_at, updated_at |-> raw.updated_at,
                 versions |-> raw.versions]

\* The dict that _read makes of the records.
ModelsIn(records) ==
    [id \in {raw.id : raw \in Range(records)} |->
        ModelOf(CHOOSE raw \in Range(records) : raw.id = id)]

\* The file, or what a hand puts back when it has damaged it.
Undamaged == IF backup = NoBackup THEN file ELSE backup

Contents == IF Undamaged = NoFile THEN <<>> ELSE Undamaged.models

-----------------------------------------------------------------------------
(* _write.                                                                 *)

\* A key that an older build left out is written.
Written(raw) == [raw EXCEPT !.owner = OwnerIn(raw)]

Write(records) ==
    /\ file' = [schema_version |-> 1,
                models |-> [k \in DOMAIN records |-> Written(records[k])]]
    /\ backup' = NoBackup
    /\ UNCHANGED clock

-----------------------------------------------------------------------------
(* The mutations.                                                          *)

NewVersion(n, inputs) == [version |-> n, saved_at |-> clock, inputs |-> inputs]

\* Wrong: the record is stored before its first version is made.
NewRecordEmpty(name, id, inputs, owner) ==
    [id |-> id, name |-> name, owner |-> owner, birth |-> births,
     created_at |-> clock, updated_at |-> clock, versions |-> <<>>]

NewRecord(name, id, inputs, owner) ==
    [id |-> id, name |-> name, owner |-> owner, birth |-> births,
     created_at |-> clock, updated_at |-> clock, versions |-> <<NewVersion(1, inputs)>>]

\* Wrong: a file that does not validate is taken for an empty store.
CreateOverDamage(name, id, inputs, owner) ==
    /\ inputs # Junk
    /\ births < MaxBirths
    /\ IsUniqueId(ModelsIn(Records(file)), name, id)
    /\ Write(Append(Records(file), NewRecord(name, id, inputs, owner)))
    /\ births' = births + 1

\* Wrong: the levers are stored as they are given, too.
CreateUnvalidated(name, id, inputs, owner) ==
    /\ Readable(file)
    /\ births < MaxBirths
    /\ IsUniqueId(ModelsIn(Records(file)), name, id)
    /\ Write(Append(Records(file), NewRecord(name, id, inputs, owner)))
    /\ births' = births + 1

CreateRecord(name, id, inputs, owner) ==
    /\ Readable(file) /\ inputs # Junk
    /\ births < MaxBirths
    /\ IsUniqueId(ModelsIn(Records(file)), name, id)
    /\ Write(Append(Records(file), NewRecord(name, id, inputs, owner)))
    /\ births' = births + 1

\* Wrong: updated_at is left as it was.
UpdatedUndated(raw, inputs) ==
    [raw EXCEPT !.versions = Append(@, NewVersion(Last(@).version + 1, inputs))]

Updated(raw, inputs) ==
    [raw EXCEPT !.updated_at = clock,
                !.versions = Append(@, NewVersion(Last(@).version + 1, inputs))]

\* dict assignment: the record stays where it is in the list.
UpdateRecord(k, inputs) ==
    /\ Readable(file) /\ inputs # Junk
    /\ Len(Records(file)[k].versions) < MaxVersions
    /\ Write([Records(file) EXCEPT ![k] = Updated(@, inputs)])
    /\ UNCHANGED births

CloneRecord(k, id, owner) ==
    LET raw == Records(file)[k]
    IN  CreateRecord(Append(raw.name, Copy), id, Last(raw.versions).inputs,
                     IF owner = NoUser THEN OwnerIn(raw) ELSE owner)

DeleteRecord(k) ==
    /\ Readable(file)
    /\ Write(RemoveAt(Records(file), k))
    /\ UNCHANGED births

NextSecond ==
    /\ clock < MaxClock
    /\ clock' = clock + 1
    /\ UNCHANGED <<births, file, backup>>

-----------------------------------------------------------------------------
(* Hands.                                                                  *)

\* A record as a build wrote it that knew no owners.
DropOwnerKey(k) ==
    /\ Readable(file)
    /\ Records(file)[k].owner = NoUser
    /\ file' = [file EXCEPT !.models[k].owner = Absent]
    /\ UNCHANGED <<births, clock, backup>>

\* What may be wrong with the record k.
DamagedRecords(raw) ==
    {[raw EXCEPT !.versions = <<>>], [raw EXCEPT !.owner = Junk],
     [raw EXCEPT !.versions[1].version = 0]}
    \cup {[raw EXCEPT !.versions[1].inputs = x] : x \in Unchecked}

\* A slip of the hand, or a build with another schema: one thing is wrong that
\* _read looks at, in a file that it would have accepted.
Damage ==
    /\ backup = NoBackup /\ Readable(file) /\ file # NoFile
    /\ backup' = file
    /\ \/ file' = Junk
       \/ file' = [file EXCEPT !.schema_version = 2]
       \/ \E k \in DOMAIN file.models :
             \/ file' = [file EXCEPT !.models = Append(@, @[k])]
             \/ \E raw \in DamagedRecords(file.models[k]) :
                   file' = [file EXCEPT !.models[k] = raw]
    /\ UNCHANGED <<births, clock>>

Repair ==
    /\ backup # NoBackup
    /\ file' = backup
    /\ backup' = NoBackup
    /\ UNCHANGED <<births, clock>>

-----------------------------------------------------------------------------
StoredInit ==
    /\ file = NoFile /\ backup = NoBackup
    /\ births = 0 /\ clock = 0
    /\ models = ModelsIn(Contents)

StoredNext ==
    /\ \/ \E name \in Names, inputs \in Offered, owner \in Owners :
             \E id \in Candidates(name) : CreateRecord(name, id, inputs, owner)
       \/ \E k \in DOMAIN Records(file), inputs \in Offered : UpdateRecord(k, inputs)
       \/ \E k \in DOMAIN Records(file), owner \in Owners :
             \E id \in Candidates(Append(Records(file)[k].name, Copy)) :
                CloneRecord(k, id, owner)
       \/ \E k \in DOMAIN Records(file) : DeleteRecord(k)
       \/ NextSecond
       \/ \E k \in DOMAIN Records(file) : DropOwnerKey(k)
       \/ Damage
       \/ Repair
    /\ models' = ModelsIn(Contents')

StoredSpec == StoredInit /\ [][StoredNext]_storedVars

-----------------------------------------------------------------------------
(* What the document promises.                                             *)

Refused(raw) ==
    \/ raw.owner \in Blanks
    \/ \E k \in DOMAIN raw.versions : raw.versions[k].inputs \in Unchecked

\* _write checks nothing, so the store can write a file it will not read again:
\* when a caller's assumptions, note or owner are what _read refuses, and (no
\* hand having touched the file) never otherwise, whatever sequence of calls,
\* clones and rewritten records of older builds led there.
WrittenIsRead ==
    backup = NoBackup =>
       (Readable(file) <=> \A k \in DOMAIN Contents : ~ Refused(Contents[k]))

\* A file that a hand has damaged never passes for data; and in the file the
\* models are told apart by their ids and listed in the order they were created
\* in, so that list_models, whose sort is stable, has one order: also when an
\* older build wrote records without owners.
FileHasModels ==
    /\ Readable(file) => backup = NoBackup
    /\ \A j, k \in DOMAIN Contents :
          j < k => /\ Contents[j].id # Contents[k].id
                   /\ Contents[j].birth < Contents[k].birth

\* Callers see the store of SavedModels: what the file decodes to changes by one
\* of that module's operations or not at all, although every call rewrites the
\* whole file, and although hands damage it and mend it between two calls ("upgrading
\* the app must never hide a user's existing local data").
ImplementsStore == StoreSpec
=============================================================================
