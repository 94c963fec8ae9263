------------------------ MODULE StoredDocuments_proofs ------------------------
(***************************************************************************)
(* What the file of ModelStore decodes to is a store of SavedModels, and   *)
(* the store refuses its own file only for values it had stored unchecked. *)
(* The invariant is of the undamaged document, the file or what a hand can *)
(* put back: its records and the models are the same, one by one, and in   *)
(* the order of creation.  Every rewriting of the list of records is then  *)
(* shown to be what an operation of SavedModels makes of the models.       *)
(***************************************************************************)
EXTENDS StoredDocuments, SavedModels_proofs

\* The records are those of the models ms, in the order of creation.
Lists(records, ms) ==
    /\ records \in Seq(Record)
    /\ DOMAIN ms = {records[k].id : k \in DOMAIN records}
    /\ \A k \in DOMAIN records : ms[records[k].id] = ModelOf(records[k])
    /\ \A j, k \in DOMAIN records : j < k => records[j].birth < records[k].birth

IsDocument(doc) == doc = NoFile \/ (doc \in Documents /\ doc.schema_version = 1)

Listed ==
    /\ IsDocument(Undamaged)
    /\ Lists(Contents, models)
    /\ models = ModelsIn(Contents)
    /\ backup # NoBackup => ~ Readable(file)

StoredInv == StoreInv /\ Listed

Normal(records) == [k \in DOMAIN records |-> Written(records[k])]

-----------------------------------------------------------------------------
(* Lists of records.                                                       *)

LEMMA DistinctIds ==
    ASSUME NEW records, NEW ms, Lists(records, ms),
           NEW j \in DOMAIN records, NEW k \in DOMAIN records, j # k
    PROVE  records[j].id # records[k].id
<1>1. j \in Nat /\ k \in Nat
  BY DEF Lists
<1>2. records[j].birth \in Nat /\ records[k].birth \in Nat
  <2>1. records[j] \in Record /\ records[k] \in Record
    BY DEF Lists
  <2> QED BY <2>1 DEF Record
<1>3. records[j].birth # records[k].birth
  <2>1. j < k \/ k < j
    BY <1>1
  <2>2. records[j].birth < records[k].birth \/ records[k].birth < records[j].birth
    BY <2>1 DEF Lists
  <2> QED BY <1>2, <2>2
<1>4. ModelOf(records[j]).birth # ModelOf(records[k]).birth
  BY <1>3 DEF ModelOf
<1>5. ms[records[j].id] = ModelOf(records[j]) /\ ms[records[k].id] = ModelOf(records[k])
  BY DEF Lists
<1> QED BY <1>4, <1>5

\* A list decodes to the models it is of.
LEMMA ListsDecode ==
    ASSUME NEW records, NEW ms, Lists(records, ms), ms = [i \in DOMAIN ms |-> ms[i]]
    PROVE  ModelsIn(records) = ms
<1> DEFINE ids == {raw.id : raw \in Range(records)}
           found(i) == CHOOSE raw \in Range(records) : raw.id = i
<1>1. \A raw : raw \in Range(records) <=> \E k \in DOMAIN records : records[k] = raw
  BY DEF Range
<1>2. DOMAIN ms = ids
  BY <1>1 DEF Lists
<1>3. ASSUME NEW i \in ids PROVE ModelOf(found(i)) = ms[i]
  <2>1. \E raw \in Range(records) : raw.id = i
    OBVIOUS
  <2>2. found(i) \in Range(records) /\ found(i).id = i
    BY <2>1
  <2> HIDE DEF found
  <2>3. PICK k \in DOMAIN records : records[k] = found(i)
    BY <1>1, <2>2
  <2> QED BY <2>2, <2>3 DEF Lists
<1>4. ModelsIn(records) = [i \in ids |-> ModelOf(found(i))]
  BY DEF ModelsIn
<1> HIDE DEF ids, found
<1> QED BY <1>2, <1>3, <1>4

\* A record of a model is accepted unless a caller gave what is refused.
LEMMA ListedModel ==
    ASSUME StoreInv, NEW records, Lists(records, models), NEW k \in DOMAIN records
    PROVE  IsModel(records[k]) <=> ~ Refused(records[k])
<1> DEFINE raw == records[k]
           m == models[raw.id]
<1>1. m \in SavedModel /\ m.versions # <<>> /\ raw \in Record /\ WellFormed(m)
  BY DEF Lists, StoreInv, StoreTypeOK, Complete, HistoryWellFormed
<1>2. raw.versions = m.versions /\ OwnerIn(raw) = m.owner
  <2>1. m = ModelOf(raw)
    BY DEF Lists
  <2> HIDE DEF m, raw
  <2> QED BY <2>1 DEF ModelOf
<1>3. m.versions \in Seq(Version) /\ m.owner \in Owners
  BY <1>1 DEF SavedModel
<1>4. \A i \in 1 .. Len(m.versions) : m.versions[i].version = i
  BY <1>1 DEF WellFormed
<1> HIDE DEF m
<1>5. ASSUME NEW i \in DOMAIN m.versions
      PROVE  IsVersion(m.versions[i]) <=> m.versions[i].inputs \notin Unchecked
  <2>1. i \in 1 .. Len(m.versions) /\ m.versions[i] \in Version
    BY <1>3
  <2>2. m.versions[i].version >= 1
    BY <2>1, <1>4
  <2> QED BY <2>1, <2>2 DEF IsVersion, Version
<1>6. raw.owner \in (Users \ Blanks) \cup {NoUser, Absent} <=> raw.owner \notin Blanks
  BY <1>2, <1>3, StoredAssumption, SavedModelsAssumption DEF OwnerIn, Owners
<1> QED BY <1>1, <1>2, <1>5, <1>6 DEF IsModel, Refused

\* A document that has the models validates, if nothing in it is refused.
LEMMA ListsReadable ==
    ASSUME StoreInv, NEW doc, doc # NoFile, IsDocument(doc), Lists(doc.models, models)
    PROVE  Readable(doc) <=> \A k \in DOMAIN doc.models : ~ Refused(doc.models[k])
<1>1. doc \in Documents /\ doc.schema_version = 1 /\ doc # Junk
  BY StoredAssumption DEF IsDocument
<1>2. \A k \in DOMAIN doc.models : IsModel(doc.models[k]) <=> ~ Refused(doc.models[k])
  BY ListedModel
<1>3. \A j, k \in DOMAIN doc.models : j # k => doc.models[j].id # doc.models[k].id
  BY DistinctIds
<1> QED BY <1>1, <1>2, <1>3 DEF Readable

LEMMA NormalLists ==
    ASSUME NEW records, NEW ms, Lists(records, ms)
    PROVE  Lists(Normal(records), ms)
<1> DEFINE new == Normal(records)
<1>1. records \in Seq(Record)
  BY DEF Lists
<1>2. ASSUME NEW k \in DOMAIN records
      PROVE  /\ new[k] \in Record /\ new[k].id = records[k].id
             /\ new[k].birth = records[k].birth
             /\ ModelOf(new[k]) = ModelOf(records[k])
  <2>1. records[k] \in Record
    BY <1>1
  <2>2. OwnerIn(records[k]) \in Owners \cup {Junk} /\ Absent \notin Owners \cup {Junk}
    BY <2>1, StoredAssumption DEF OwnerIn, Record, Owners
  <2>3. new[k] = [records[k] EXCEPT !.owner = OwnerIn(records[k])]
    BY DEF Normal, Written
  <2>4. /\ new[k] \in Record
        /\ new[k].owner = OwnerIn(records[k])
        /\ new[k].id = records[k].id
        /\ new[k].name = records[k].name
        /\ new[k].birth = records[k].birth
        /\ new[k].created_at = records[k].created_at
        /\ new[k].updated_at = records[k].updated_at
        /\ new[k].versions = records[k].versions
    BY <2>1, <2>2, <2>3 DEF Record
  <2> HIDE DEF new
  <2>5. OwnerIn(new[k]) = OwnerIn(records[k])
    BY <2>2, <2>4 DEF OwnerIn
  <2> QED BY <2>4, <2>5 DEF ModelOf
<1>3. DOMAIN new = DOMAIN records
  BY DEF Normal
<1>4. new \in Seq(Record)
  <2>1. DOMAIN records = 1 .. Len(records) /\ Len(records) \in Nat
    BY <1>1
  <2>2. new = [k \in 1 .. Len(records) |-> Written(records[k])]
    BY <2>1 DEF Normal
  <2> HIDE DEF new
  <2>3. new \in [1 .. Len(records) -> Record]
    BY <2>1, <2>2, <1>2, <1>3
  <2> QED BY <2>1, <2>3
<1> HIDE DEF new
<1>5. \A k \in DOMAIN new : ms[new[k].id] = ModelOf(new[k])
  BY <1>2, <1>3 DEF Lists
<1>6. DOMAIN ms = {new[k].id : k \in DOMAIN new}
  BY <1>2, <1>3 DEF Lists
<1>7. \A j, k \in DOMAIN new : j < k => new[j].birth < new[k].birth
  BY <1>2, <1>3 DEF Lists
<1> QED BY <1>4, <1>5, <1>6, <1>7 DEF Lists, new

\* create and clone add a record at the end.
LEMMA AppendedLists ==
    ASSUME NEW records, NEW old, Lists(records, old), NEW raw \in Record, NEW new,
           raw.id \notin DOMAIN old,
           DOMAIN new = DOMAIN old \cup {raw.id},
           \A i \in DOMAIN old : new[i] = old[i],
           \A k \in DOMAIN records : records[k].birth < raw.birth,
           new[raw.id] = ModelOf(raw)
    PROVE  Lists(Append(records, raw), new)
<1> DEFINE n == Len(records)
           longer == Append(records, raw)
<1>1. /\ longer \in Seq(Record) /\ n \in Nat /\ DOMAIN records = 1 .. n
      /\ DOMAIN longer = 1 .. n + 1 /\ longer[n + 1] = raw
      /\ \A k \in 1 .. n : longer[k] = records[k]
  BY DEF Lists
<1>2. \A k \in 1 .. n : records[k].id \in DOMAIN old /\ new[records[k].id] = old[records[k].id]
  BY <1>1 DEF Lists
<1> HIDE DEF n, longer
<1>3. DOMAIN new = {longer[k].id : k \in DOMAIN longer}
  <2>1. DOMAIN old = {records[k].id : k \in 1 .. n}
    BY <1>1 DEF Lists
  <2>2. \A k \in 1 .. n + 1 : k = n + 1 \/ k \in 1 .. n
    BY <1>1
  <2>3. n + 1 \in 1 .. n + 1 /\ 1 .. n \subseteq 1 .. n + 1
    BY <1>1
  <2>4. \A k \in DOMAIN longer : longer[k].id \in DOMAIN new
    BY <1>1, <1>2, <2>2
  <2>5. ASSUME NEW i \in DOMAIN new PROVE \E k \in DOMAIN longer : longer[k].id = i
    <3>1. CASE i = raw.id
      BY <3>1, <1>1, <2>3
    <3>2. CASE i \in DOMAIN old
      <4>1. PICK k \in 1 .. n : records[k].id = i
        BY <3>2, <2>1
      <4> QED BY <4>1, <1>1, <2>3
    <3> QED BY <3>1, <3>2
  <2> QED BY <2>4, <2>5
<1>4. ASSUME NEW k \in DOMAIN longer PROVE new[longer[k].id] = ModelOf(longer[k])
  <2>1. CASE k \in 1 .. n
    BY <2>1, <1>1, <1>2 DEF Lists
  <2>2. CASE k = n + 1
    BY <2>2, <1>1
  <2> QED BY <2>1, <2>2, <1>1
<1>5. ASSUME NEW j \in DOMAIN longer, NEW k \in DOMAIN longer, j < k
      PROVE  longer[j].birth < longer[k].birth
  <2>1. j \in 1 .. n
    BY <1>1, <1>5
  <2>2. CASE k \in 1 .. n
    <3>1. records[j].birth < records[k].birth
      BY <2>1, <2>2, <1>1, <1>5 DEF Lists
    <3> QED BY <3>1, <2>1, <2>2, <1>1
  <2>3. CASE k = n + 1
    BY <2>1, <2>3, <1>1
  <2> QED BY <2>2, <2>3, <1>1
<1> QED BY <1>1, <1>3, <1>4, <1>5 DEF Lists, longer

\* update changes a record where it is.
LEMMA ReplacedLists ==
    ASSUME NEW records, NEW old, Lists(records, old), NEW raw \in Record, NEW new,
           NEW k \in DOMAIN records, raw.id = records[k].id,
           \A j \in DOMAIN records : j # k => records[j].id # raw.id,
           DOMAIN new = DOMAIN old,
           \A i \in DOMAIN old \ {raw.id} : new[i] = old[i],
           raw.birth = records[k].birth,
           new[raw.id] = ModelOf(raw)
    PROVE  Lists([records EXCEPT ![k] = raw], new)
<1> DEFINE changed == [records EXCEPT ![k] = raw]
<1>1. /\ changed \in Seq(Record) /\ DOMAIN changed = DOMAIN records
      /\ changed[k] = raw /\ \A j \in DOMAIN records : j # k => changed[j] = records[j]
  BY DEF Lists
<1> HIDE DEF changed
<1>2. \A j \in DOMAIN records : changed[j].id = records[j].id /\ records[j].id \in DOMAIN old
  BY <1>1 DEF Lists
<1>3. \A j \in DOMAIN records : changed[j].birth = records[j].birth
  BY <1>1
<1>4. DOMAIN new = {changed[j].id : j \in DOMAIN changed}
  <2>1. DOMAIN new = {records[j].id : j \in DOMAIN records}
    BY DEF Lists
  <2>2. \A j \in DOMAIN changed : changed[j].id \in DOMAIN new
    BY <1>1, <1>2
  <2>3. \A i \in DOMAIN new : \E j \in DOMAIN changed : changed[j].id = i
    BY <2>1, <1>1, <1>2
  <2> QED BY <2>2, <2>3
<1>5. ASSUME NEW j \in DOMAIN changed PROVE new[changed[j].id] = ModelOf(changed[j])
  <2>1. CASE j = k
    BY <2>1, <1>1
  <2>2. CASE j # k
    <3>1. changed[j] = records[j] /\ records[j].id \in DOMAIN old \ {raw.id}
      BY <2>2, <1>1, <1>2
    <3>2. new[records[j].id] = old[records[j].id] /\ old[records[j].id] = ModelOf(records[j])
      BY <3>1, <1>1 DEF Lists
    <3> QED BY <3>1, <3>2
  <2> QED BY <2>1, <2>2
<1>6. \A i, j \in DOMAIN changed : i < j => changed[i].birth < changed[j].birth
  BY <1>1, <1>3 DEF Lists
<1> QED BY <1>1, <1>4, <1>5, <1>6 DEF Lists, changed

\* delete takes a record out.
LEMMA RemovedLists ==
    ASSUME NEW records, NEW old, Lists(records, old), NEW new,
           NEW k \in DOMAIN records,
           \A j \in DOMAIN records : j # k => records[j].id # records[k].id,
           DOMAIN new = DOMAIN old \ {records[k].id},
           \A i \in DOMAIN new : new[i] = old[i]
    PROVE  Lists(RemoveAt(records, k), new)
<1> DEFINE n == Len(records)
           shorter == RemoveAt(records, k)
           from(j) == IF j < k THEN j ELSE j + 1
<1>1. n \in Nat /\ DOMAIN records = 1 .. n /\ k \in 1 .. n /\ records \in Seq(Record)
  BY DEF Lists
<1>2. /\ shorter \in Seq(Record) /\ DOMAIN shorter = 1 .. n - 1
      /\ \A j \in 1 .. n - 1 : shorter[j] = records[from(j)]
  <2> DEFINE front == SubSeq(records, 1, k - 1)
             back == SubSeq(records, k + 1, n)
  <2>1. /\ front \in Seq(Record) /\ Len(front) = k - 1
        /\ \A j \in 1 .. k - 1 : front[j] = records[j]
    BY <1>1
  <2>2. /\ back \in Seq(Record) /\ Len(back) = n - k
        /\ \A j \in 1 .. n - k : back[j] = records[k + j]
    BY <1>1
  <2>3. shorter = front \o back
    BY DEF RemoveAt
  <2> HIDE DEF front, back, shorter, n
  <2>4. shorter \in Seq(Record) /\ Len(shorter) = n - 1
    <3>1. front \in Seq(Record) /\ back \in Seq(Record)
      BY <2>1, <2>2
    <3>2. front \o back \in Seq(Record) /\ Len(front \o back) = Len(front) + Len(back)
      BY <3>1
    <3>3. Len(front) = k - 1 /\ Len(back) = n - k
      BY <2>1, <2>2
    <3>4. (k - 1) + (n - k) = n - 1
      BY <1>1
    <3>5. Len(front \o back) = n - 1
      BY <3>2, <3>3, <3>4
    <3> QED BY <3>2, <3>5, <2>3
  <2>5. ASSUME NEW j \in 1 .. n - 1 PROVE shorter[j] = records[from(j)]
    <3>1. CASE j < k
      <4>1. shorter[j] = front[j]
        BY <3>1, <2>1, <2>2, <2>3, <1>1
      <4>2. j \in 1 .. k - 1 /\ from(j) = j
        BY <3>1, <1>1
      <4> QED BY <4>1, <4>2, <2>1
    <3>2. CASE ~ (j < k)
      <4>1. shorter[j] = back[j - (k - 1)]
        BY <3>2, <2>1, <2>2, <2>3, <1>1
      <4>2. j - (k - 1) \in 1 .. n - k /\ k + (j - (k - 1)) = j + 1
        BY <3>2, <1>1
      <4> QED BY <4>1, <4>2, <3>2, <2>2
    <3> QED BY <3>1, <3>2
  <2> QED BY <2>4, <2>5
<1> HIDE DEF n, shorter
<1>3. \A j \in 1 .. n - 1 : from(j) \in DOMAIN records /\ from(j) # k
  BY <1>1
<1>4. \A i, j \in 1 .. n - 1 : i < j => from(i) < from(j)
  BY <1>1
<1>5. \A j \in DOMAIN records : j # k => \E i \in 1 .. n - 1 : from(i) = j
  <2> SUFFICES ASSUME NEW j \in DOMAIN records, j # k
               PROVE  \E i \in 1 .. n - 1 : from(i) = j
    OBVIOUS
  <2>1. CASE j < k
    <3>1. j \in 1 .. n - 1 /\ from(j) = j
      BY <2>1, <1>1
    <3> QED BY <3>1
  <2>2. CASE ~ (j < k)
    <3>1. j - 1 \in 1 .. n - 1 /\ from(j - 1) = j
      BY <2>2, <1>1
    <3> QED BY <3>1
  <2> QED BY <2>1, <2>2
<1> HIDE DEF from
<1>6. DOMAIN new = {shorter[j].id : j \in DOMAIN shorter}
  <2>1. DOMAIN old = {records[j].id : j \in DOMAIN records}
    BY DEF Lists
  <2>2. \A j \in DOMAIN shorter : shorter[j].id \in DOMAIN new
    BY <1>2, <1>3, <2>1
  <2>3. ASSUME NEW i \in DOMAIN new PROVE \E j \in DOMAIN shorter : shorter[j].id = i
    <3>1. PICK l \in DOMAIN records : records[l].id = i
      BY <2>1
    <3>2. l # k
      BY <3>1
    <3>3. PICK j \in 1 .. n - 1 : from(j) = l
      BY <3>2, <1>5
    <3> QED BY <3>1, <3>3, <1>2
  <2> QED BY <2>2, <2>3
<1>7. \A j \in DOMAIN shorter : new[shorter[j].id] = old[records[from(j)].id]
  BY <1>2, <1>6
<1>8. \A j \in DOMAIN shorter : new[shorter[j].id] = ModelOf(shorter[j])
  BY <1>2, <1>3, <1>7 DEF Lists
<1>9. \A i, j \in DOMAIN shorter : i < j => shorter[i].birth < shorter[j].birth
  BY <1>2, <1>3, <1>4 DEF Lists
<1> QED BY <1>2, <1>6, <1>8, <1>9 DEF Lists, shorter

-----------------------------------------------------------------------------
(* The records of every step are those of the models it leaves.            *)

\* What a call reads, when it can read the file, are the models.
LEMMA WholeFile ==
    ASSUME StoredInv, Readable(file)
    PROVE  /\ backup = NoBackup
           /\ Contents = Records(file)
           /\ Lists(Records(file), models)
           /\ ModelsIn(Records(file)) = models
<1>1. backup = NoBackup /\ Undamaged = file
  BY DEF StoredInv, Listed, Undamaged
<1>2. Contents = Records(file)
  BY <1>1 DEF Contents, Records
<1> QED BY <1>1, <1>2 DEF StoredInv, Listed

\* What _write puts into the file are the models of the records it is given.
LEMMA WrittenListed ==
    ASSUME NEW records, NEW ms, Lists(records, ms), ms = [i \in DOMAIN ms |-> ms[i]],
           Write(records), models' = ModelsIn(Contents')
    PROVE  models' = ms /\ Listed'
<1> DEFINE doc == [schema_version |-> 1, models |-> Normal(records)]
<1>1. Lists(Normal(records), ms)
  BY NormalLists
<1>2. doc \in Documents /\ doc.schema_version = 1 /\ doc.models = Normal(records)
  BY <1>1 DEF Lists, Documents
<1>3. file' = doc /\ backup' = NoBackup
  BY DEF Write, Normal
<1>4. doc # NoFile
  BY <1>2, StoredAssumption
<1> HIDE DEF doc
<1>5. Undamaged' = doc /\ Contents' = Normal(records)
  BY <1>2, <1>3, <1>4 DEF Undamaged, Contents
<1>6. models' = ms
  BY <1>1, <1>5, ListsDecode
<1>7. IsDocument(Undamaged')
  BY <1>2, <1>5 DEF IsDocument
<1> QED BY <1>1, <1>3, <1>5, <1>6, <1>7 DEF Listed

LEMMA CreateRecordStep ==
    ASSUME StoredInv, NEW name \in Ids, NEW id \in Ids, NEW inputs \in Inputs,
           NEW owner \in Owners, CreateRecord(name, id, inputs, owner),
           models' = ModelsIn(Contents')
    PROVE  Create(name, id, inputs, owner) /\ Listed'
<1> DEFINE raw == NewRecord(name, id, inputs, owner)
           m == NewModel(name, inputs, owner)
           ms == StoreIn(models, id, m)
<1>1. Readable(file) /\ births < MaxBirths /\ births' = births + 1
      /\ IsUniqueId(ModelsIn(Records(file)), name, id)
      /\ Write(Append(Records(file), raw))
  BY DEF CreateRecord
<1>2. Lists(Records(file), models) /\ IsUniqueId(models, name, id)
  BY <1>1, WholeFile
<1>3. clock \in Nat /\ births \in Nat
  BY DEF StoredInv, StoreInv, StoreTypeOK
<1>4. raw \in Record /\ raw.id = id /\ raw.birth = births
  <2>1. NewVersion(1, inputs) \in Version
    BY <1>3 DEF NewVersion, Version
  <2>2. <<NewVersion(1, inputs)>> \in Seq(Version)
    BY <2>1
  <2> QED BY <1>3, <2>2 DEF NewRecord, Record
<1>5. ModelOf(raw) = m
  <2>1. owner # Absent
    BY StoredAssumption
  <2> QED BY <2>1 DEF ModelOf, NewRecord, NewVersion, NewModel, OwnerIn
<1>6. \A k \in DOMAIN Records(file) : Records(file)[k].birth < births
  <2> SUFFICES ASSUME NEW k \in DOMAIN Records(file)
               PROVE  Records(file)[k].birth < births
    OBVIOUS
  <2>1. /\ Records(file)[k].id \in DOMAIN models
        /\ models[Records(file)[k].id] = ModelOf(Records(file)[k])
    BY <1>2 DEF Lists
  <2>2. models[Records(file)[k].id].birth < births
    BY <2>1 DEF StoredInv, StoreInv, BirthsBelow
  <2> QED BY <2>1, <2>2 DEF ModelOf
<1>7. id \notin DOMAIN models
  BY <1>2 DEF IsUniqueId
<1> HIDE DEF raw, m
<1>8. /\ DOMAIN ms = DOMAIN models \cup {id} /\ ms[id] = m
      /\ \A i \in DOMAIN models : ms[i] = models[i]
      /\ ms = [i \in DOMAIN ms |-> ms[i]]
  BY <1>7 DEF StoreIn
<1> HIDE DEF ms
<1>9. Lists(Append(Records(file), raw), ms)
  <2>1. \A k \in DOMAIN Records(file) : Records(file)[k].birth < raw.birth
    BY <1>4, <1>6
  <2>2. raw.id \notin DOMAIN models /\ DOMAIN ms = DOMAIN models \cup {raw.id}
        /\ ms[raw.id] = ModelOf(raw)
    BY <1>4, <1>5, <1>7, <1>8
  <2> QED BY <1>2, <1>4, <1>8, <2>1, <2>2, AppendedLists
<1>10. models' = ms /\ Listed'
  BY <1>1, <1>8, <1>9, WrittenListed
<1>11. clock' = clock
  BY <1>1 DEF Write
<1>12. models' = StoreIn(models, id, NewModel(name, inputs, owner))
  BY <1>10 DEF ms, m
<1> QED BY <1>1, <1>2, <1>10, <1>11, <1>12 DEF Create, CreateFrom

LEMMA UpdateRecordStep ==
    ASSUME StoredInv, NEW k \in DOMAIN Records(file), NEW inputs \in Inputs,
           UpdateRecord(k, inputs), models' = ModelsIn(Contents')
    PROVE  /\ Records(file)[k].id \in DOMAIN models
           /\ Update(Records(file)[k].id, inputs)
           /\ Listed'
<1> DEFINE raw == Records(file)[k]
           id == raw.id
           old == models[id]
           new == Updated(raw, inputs)
           m == Revised(old, inputs)
           ms == StoreIn(models, id, m)
<1>1. Readable(file) /\ Len(raw.versions) < MaxVersions /\ births' = births
      /\ Write([Records(file) EXCEPT ![k] = new])
  BY DEF UpdateRecord
<1>2. Lists(Records(file), models)
  BY <1>1, WholeFile
<1>3. raw \in Record /\ id \in DOMAIN models /\ old = ModelOf(raw)
  BY <1>2 DEF Lists
<1>4. old \in SavedModel /\ old.versions # <<>> /\ clock \in Nat
  BY <1>3 DEF StoredInv, StoreInv, StoreTypeOK, Complete
<1> HIDE DEF raw, old
<1>5. /\ raw.versions = old.versions /\ raw.name = old.name /\ OwnerIn(raw) = old.owner
      /\ raw.created_at = old.created_at /\ raw.birth = old.birth
  BY <1>3 DEF ModelOf
<1> DEFINE v == [version |-> Current(old).version + 1, saved_at |-> clock, inputs |-> inputs]
           longer == Append(old.versions, v)
<1>6. /\ m \in SavedModel /\ m.versions = longer /\ m.updated_at = clock
      /\ m.name = old.name /\ m.owner = old.owner /\ m.birth = old.birth
      /\ m.created_at = old.created_at
  BY <1>4, RevisedModel
<1>7. NewVersion(Last(raw.versions).version + 1, inputs) = v
  BY <1>5 DEF NewVersion, Last, Current
<1>8. new = [raw EXCEPT !.updated_at = clock, !.versions = longer]
  BY <1>5, <1>7 DEF Updated
<1>9. longer \in Seq(Version)
  BY <1>6 DEF SavedModel
<1> HIDE DEF v, longer, m, new
<1>10. /\ new \in Record /\ new.id = id /\ new.birth = raw.birth
       /\ new.name = raw.name /\ new.owner = raw.owner
       /\ new.created_at = raw.created_at /\ new.updated_at = clock
       /\ new.versions = longer
  BY <1>3, <1>4, <1>8, <1>9 DEF Record
<1>11. ModelOf(new) = m
  <2>1. OwnerIn(new) = old.owner
    BY <1>5, <1>10 DEF OwnerIn
  <2>2. ModelOf(new) = [name |-> m.name, owner |-> m.owner, birth |-> m.birth,
                        created_at |-> m.created_at, updated_at |-> m.updated_at,
                        versions |-> m.versions]
    BY <1>5, <1>6, <1>10, <2>1 DEF ModelOf
  <2> QED BY <1>6, <2>2 DEF SavedModel
<1> HIDE DEF id
<1>12. /\ DOMAIN ms = DOMAIN models /\ ms[id] = m
       /\ \A i \in DOMAIN models \ {id} : ms[i] = models[i]
       /\ ms = [i \in DOMAIN ms |-> ms[i]]
  BY <1>3 DEF StoreIn
<1> HIDE DEF ms
<1>13. Lists([Records(file) EXCEPT ![k] = new], ms)
  <2>1. /\ new.id = Records(file)[k].id
        /\ new.birth = Records(file)[k].birth
        /\ \A j \in DOMAIN Records(file) : j # k => Records(file)[j].id # new.id
    BY <1>2, <1>10, DistinctIds DEF id, raw
  <2>2. /\ \A i \in DOMAIN models \ {new.id} : ms[i] = models[i]
        /\ ms[new.id] = ModelOf(new)
    BY <1>10, <1>11, <1>12
  <2> QED BY <1>2, <1>10, <1>12, <2>1, <2>2, ReplacedLists
<1>14. models' = ms /\ Listed'
  BY <1>1, <1>12, <1>13, WrittenListed
<1>15. clock' = clock
  BY <1>1 DEF Write
<1>16. models' = StoreIn(models, id, Revised(models[id], inputs))
  BY <1>14 DEF ms, m, old, id
<1>17. Len(models[id].versions) < MaxVersions
  BY <1>1, <1>5 DEF old, id
<1>18. id = Records(file)[k].id
  BY DEF id, raw
<1> QED BY <1>1, <1>3, <1>14, <1>15, <1>16, <1>17, <1>18 DEF Update, UpdateFrom

LEMMA CloneRecordStep ==
    ASSUME StoredInv, NEW k \in DOMAIN Records(file), NEW owner \in Owners,
           NEW id \in Candidates(Append(Records(file)[k].name, Copy)),
           CloneRecord(k, id, owner), models' = ModelsIn(Contents')
    PROVE  /\ Records(file)[k].id \in DOMAIN models
           /\ models[Records(file)[k].id].name = Records(file)[k].name
           /\ Clone(Records(file)[k].id, id, owner)
           /\ Listed'
<1> DEFINE raw == Records(file)[k]
           m == models[raw.id]
           name == Append(raw.name, Copy)
           inputs == Last(raw.versions).inputs
           heir == IF owner = NoUser THEN OwnerIn(raw) ELSE owner
<1>1. CreateRecord(name, id, inputs, heir)
  BY DEF CloneRecord
<1>2. Lists(Records(file), models)
  BY <1>1, WholeFile DEF CreateRecord
<1>3. raw.id \in DOMAIN models /\ m = ModelOf(raw)
  BY <1>2 DEF Lists
<1>4. m \in SavedModel /\ m.versions # <<>>
  BY <1>3 DEF StoredInv, StoreInv, StoreTypeOK, Complete
<1> HIDE DEF raw, m
<1>5. raw.versions = m.versions /\ raw.name = m.name /\ OwnerIn(raw) = m.owner
  BY <1>3 DEF ModelOf
<1>6. name \in Ids
  BY <1>4, <1>5, SavedModelsAssumption DEF SavedModel, Ids
<1>7. inputs = Current(m).inputs /\ inputs \in Inputs
  BY <1>4, <1>5, CurrentInputs DEF Current, Last
<1>8. heir = CloneOwner(m, owner) /\ heir \in Owners
  BY <1>4, <1>5 DEF CloneOwner, SavedModel
<1>9. id \in Ids
  BY <1>6, CandidatesAreIds DEF raw
<1> HIDE DEF name, inputs, heir
<1>10. Create(name, id, inputs, heir) /\ Listed'
  BY <1>1, <1>6, <1>7, <1>8, <1>9, CreateRecordStep
<1>11. Create(Append(m.name, Copy), id, Current(m).inputs, CloneOwner(m, owner))
  BY <1>5, <1>7, <1>8, <1>10 DEF name
<1>12. Clone(raw.id, id, owner)
  BY <1>3, <1>11 DEF Clone, m
<1> QED BY <1>3, <1>5, <1>10, <1>12 DEF raw, m

LEMMA DeleteRecordStep ==
    ASSUME StoredInv, NEW k \in DOMAIN Records(file), DeleteRecord(k),
           models' = ModelsIn(Contents')
    PROVE  /\ Records(file)[k].id \in DOMAIN models
           /\ Delete(Records(file)[k].id)
           /\ Listed'
<1> DEFINE id == Records(file)[k].id
           ms == [i \in DOMAIN models \ {id} |-> models[i]]
<1>1. Readable(file) /\ Write(RemoveAt(Records(file), k)) /\ births' = births
  BY DEF DeleteRecord
<1>2. Lists(Records(file), models)
  BY <1>1, WholeFile
<1>3. \A j \in DOMAIN Records(file) : j # k => Records(file)[j].id # id
  BY <1>2, DistinctIds
<1>4. /\ DOMAIN ms = DOMAIN models \ {id} /\ \A i \in DOMAIN ms : ms[i] = models[i]
      /\ ms = [i \in DOMAIN ms |-> ms[i]]
  OBVIOUS
<1>5. id \in DOMAIN models
  BY <1>2 DEF Lists
<1> HIDE DEF ms
<1>6. Lists(RemoveAt(Records(file), k), ms)
  BY <1>2, <1>3, <1>4, RemovedLists
<1>7. models' = ms /\ Listed'
  BY <1>1, <1>4, <1>6, WrittenListed
<1>8. clock' = clock
  BY <1>1 DEF Write
<1> QED BY <1>1, <1>5, <1>7, <1>8 DEF Delete, DeleteFrom, ms

\* What a hand makes of a record is no model.
LEMMA DamagedIsNoModel ==
    ASSUME NEW raw \in Record, raw.versions # <<>>, NEW new \in DamagedRecords(raw)
    PROVE  new \in Record /\ ~ IsModel(new)
<1> DEFINE vs == raw.versions
<1>1. /\ vs \in Seq(Version) /\ DOMAIN vs = 1 .. Len(vs) /\ Len(vs) \in Nat
      /\ 1 \in DOMAIN vs /\ vs[1] \in Version
  <2>1. vs \in Seq(Version) /\ vs # <<>>
    BY DEF Record
  <2> HIDE DEF vs
  <2>2. Len(vs) \in Nat /\ DOMAIN vs = 1 .. Len(vs) /\ Len(vs) # 0
    BY <2>1
  <2>3. 1 \in DOMAIN vs
    BY <2>2
  <2> QED BY <2>1, <2>2, <2>3
<1>2. CASE new = [raw EXCEPT !.versions = <<>>]
  <2> DEFINE none == <<>>
  <2>1. none \in Seq(Version)
    OBVIOUS
  <2>2. new = [raw EXCEPT !.versions = none]
    BY <1>2
  <2> HIDE DEF none
  <2>3. new \in Record /\ new.versions = none
    BY <2>1, <2>2 DEF Record
  <2>4. new.versions = <<>>
    BY <2>3 DEF none
  <2> QED BY <2>3, <2>4 DEF IsModel
<1>3. CASE new = [raw EXCEPT !.owner = Junk]
  <2>1. new \in Record /\ new.owner = Junk
    BY <1>3 DEF Record
  <2> QED BY <2>1, StoredAssumption DEF IsModel, Owners
<1>4. ASSUME NEW v \in Version, ~ IsVersion(v),
             new = [raw EXCEPT !.versions = [vs EXCEPT ![1] = v]]
      PROVE  new \in Record /\ ~ IsModel(new)
  <2> DEFINE ws == [vs EXCEPT ![1] = v]
  <2>1. ws \in Seq(Version) /\ 1 \in DOMAIN ws /\ ws[1] = v
    BY <1>1, <1>4
  <2> HIDE DEF vs, ws
  <2>2. new \in Record /\ new.versions = ws
    BY <1>4, <2>1 DEF Record, ws
  <2> QED BY <1>4, <2>1, <2>2 DEF IsModel
<1>5. CASE new = [raw EXCEPT !.versions[1].version = 0]
  <2> DEFINE v == [vs[1] EXCEPT !.version = 0]
  <2>1. v \in Version /\ v.version = 0
    BY <1>1 DEF Version
  <2>2. new = [raw EXCEPT !.versions = [vs EXCEPT ![1] = v]]
    BY <1>1, <1>5 DEF Record
  <2>3. ~ IsVersion(v)
    BY <2>1 DEF IsVersion
  <2> HIDE DEF v, vs
  <2> QED BY <2>1, <2>2, <2>3, <1>4
<1>6. ASSUME NEW x \in Unchecked, new = [raw EXCEPT !.versions[1].inputs = x]
      PROVE  new \in Record /\ ~ IsModel(new)
  <2> DEFINE v == [vs[1] EXCEPT !.inputs = x]
  <2>1. v \in Version /\ v.inputs = x
    BY <1>1, StoredAssumption DEF Version
  <2>2. new = [raw EXCEPT !.versions = [vs EXCEPT ![1] = v]]
    BY <1>1, <1>6 DEF Record
  <2>3. ~ IsVersion(v)
    BY <2>1 DEF IsVersion
  <2> HIDE DEF v, vs
  <2> QED BY <2>1, <2>2, <2>3, <1>4
<1> QED BY <1>2, <1>3, <1>5, <1>6 DEF DamagedRecords

\* Damage is not taken for data.
LEMMA DamageStep ==
    ASSUME StoredInv, Damage, models' = ModelsIn(Contents')
    PROVE  models' = models /\ births' = births /\ clock' = clock /\ Listed'
<1>1. /\ backup = NoBackup /\ Readable(file) /\ file # NoFile /\ backup' = file
      /\ births' = births /\ clock' = clock
  BY DEF Damage
<1>2. file \in Documents /\ file.schema_version = 1 /\ Undamaged = file
  BY <1>1 DEF StoredInv, Listed, Undamaged, IsDocument
<1>3. Undamaged' = Undamaged /\ Contents' = Contents
  BY <1>1, <1>2, StoredAssumption DEF Undamaged, Contents
<1>5. \A i \in DOMAIN file.models : IsModel(file.models[i]) /\ file.models[i] \in Record
  <2>1. \A i \in DOMAIN file.models : IsModel(file.models[i])
    BY <1>1 DEF Readable
  <2>2. \A i \in DOMAIN file.models : file.models[i] \in Record
    BY <1>2 DEF Documents
  <2> QED BY <2>1, <2>2
<1>4. ~ Readable(file')
  <2>0. file.models \in Seq(Record)
    BY <1>2 DEF Documents
  <2>1. CASE file' = Junk
    BY <2>1, StoredAssumption DEF Readable
  <2>2. CASE file' = [file EXCEPT !.schema_version = 2]
    <3>1. file' \in Documents /\ file'.schema_version = 2
      BY <2>2, <1>2 DEF Documents
    <3> QED BY <3>1, StoredAssumption DEF Readable
  <2>3. ASSUME NEW i \in DOMAIN file.models,
               file' = [file EXCEPT !.models = Append(@, @[i])]
        PROVE  ~ Readable(file')
    <3> DEFINE longer == Append(file.models, file.models[i])
               n == Len(file.models)
    <3>1. /\ longer \in Seq(Record) /\ n \in Nat /\ i \in 1 .. n
          /\ DOMAIN longer = 1 .. n + 1
          /\ longer[n + 1] = file.models[i] /\ longer[i] = file.models[i]
      BY <2>0, <1>5
    <3>2. file' = [file EXCEPT !.models = longer]
      BY <2>3
    <3> HIDE DEF longer, n
    <3>3. file' \in Documents /\ file'.models = longer
      BY <3>1, <3>2, <1>2 DEF Documents
    <3>4. i \in DOMAIN longer /\ n + 1 \in DOMAIN longer /\ i # n + 1
      BY <3>1
    <3> QED BY <3>1, <3>3, <3>4, StoredAssumption DEF Readable
  <2>4. ASSUME NEW i \in DOMAIN file.models, NEW raw \in DamagedRecords(file.models[i]),
               file' = [file EXCEPT !.models[i] = raw]
        PROVE  ~ Readable(file')
    <3> DEFINE changed == [file.models EXCEPT ![i] = raw]
    <3>1. raw \in Record /\ ~ IsModel(raw)
      BY <1>5, DamagedIsNoModel DEF IsModel
    <3>2. changed \in Seq(Record) /\ i \in DOMAIN changed /\ changed[i] = raw
      BY <2>0, <3>1
    <3>3. file' = [file EXCEPT !.models = changed]
      BY <2>4
    <3> HIDE DEF changed
    <3>4. file' \in Documents /\ file'.models = changed
      BY <3>2, <3>3, <1>2 DEF Documents
    <3> QED BY <3>1, <3>2, <3>4, StoredAssumption DEF Readable
  <2> QED BY <2>1, <2>2, <2>3, <2>4 DEF Damage
<1>6. models' = models
  BY <1>3 DEF StoredInv, Listed
<1> QED BY <1>1, <1>3, <1>4, <1>6 DEF StoredInv, Listed

LEMMA RepairStep ==
    ASSUME StoredInv, Repair, models' = ModelsIn(Contents')
    PROVE  models' = models /\ births' = births /\ clock' = clock /\ Listed'
<1>1. /\ backup # NoBackup /\ file' = backup /\ backup' = NoBackup
      /\ births' = births /\ clock' = clock
  BY DEF Repair
<1>2. Undamaged' = Undamaged /\ Contents' = Contents
  BY <1>1 DEF Undamaged, Contents
<1>3. models' = models
  BY <1>2 DEF StoredInv, Listed
<1> QED BY <1>1, <1>2, <1>3 DEF StoredInv, Listed

LEMMA NextSecondStep ==
    ASSUME StoredInv, NextSecond, models' = ModelsIn(Contents')
    PROVE  Tick /\ Listed'
<1>1. file' = file /\ backup' = backup /\ births' = births
      /\ clock < MaxClock /\ clock' = clock + 1
  BY DEF NextSecond
<1>2. Undamaged' = Undamaged /\ Contents' = Contents
  BY <1>1 DEF Undamaged, Contents
<1>3. models' = models
  BY <1>2 DEF StoredInv, Listed
<1> QED BY <1>1, <1>2, <1>3 DEF Tick, StoredInv, Listed

\* A record without the key of its owner is the same model.
LEMMA DropOwnerKeyStep ==
    ASSUME StoredInv, NEW k \in DOMAIN Records(file), DropOwnerKey(k),
           models' = ModelsIn(Contents')
    PROVE  models' = models /\ births' = births /\ clock' = clock /\ Listed'
<1> DEFINE records == file.models
           raw == records[k]
           new == [raw EXCEPT !.owner = Absent]
           changed == [records EXCEPT ![k] = new]
           doc == [file EXCEPT !.models[k].owner = Absent]
<1>1. /\ Readable(file) /\ Records(file)[k].owner = NoUser
      /\ file' = doc /\ backup' = backup /\ births' = births /\ clock' = clock
  BY DEF DropOwnerKey
<1>2. /\ backup = NoBackup /\ Lists(Records(file), models)
      /\ models = ModelsIn(Contents) /\ Undamaged = file /\ IsDocument(file)
  BY <1>1, WholeFile DEF StoredInv, Listed, Undamaged
<1>3. file # NoFile /\ Records(file) = records
  BY <1>1 DEF Records
<1>4. file \in Documents /\ file.schema_version = 1 /\ records \in Seq(Record)
  BY <1>2, <1>3 DEF IsDocument, Documents
<1>5. models = [i \in DOMAIN models |-> models[i]]
  BY <1>2 DEF ModelsIn
<1>6. raw \in Record /\ raw.id \in DOMAIN models /\ models[raw.id] = ModelOf(raw)
  BY <1>2, <1>3, <1>4 DEF Lists
<1>7. /\ new \in Record /\ new.id = raw.id /\ new.name = raw.name /\ new.birth = raw.birth
      /\ new.created_at = raw.created_at /\ new.updated_at = raw.updated_at
      /\ new.versions = raw.versions /\ new.owner = Absent
  BY <1>6 DEF Record
<1>8. models[new.id] = ModelOf(new)
  <2>1. raw.owner = NoUser /\ NoUser # Absent
    BY <1>1, <1>3, StoredAssumption DEF Owners
  <2> HIDE DEF new, raw
  <2> QED BY <2>1, <1>6, <1>7 DEF ModelOf, OwnerIn
<1>9. Lists(changed, models)
  <2>1. \A j \in DOMAIN records : j # k => records[j].id # new.id
    BY <1>2, <1>3, <1>7, DistinctIds
  <2>2. k \in DOMAIN records /\ new.id = records[k].id /\ new.birth = records[k].birth
    BY <1>3, <1>7
  <2> HIDE DEF new, records
  <2> QED BY <2>1, <2>2, <1>2, <1>3, <1>7, <1>8, ReplacedLists
<1>10. /\ doc.models = changed /\ doc.schema_version = 1 /\ doc \in Documents
       /\ doc # NoFile
  <2>1. doc = [file EXCEPT !.models = changed]
    BY <1>3, <1>4 DEF Documents
  <2>2. changed \in Seq(Record)
    BY <1>9 DEF Lists
  <2> HIDE DEF changed, doc
  <2>3. doc \in Documents /\ doc.models = changed /\ doc.schema_version = 1
    BY <2>1, <2>2, <1>4 DEF Documents
  <2> QED BY <2>3, StoredAssumption
<1> HIDE DEF doc, changed
<1>11. Undamaged' = doc /\ Contents' = changed /\ backup' = NoBackup
  BY <1>1, <1>2, <1>10 DEF Undamaged, Contents
<1>12. models' = models
  BY <1>5, <1>9, <1>11, ListsDecode
<1> QED BY <1>1, <1>9, <1>10, <1>11, <1>12 DEF Listed, IsDocument

-----------------------------------------------------------------------------
(* Every step is one of SavedModels, or none.                              *)

LEMMA StoredStep ==
    ASSUME StoredInv, [StoredNext]_storedVars
    PROVE  [StoreNext]_storeVars /\ Listed'
<1>1. CASE UNCHANGED storedVars
  <2>1. UNCHANGED <<models, births, clock, file, backup>>
    BY <1>1 DEF storedVars, storeVars
  <2>2. Undamaged' = Undamaged /\ Contents' = Contents
    BY <2>1 DEF Undamaged, Contents
  <2> QED BY <2>1, <2>2 DEF storeVars, StoredInv, Listed
<1>2. CASE StoredNext
  <2>1. models' = ModelsIn(Contents')
    BY <1>2 DEF StoredNext
  <2>2. ASSUME NEW name \in Names, NEW inputs \in Offered, NEW owner \in Owners,
               NEW id \in Candidates(name), CreateRecord(name, id, inputs, owner)
        PROVE  StoreNext /\ Listed'
    <3>1. name \in Ids /\ id \in Ids
      BY SavedModelsAssumption, CandidatesAreIds DEF Ids
    <3>2. inputs \in Inputs
      BY <2>2 DEF CreateRecord, Offered
    <3>3. Create(name, id, inputs, owner) /\ Listed'
      BY <2>1, <2>2, <3>1, <3>2, CreateRecordStep
    <3> QED BY <3>2, <3>3 DEF StoreNext
  <2>3. ASSUME NEW k \in DOMAIN Records(file), NEW inputs \in Offered,
               UpdateRecord(k, inputs)
        PROVE  StoreNext /\ Listed'
    <3>1. inputs \in Inputs
      BY <2>3 DEF UpdateRecord, Offered
    <3> QED BY <2>1, <2>3, <3>1, UpdateRecordStep DEF StoreNext
  <2>4. ASSUME NEW k \in DOMAIN Records(file), NEW owner \in Owners,
               NEW id \in Candidates(Append(Records(file)[k].name, Copy)),
               CloneRecord(k, id, owner)
        PROVE  StoreNext /\ Listed'
    BY <2>1, <2>4, CloneRecordStep DEF StoreNext
  <2>5. ASSUME NEW k \in DOMAIN Records(file), DeleteRecord(k)
        PROVE  StoreNext /\ Listed'
    BY <2>1, <2>5, DeleteRecordStep DEF StoreNext
  <2>6. CASE NextSecond
    BY <2>1, <2>6, NextSecondStep DEF StoreNext
  <2>7. ASSUME NEW k \in DOMAIN Records(file), DropOwnerKey(k)
        PROVE  UNCHANGED storeVars /\ Listed'
    BY <2>1, <2>7, DropOwnerKeyStep DEF storeVars
  <2>8. CASE Damage
    BY <2>1, <2>8, DamageStep DEF storeVars
  <2>9. CASE Repair
    BY <2>1, <2>9, RepairStep DEF storeVars
  <2> QED BY <1>2, <2>2, <2>3, <2>4, <2>5, <2>6, <2>7, <2>8, <2>9 DEF StoredNext
<1> QED BY <1>1, <1>2

LEMMA StoredInitInv == StoredInit => StoreInit /\ StoredInv
<1> SUFFICES ASSUME StoredInit PROVE StoreInit /\ StoredInv
  OBVIOUS
<1>1. /\ file = NoFile /\ backup = NoBackup /\ births = 0 /\ clock = 0
      /\ models = ModelsIn(Contents)
  BY DEF StoredInit
<1>2. Undamaged = NoFile /\ Contents = <<>>
  BY <1>1 DEF Undamaged, Contents
<1>3. Lists(<<>>, [i \in {} |-> i])
  BY DEF Lists
<1>4. models = [i \in {} |-> i]
  <2>1. ModelsIn(<<>>) = [i \in {} |-> i]
    BY DEF ModelsIn, Range
  <2> QED BY <1>1, <1>2, <2>1
<1>5. StoreInit
  BY <1>1, <1>4 DEF StoreInit
<1>6. StoreInv
  BY <1>5, StoreInitInv
<1>7. Listed
  BY <1>1, <1>2, <1>3, <1>4 DEF Listed, IsDocument
<1> QED BY <1>5, <1>6, <1>7 DEF StoredInv

LEMMA StoredNextInv == StoredInv /\ [StoredNext]_storedVars => StoredInv'
BY StoredStep, StoreNextInv DEF StoredInv

\* The undamaged document decodes to a well-formed store, whatever is created,
\* updated, cloned or deleted, and whatever damage hands do to the file.
THEOREM StoredInvariant == StoredSpec => []StoredInv
<1> QED BY StoredInitInv, StoredNextInv, PTL DEF StoredSpec

-----------------------------------------------------------------------------
(* What the document promises.                                             *)

\* A file that no hand has damaged is one that _read accepts, unless a caller's
\* assumptions, note or owner are in it that the store keeps and does not read.
THEOREM AlwaysWrittenIsRead == StoredSpec => []WrittenIsRead
<1>1. ASSUME StoredInv PROVE WrittenIsRead
  <2> SUFFICES ASSUME backup = NoBackup
               PROVE  Readable(file) <=> \A k \in DOMAIN Contents : ~ Refused(Contents[k])
    BY DEF WrittenIsRead
  <2>1. CASE file = NoFile
    BY <2>1 DEF Readable, Contents, Undamaged
  <2>2. CASE file # NoFile
    <3>1. Undamaged = file /\ Contents = file.models
      BY <2>2 DEF Undamaged, Contents
    <3> QED BY <1>1, <2>2, <3>1, ListsReadable DEF StoredInv, Listed
  <2> QED BY <2>1, <2>2
<1> QED BY <1>1, StoredInvariant, PTL

\* No damaged file passes for data, and the records of the file are told apart
\* and ordered.
THEOREM AlwaysFileHasModels == StoredSpec => []FileHasModels
<1>1. ASSUME StoredInv PROVE FileHasModels
  <2>1. Lists(Contents, models) /\ (backup # NoBackup => ~ Readable(file))
    BY <1>1 DEF StoredInv, Listed
  <2>2. \A j, k \in DOMAIN Contents : j < k => Contents[j].birth < Contents[k].birth
    BY <2>1 DEF Lists
  <2>3. ASSUME NEW j \in DOMAIN Contents, NEW k \in DOMAIN Contents, j < k
        PROVE  Contents[j].id # Contents[k].id
    <3>1. j \in Nat /\ k \in Nat
      BY <2>1 DEF Lists
    <3> QED BY <2>1, <2>3, <3>1, DistinctIds
  <2> QED BY <2>1, <2>2, <2>3 DEF FileHasModels
<1> QED BY <1>1, StoredInvariant, PTL

\* Rewriting the whole file with one record more, less or changed is, for what
\* the file decodes to, an operation of SavedModels; damage and repair are none.
THEOREM FileStoreImplementsStore == StoredSpec => ImplementsStore
<1>1. StoredInit => StoreInit
  BY StoredInitInv
<1>2. StoredInv /\ [StoredNext]_storedVars => [StoreNext]_storeVars
  BY StoredStep
<1> QED BY <1>1, <1>2, StoredInvariant, PTL DEF StoredSpec, StoreSpec, ImplementsStore

\* The history that the file holds of a model is a gapless audit trail.
THEOREM FileHistory == StoredSpec => []HistoryWellFormed
BY FileStoreImplementsStore, StoreHistory, PTL DEF ImplementsStore

\* A file never runs out of ids for new models.
THEOREM FileIdAlwaysFree == StoredSpec => []IdAlwaysFree
BY FileStoreImplementsStore, StoreIdAlwaysFree, PTL DEF ImplementsStore

\* No rewriting of the file writes over a model that it keeps, and no damage
\* that a hand mends does.
THEOREM FileNothingOverwritten == StoredSpec => NothingOverwritten
BY FileStoreImplementsStore, StoreNothingOverwritten, PTL DEF ImplementsStore
=============================================================================
