--------------------------- MODULE JsonFile_proofs ---------------------------
(***************************************************************************)
(* Proofs about JsonFile, for any number of threads, calls and crashes:    *)
(* while mutating calls do not overlap, the file is never torn, holds      *)
(* every change that was reported, gives every query a whole document, and *)
(* implements AtomicDocument.                                              *)
(***************************************************************************)
EXTENDS JsonFile, TLAPS

-----------------------------------------------------------------------------
(* Type correctness, which needs no assumption on overlapping.             *)

LEMMA ContentsType ==
    /\ Empty \in Contents
    /\ Torn \in Contents
    /\ \A d \in Docs : Complete(d) \in Contents
BY DEF Empty, Torn, Complete, Contents, Docs

\* A query reads a file it has opened.
OpenIsOpen == \A r \in Readers : at[r] = "opened" => rfd[r] \in Inodes

LEMMA FileTypeStep == FileTypeOK /\ OpenIsOpen /\ [FileNext]_fileVars => FileTypeOK'
<1> SUFFICES ASSUME FileTypeOK, OpenIsOpen, [FileNext]_fileVars PROVE FileTypeOK'
  OBVIOUS
<1> USE ContentsType DEF FileTypeOK, Phases, readerVars
<1>1. ASSUME NEW t \in Threads, Read(t) PROVE FileTypeOK'
  <2>1. Stored \in Docs
    BY DEF Stored, Docs, Contents
  <2> QED BY <1>1, <2>1 DEF Read
<1>2. ASSUME NEW t \in Threads, Refuse(t) PROVE FileTypeOK'
  BY <1>2 DEF Refuse
<1>3. ASSUME NEW t \in Threads, OpenTmp(t) PROVE FileTypeOK'
  BY <1>3 DEF OpenTmp
<1>4. ASSUME NEW t \in Threads, WriteText(t) PROVE FileTypeOK'
  <2>1. Complete(snapshot[t] \cup {call[t]}) \in Contents
    BY DEF Docs
  <2>2. content' \in [Inodes -> Contents]
    <3>1. PICK text \in Contents : content' = [content EXCEPT ![fd[t]] = text]
      BY <1>4, <2>1 DEF WriteText
    <3> QED BY <3>1
  <2> QED BY <1>4, <2>2 DEF WriteText
<1>5. ASSUME NEW t \in Threads, WriteFails(t) PROVE FileTypeOK'
  <2>1. PICK text \in {content[fd[t]], Torn} : content' = [content EXCEPT ![fd[t]] = text]
    BY <1>5 DEF WriteFails
  <2>2. content' \in [Inodes -> Contents]
    BY <2>1
  <2> QED BY <1>5, <2>2 DEF WriteFails
<1>6. ASSUME NEW t \in Threads, Rename(t) PROVE FileTypeOK'
  BY <1>6 DEF Rename
<1>7. ASSUME NEW t \in Threads, Return(t) PROVE FileTypeOK'
  BY <1>7 DEF Return
<1>8. CASE Crash
  BY <1>8 DEF Crash, Docs, QueryPhases
<1>9. CASE UNCHANGED fileVars
  BY <1>9 DEF fileVars
<1>10. ASSUME NEW r \in Readers, Ask(r) PROVE FileTypeOK'
  BY <1>10 DEF Ask, Docs, QueryPhases
<1>11. ASSUME NEW r \in Readers, OpenFile(r) PROVE FileTypeOK'
  BY <1>11 DEF OpenFile, QueryPhases
<1>12. ASSUME NEW r \in Readers, ReadText(r) PROVE FileTypeOK'
  <2>1. content[rfd[r]].doc \in Docs
    BY <1>12 DEF ReadText, OpenIsOpen, Contents
  <2> QED BY <1>12, <2>1 DEF ReadText, QueryPhases, Docs
<1> QED BY <1>1, <1>2, <1>3, <1>4, <1>5, <1>6, <1>7, <1>8, <1>9, <1>10, <1>11, <1>12
        DEF FileNext, Proceed, Continue

LEMMA OpenIsOpenStep == FileTypeOK /\ OpenIsOpen /\ [FileNext]_fileVars => OpenIsOpen'
<1> SUFFICES ASSUME FileTypeOK, OpenIsOpen, [FileNext]_fileVars PROVE OpenIsOpen'
  OBVIOUS
<1>1. ASSUME UNCHANGED readerVars PROVE OpenIsOpen'
  BY <1>1 DEF readerVars, OpenIsOpen
<1>2. ASSUME NEW t \in Threads, Read(t) \/ Proceed(t) PROVE UNCHANGED readerVars
  BY <1>2 DEF Proceed, Read, Refuse, OpenTmp, WriteText, WriteFails, Rename, Return
<1>3. CASE Crash
  BY <1>3 DEF Crash, OpenIsOpen
<1>4. ASSUME NEW r \in Readers, Ask(r) \/ Continue(r) PROVE OpenIsOpen'
  BY <1>4 DEF Continue, Ask, OpenFile, ReadText, FileTypeOK, OpenIsOpen
<1>5. CASE UNCHANGED fileVars
  BY <1>1, <1>5 DEF fileVars, readerVars
<1> QED BY <1>1, <1>2, <1>3, <1>4, <1>5 DEF FileNext

\* Every file, directory entry, call and query is well typed, whatever
\* overlaps.
THEOREM FileTypeCorrect == FileSpec => []FileTypeOK
<1>1. FileInit => FileTypeOK /\ OpenIsOpen
  BY ContentsType DEF FileInit, FileTypeOK, Phases, QueryPhases, Docs, OpenIsOpen
<1> QED BY <1>1, FileTypeStep, OpenIsOpenStep, PTL DEF FileSpec

-----------------------------------------------------------------------------
(* The inductive invariant of calls that do not overlap.                   *)

OneCall == \A s, t \in Threads : pc[s] # "idle" /\ pc[t] # "idle" => s = t

\* The file is complete, and is not the one being written.
FileComplete == path # NoFile => path # tmp /\ content[path].state = "complete"

\* The call under way numbers itself, read what is still there, and has in
\* path.tmp what it will rename.
CallOnTrack ==
    \A t \in Threads :
       /\ fd[t] # NoFile => pc[t] = "opened"
       /\ pc[t] # "idle" => call[t] \in 0 .. MaxCalls - 1
       /\ pc[t] \in {"read", "opened", "written"} => snapshot[t] = Stored /\ call[t] \notin Stored
       /\ pc[t] = "opened" => tmp # NoFile /\ fd[t] = tmp /\ content[tmp] = Empty
       /\ pc[t] = "written" => tmp # NoFile /\ content[tmp] = Complete(snapshot[t] \cup {call[t]})
       /\ pc[t] = "renamed" => call[t] \in Stored

\* Later calls have higher numbers, and nothing reported was lost.
Accounted == Stored \subseteq 0 .. calls - 1 /\ calls <= MaxCalls /\ reported \subseteq Stored

CallsNumbered == \A t \in Threads : pc[t] # "idle" => call[t] < calls

\* A query that found the file will find it; one that has it open holds a
\* complete document that nobody writes to, as new as the question at least.
OnTrack(r) ==
    /\ known[r] \subseteq reported
    /\ at[r] = "asked" => path # NoFile
    /\ at[r] = "opened" => /\ rfd[r] \in Inodes /\ rfd[r] # tmp
                          /\ content[rfd[r]].state = "complete"
                          /\ known[r] \subseteq content[rfd[r]].doc
                          /\ content[rfd[r]].doc \subseteq Stored
    /\ at[r] = "idle" => known[r] \subseteq answer[r] /\ answer[r] \subseteq Stored

QueryOnTrack == \A r \in Readers : OnTrack(r)

FileInv ==
    /\ FileTypeOK
    /\ QueryOnTrack
    /\ OneCall
    /\ FileComplete
    /\ CallOnTrack
    /\ Accounted
    /\ CallsNumbered

\* A step that leaves the file and its content alone leaves what is stored.
LEMMA StoredKept ==
    ASSUME path' = path, path # NoFile => content'[path] = content[path]
    PROVE  Stored' = Stored
BY DEF Stored

LEMMA ReadInv ==
    ASSUME Serial, FileInv, NEW t \in Threads, Read(t)
    PROVE  OneCall' /\ FileComplete' /\ CallOnTrack' /\ Accounted' /\ CallsNumbered'
<1> USE DEF FileInv, FileTypeOK
<1>1. Stored' = Stored
  BY StoredKept DEF Read
<1>2. \A u \in Threads : pc[u] = "idle"
  BY DEF Read
<1>3. calls \notin Stored /\ calls \in 0 .. MaxCalls - 1
  BY JsonFileAssumption DEF Accounted, Read
<1>4. OneCall' /\ FileComplete'
  BY <1>2 DEF OneCall, FileComplete, Read
<1>5. CallOnTrack'
  BY <1>1, <1>2, <1>3 DEF CallOnTrack, Read
<1>6. Accounted'
  BY <1>1, JsonFileAssumption DEF Accounted, Read
<1>7. CallsNumbered'
  BY <1>2 DEF CallsNumbered, Read
<1> QED BY <1>4, <1>5, <1>6, <1>7

LEMMA RefuseInv ==
    ASSUME FileInv, NEW t \in Threads, Refuse(t)
    PROVE  OneCall' /\ FileComplete' /\ CallOnTrack' /\ Accounted' /\ CallsNumbered'
<1>1. Stored' = Stored
  BY StoredKept DEF Refuse
<1> QED BY <1>1 DEF FileInv, FileTypeOK, Refuse, OneCall, FileComplete, CallOnTrack,
                    Accounted, CallsNumbered

LEMMA OpenTmpInv ==
    ASSUME FileInv, NEW t \in Threads, OpenTmp(t)
    PROVE  OneCall' /\ FileComplete' /\ CallOnTrack' /\ Accounted' /\ CallsNumbered'
<1> USE DEF FileInv, FileTypeOK
<1>1. PICK i \in Inodes : /\ IF tmp = NoFile THEN i # path ELSE i = tmp
                          /\ tmp' = i
                          /\ fd' = [fd EXCEPT ![t] = i]
                          /\ content' = [content EXCEPT ![i] = Empty]
  BY DEF OpenTmp
<1>2. i # path /\ i # NoFile
  BY <1>1, JsonFileAssumption DEF FileComplete
<1>3. path # NoFile => content'[path] = content[path]
  BY <1>1, <1>2
<1>4. Stored' = Stored
  BY <1>3, StoredKept DEF OpenTmp
<1>5. \A u \in Threads \ {t} : pc[u] = "idle" /\ fd[u] = NoFile
  BY DEF OpenTmp, OneCall, CallOnTrack
<1>6. OneCall' /\ CallsNumbered' /\ Accounted'
  BY <1>4 DEF OpenTmp, OneCall, CallsNumbered, Accounted
<1>7. FileComplete'
  BY <1>1, <1>2, <1>3 DEF OpenTmp, FileComplete
<1>8. CallOnTrack'
  BY <1>1, <1>2, <1>4, <1>5 DEF OpenTmp, CallOnTrack
<1> QED BY <1>6, <1>7, <1>8

LEMMA WriteTextInv ==
    ASSUME FileInv, NEW t \in Threads, WriteText(t)
    PROVE  OneCall' /\ FileComplete' /\ CallOnTrack' /\ Accounted' /\ CallsNumbered'
<1> USE DEF FileInv, FileTypeOK
<1>1. tmp # NoFile /\ fd[t] = tmp /\ content[tmp] = Empty /\ tmp # path
  BY DEF WriteText, CallOnTrack, FileComplete
<1>2. content' = [content EXCEPT ![tmp] = Complete(snapshot[t] \cup {call[t]})]
  BY <1>1 DEF WriteText
<1>3. path # NoFile => content'[path] = content[path]
  BY <1>1, <1>2
<1>4. Stored' = Stored
  BY <1>3, StoredKept DEF WriteText
<1>5. \A u \in Threads \ {t} : pc[u] = "idle" /\ fd[u] = NoFile
  BY DEF WriteText, OneCall, CallOnTrack
<1>6. OneCall' /\ CallsNumbered' /\ Accounted'
  BY <1>4 DEF WriteText, OneCall, CallsNumbered, Accounted
<1>7. FileComplete'
  BY <1>1, <1>2, <1>3 DEF WriteText, FileComplete
<1>8. CallOnTrack'
  <2>1. content'[tmp] = Complete(snapshot[t] \cup {call[t]})
    BY <1>1, <1>2
  <2> QED BY <1>1, <1>4, <1>5, <2>1 DEF WriteText, CallOnTrack
<1> QED BY <1>6, <1>7, <1>8

LEMMA WriteFailsInv ==
    ASSUME FileInv, NEW t \in Threads, WriteFails(t)
    PROVE  OneCall' /\ FileComplete' /\ CallOnTrack' /\ Accounted' /\ CallsNumbered'
<1> USE DEF FileInv, FileTypeOK
<1>1. tmp # NoFile /\ fd[t] = tmp /\ tmp # path
  BY DEF WriteFails, CallOnTrack, FileComplete
<1>2. PICK text : content' = [content EXCEPT ![tmp] = text]
  BY <1>1 DEF WriteFails
<1>3. path # NoFile => content'[path] = content[path]
  BY <1>1, <1>2
<1>4. Stored' = Stored
  BY <1>3, StoredKept DEF WriteFails
<1>5. \A u \in Threads : pc'[u] = "idle" /\ fd'[u] = NoFile
  BY DEF WriteFails, OneCall, CallOnTrack
<1> QED BY <1>1, <1>3, <1>4, <1>5 DEF WriteFails, OneCall, FileComplete, CallOnTrack,
                                      Accounted, CallsNumbered

\* The rename makes the change of the call part of what is stored.
LEMMA RenameStores ==
    ASSUME FileInv, NEW t \in Threads, Rename(t)
    PROVE  /\ Stored' = Stored \cup {call[t]}
           /\ call[t] \notin Stored
           /\ pc' = [pc EXCEPT ![t] = "renamed"]
           /\ path' = tmp /\ tmp' = NoFile
           /\ content'[tmp].state = "complete"
<1>1. /\ pc[t] = "written"
      /\ tmp # NoFile
      /\ content[tmp] = Complete(Stored \cup {call[t]})
      /\ call[t] \notin Stored
  BY DEF Rename, FileInv, FileTypeOK, CallOnTrack
<1> QED BY <1>1 DEF Rename, Stored, Complete

LEMMA RenameInv ==
    ASSUME FileInv, NEW t \in Threads, Rename(t)
    PROVE  OneCall' /\ FileComplete' /\ CallOnTrack' /\ Accounted' /\ CallsNumbered'
<1> USE DEF FileInv, FileTypeOK
<1>1. /\ Stored' = Stored \cup {call[t]}
      /\ pc' = [pc EXCEPT ![t] = "renamed"]
      /\ path' = tmp /\ tmp' = NoFile
      /\ content'[tmp].state = "complete"
      /\ UNCHANGED <<content, call, snapshot, fd, calls, reported>>
  BY RenameStores DEF Rename
<1>2. \A u \in Threads \ {t} : pc[u] = "idle" /\ fd[u] = NoFile
  BY DEF Rename, OneCall, CallOnTrack
<1>3. pc[t] = "written" /\ fd[t] = NoFile
  BY DEF Rename, CallOnTrack
<1>4. OneCall' /\ FileComplete' /\ CallsNumbered'
  BY <1>1, <1>3 DEF OneCall, FileComplete, CallsNumbered
<1>5. CallOnTrack'
  BY <1>1, <1>2, <1>3 DEF CallOnTrack
<1>6. Accounted'
  <2>1. call[t] \in 0 .. calls - 1
    BY <1>3 DEF CallOnTrack, CallsNumbered
  <2> QED BY <1>1, <2>1 DEF Accounted
<1> QED BY <1>4, <1>5, <1>6

LEMMA ReturnInv ==
    ASSUME FileInv, NEW t \in Threads, Return(t)
    PROVE  OneCall' /\ FileComplete' /\ CallOnTrack' /\ Accounted' /\ CallsNumbered'
<1>1. Stored' = Stored
  BY StoredKept DEF Return
<1>2. call[t] \in Stored
  BY DEF Return, FileInv, CallOnTrack
<1> QED BY <1>1, <1>2 DEF FileInv, FileTypeOK, Return, OneCall, FileComplete, CallOnTrack,
                          Accounted, CallsNumbered

LEMMA CrashInv ==
    ASSUME FileInv, Crash
    PROVE  OneCall' /\ FileComplete' /\ CallOnTrack' /\ Accounted' /\ CallsNumbered'
<1> USE DEF FileInv, FileTypeOK
<1>1. PICK torn \in SUBSET {fd[t] : t \in Threads} :
         content' = [i \in Inodes |-> IF i \in torn THEN Torn ELSE content[i]]
  BY DEF Crash
<1>2. \A t \in Threads : fd[t] # NoFile => fd[t] = tmp
  BY DEF CallOnTrack
<1>3. path # NoFile => path \notin torn
  BY <1>2 DEF FileComplete
<1>4. path # NoFile => content'[path] = content[path]
  BY <1>1, <1>3
<1>5. Stored' = Stored
  BY <1>4, StoredKept DEF Crash
<1>6. \A t \in Threads : pc'[t] = "idle" /\ fd'[t] = NoFile
  BY DEF Crash
<1> QED BY <1>4, <1>5, <1>6 DEF Crash, OneCall, FileComplete, CallOnTrack, Accounted,
                                CallsNumbered

\* A step of a call writes to no file a query has open, and what is stored
\* and reported only grows.
LEMMA QueryKept ==
    ASSUME QueryOnTrack, UNCHANGED readerVars,
           \A r \in Readers : at[r] = "opened"
              => rfd[r] # tmp' /\ content'[rfd[r]] = content[rfd[r]],
           path # NoFile => path' # NoFile,
           Stored \subseteq Stored', reported \subseteq reported'
    PROVE  QueryOnTrack'
BY DEF QueryOnTrack, OnTrack, readerVars

LEMMA CallQueryInv ==
    ASSUME FileInv, NEW t \in Threads, Read(t) \/ Proceed(t)
    PROVE  QueryOnTrack'
<1> USE DEF FileInv
<1>1. UNCHANGED readerVars
  BY DEF Proceed, Read, Refuse, OpenTmp, WriteText, WriteFails, Rename, Return
<1>2. CASE Read(t) \/ Refuse(t) \/ Return(t)
  <2>1. Stored' = Stored
    BY <1>2, StoredKept DEF Read, Refuse, Return
  <2>2. tmp' = tmp /\ content' = content /\ path' = path /\ reported \subseteq reported'
    BY <1>2 DEF Read, Refuse, Return
  <2> QED BY <1>1, <2>1, <2>2, QueryKept DEF QueryOnTrack, OnTrack
<1>3. CASE OpenTmp(t)
  <2>1. PICK i \in Inodes : /\ IF tmp = NoFile
                               THEN i # path /\ \A r \in Readers : rfd[r] # i
                               ELSE i = tmp
                            /\ tmp' = i
                            /\ content' = [content EXCEPT ![i] = Empty]
    BY <1>3 DEF OpenTmp
  <2>2. \A r \in Readers : at[r] = "opened"
           => rfd[r] # i /\ content'[rfd[r]] = content[rfd[r]]
    BY <2>1 DEF QueryOnTrack, OnTrack, FileTypeOK
  <2>3. path # NoFile => content'[path] = content[path]
    BY <2>1 DEF FileComplete, FileTypeOK
  <2>4. path' = path /\ reported' = reported
    BY <1>3 DEF OpenTmp
  <2>5. Stored' = Stored
    BY <2>3, <2>4, StoredKept
  <2> QED BY <1>1, <2>1, <2>2, <2>4, <2>5, QueryKept
<1>4. CASE WriteText(t) \/ WriteFails(t)
  <2>1. fd[t] = tmp /\ tmp' = tmp /\ path' = path /\ reported' = reported
    BY <1>4 DEF WriteText, WriteFails, CallOnTrack
  <2>2. \A i \in Inodes \ {tmp} : content'[i] = content[i]
    BY <1>4, <2>1 DEF WriteText, WriteFails, FileTypeOK
  <2>3. Stored' = Stored
    BY <2>1, <2>2, StoredKept DEF FileComplete, FileTypeOK
  <2> QED BY <1>1, <2>1, <2>2, <2>3, QueryKept DEF QueryOnTrack, OnTrack
<1>5. CASE Rename(t)
  <2>1. path' = tmp /\ tmp' = NoFile /\ content' = content /\ reported' = reported
    BY <1>5, RenameStores DEF Rename
  <2>2. tmp # NoFile
    BY <1>5 DEF Rename, CallOnTrack
  <2>3. Stored \subseteq Stored'
    BY <1>5, RenameStores
  <2> QED BY <1>1, <2>1, <2>2, <2>3, QueryKept, JsonFileAssumption DEF QueryOnTrack, OnTrack
<1> QED BY <1>2, <1>3, <1>4, <1>5 DEF Proceed

LEMMA CrashQueryInv ==
    ASSUME FileInv, Crash
    PROVE  QueryOnTrack'
<1>1. \A r \in Readers : at'[r] = "idle" /\ known'[r] = {} /\ answer'[r] = {}
  BY DEF Crash
<1> QED BY <1>1 DEF QueryOnTrack, OnTrack

\* The steps of a query change nothing the calls use.
LEMMA ReaderStep ==
    ASSUME NEW r \in Readers, Ask(r) \/ Continue(r)
    PROVE  /\ UNCHANGED <<content, path, tmp, pc, call, snapshot, fd, calls, reported>>
           /\ Stored' = Stored
<1>1. UNCHANGED <<content, path, tmp, pc, call, snapshot, fd, calls, reported>>
  BY DEF Ask, Continue, OpenFile, ReadText
<1> QED BY <1>1, StoredKept

LEMMA ReaderInv ==
    ASSUME FileInv, NEW r \in Readers, Ask(r) \/ Continue(r)
    PROVE  /\ OneCall' /\ FileComplete' /\ CallOnTrack' /\ Accounted' /\ CallsNumbered'
           /\ QueryOnTrack'
<1> USE DEF FileInv, FileTypeOK
<1>1. OneCall' /\ FileComplete' /\ CallOnTrack' /\ Accounted' /\ CallsNumbered'
  BY ReaderStep DEF OneCall, FileComplete, CallOnTrack, Accounted, CallsNumbered
<1>2. ASSUME NEW q \in Readers \ {r} PROVE OnTrack(q)'
  <2>1. at'[q] = at[q] /\ rfd'[q] = rfd[q] /\ known'[q] = known[q] /\ answer'[q] = answer[q]
    BY DEF Ask, Continue, OpenFile, ReadText
  <2> QED BY <2>1, ReaderStep DEF QueryOnTrack, OnTrack
<1>3. CASE Ask(r)
  <2>1. path = NoFile => Stored = {} /\ reported = {}
    BY DEF Stored, Accounted
  <2>2. /\ known'[r] = reported
        /\ path = NoFile => at'[r] = "idle" /\ answer'[r] = {}
        /\ path # NoFile => at'[r] = "asked"
    BY <1>3 DEF Ask
  <2>3. OnTrack(r)'
    BY <2>1, <2>2, ReaderStep DEF OnTrack
  <2> QED BY <1>1, <1>2, <2>3 DEF QueryOnTrack
<1>4. CASE OpenFile(r)
  <2>1. path \in Inodes /\ path # tmp /\ content[path].state = "complete"
    BY <1>4 DEF OpenFile, FileComplete
  <2>2. Stored = content[path].doc /\ known[r] \subseteq reported /\ reported \subseteq Stored
    BY <1>4 DEF OpenFile, Stored, QueryOnTrack, OnTrack, Accounted
  <2>3. at'[r] = "opened" /\ rfd'[r] = path /\ known'[r] = known[r]
    BY <1>4 DEF OpenFile
  <2>4. OnTrack(r)'
    BY <2>1, <2>2, <2>3, ReaderStep DEF OnTrack
  <2> QED BY <1>1, <1>2, <2>4 DEF QueryOnTrack
<1>5. CASE ReadText(r)
  <2>1. OnTrack(r) /\ at[r] = "opened"
    BY <1>5 DEF ReadText, QueryOnTrack
  <2>2. content[rfd[r]].state = "complete"
    BY <2>1 DEF OnTrack
  <2>3. at'[r] = "idle" /\ answer'[r] = content[rfd[r]].doc /\ known' = known
    BY <1>5, <2>2 DEF ReadText
  <2>4. OnTrack(r)'
    BY <2>1, <2>3, ReaderStep DEF OnTrack
  <2> QED BY <1>1, <1>2, <2>4 DEF QueryOnTrack
<1> QED BY <1>3, <1>4, <1>5 DEF Continue

LEMMA FileInvInit == FileInit => FileInv
<1> SUFFICES ASSUME FileInit PROVE FileInv
  OBVIOUS
<1>1. FileTypeOK
  BY ContentsType DEF FileInit, FileTypeOK, Phases, QueryPhases, Docs
<1>2. Stored = {} /\ reported = {} /\ calls = 0
  BY DEF FileInit, Stored
<1>3. Accounted
  BY <1>2, JsonFileAssumption DEF Accounted
<1> QED BY <1>1, <1>3 DEF FileInit, FileInv, OneCall, FileComplete, CallOnTrack, CallsNumbered,
                          QueryOnTrack, OnTrack

LEMMA FileInvNext ==
    ASSUME Serial, FileInv, [FileNext]_fileVars
    PROVE  FileInv'
<1>1. FileTypeOK'
  BY FileTypeStep DEF FileInv, QueryOnTrack, OnTrack, OpenIsOpen
<1>2. ASSUME NEW t \in Threads, Read(t) \/ Proceed(t) PROVE FileInv'
  <2>1. OneCall' /\ FileComplete' /\ CallOnTrack' /\ Accounted' /\ CallsNumbered'
    BY <1>2, ReadInv, RefuseInv, OpenTmpInv, WriteTextInv, WriteFailsInv, RenameInv, ReturnInv
       DEF Proceed
  <2>2. QueryOnTrack'
    BY <1>2, CallQueryInv
  <2> QED BY <1>1, <2>1, <2>2 DEF FileInv
<1>3. CASE Crash
  BY <1>1, <1>3, CrashInv, CrashQueryInv DEF FileInv
<1>4. ASSUME NEW r \in Readers, Ask(r) \/ Continue(r) PROVE FileInv'
  BY <1>1, <1>4, ReaderInv DEF FileInv
<1>5. CASE UNCHANGED fileVars
  BY <1>1, <1>5 DEF fileVars, FileInv, OneCall, FileComplete, CallOnTrack, Accounted,
                    CallsNumbered, QueryOnTrack, OnTrack, Stored
<1> QED BY <1>2, <1>3, <1>4, <1>5 DEF FileNext

THEOREM FileInvariant == ASSUME Serial PROVE FileSpec => []FileInv
<1>1. FileInv /\ [FileNext]_fileVars => FileInv'
  BY FileInvNext
<1> QED BY <1>1, FileInvInit, PTL DEF FileSpec

\* After any crash and any failed write the file is missing or complete.
THEOREM FileNeverTorn == ASSUME Serial PROVE FileSpec => []NeverTorn
<1>1. FileInv => NeverTorn
  BY DEF FileInv, FileComplete, NeverTorn, Readable
<1> QED BY <1>1, FileInvariant, PTL

\* What was reported done is in the file.
THEOREM FileKeepsReported == ASSUME Serial PROVE FileSpec => []ReportedIsStored
<1>1. FileInv => ReportedIsStored
  BY DEF FileInv, Accounted, ReportedIsStored
<1> QED BY <1>1, FileInvariant, PTL

\* A query that overlaps a call reads a whole document with all that was
\* reported when it was asked.
THEOREM AnswersComeWhole == ASSUME Serial PROVE FileSpec => []AnswersAreWhole
<1>1. FileInv => AnswersAreWhole
  BY DEF FileInv, QueryOnTrack, OnTrack, AnswersAreWhole
<1> QED BY <1>1, FileInvariant, PTL

-----------------------------------------------------------------------------
(* The file implements the atomic document.                                *)

\* A step that leaves the queries alone, and what they have open, leaves what
\* their callers see.
LEMMA SeenKept ==
    ASSUME UNCHANGED readerVars,
           \A r \in Readers : at[r] = "opened" => content'[rfd[r]] = content[rfd[r]]
    PROVE  at' = at /\ Seen' = Seen
BY DEF readerVars, Seen

\* No call writes to what is stored or to what a query has open.
LEMMA CallStepKeeps ==
    ASSUME FileInv, NEW t \in Threads, Read(t) \/ Proceed(t)
    PROVE  /\ at' = at /\ Seen' = Seen
           /\ ~Rename(t) => Stored' = Stored
<1> USE DEF FileInv
<1>1. UNCHANGED readerVars
  BY DEF Proceed, Read, Refuse, OpenTmp, WriteText, WriteFails, Rename, Return
<1>2. CASE Read(t) \/ Refuse(t) \/ Return(t) \/ Rename(t)
  <2>1. content' = content
    BY <1>2 DEF Read, Refuse, Return, Rename
  <2>2. ~Rename(t) => Stored' = Stored
    BY <1>2, StoredKept DEF Read, Refuse, Return
  <2> QED BY <1>1, <2>1, <2>2, SeenKept
<1>3. CASE OpenTmp(t)
  <2>1. /\ path # NoFile => content'[path] = content[path]
        /\ \A r \in Readers : at[r] = "opened" => content'[rfd[r]] = content[rfd[r]]
    BY <1>3 DEF OpenTmp, FileComplete, FileTypeOK, QueryOnTrack, OnTrack
  <2> QED BY <1>1, <1>3, <2>1, StoredKept, SeenKept DEF OpenTmp
<1>4. CASE WriteText(t) \/ WriteFails(t)
  <2>1. fd[t] = tmp
    BY <1>4 DEF WriteText, WriteFails, CallOnTrack
  <2>2. /\ path # NoFile => content'[path] = content[path]
        /\ \A r \in Readers : at[r] = "opened" => content'[rfd[r]] = content[rfd[r]]
    BY <1>4, <2>1 DEF WriteText, WriteFails, FileComplete, FileTypeOK, QueryOnTrack, OnTrack
  <2> QED BY <1>1, <1>4, <2>2, StoredKept, SeenKept DEF WriteText, WriteFails
<1> QED BY <1>2, <1>3, <1>4 DEF Proceed

\* A step of a query is a step of the abstract one.
LEMMA QueryStepLooks ==
    ASSUME FileInv, NEW r \in Readers, Ask(r) \/ Continue(r)
    PROVE  [Document!DocNext]_Document!docVars
<1> USE DEF FileInv, FileTypeOK
<1>1. Stored' = Stored /\ reported' = reported /\ content' = content
  BY ReaderStep
<1>2. \A q \in Readers \ {r} : at'[q] = at[q] /\ rfd'[q] = rfd[q] /\ answer'[q] = answer[q]
  BY DEF Ask, Continue, OpenFile, ReadText
<1>3. CASE Ask(r) /\ path = NoFile
  <2>1. at' = at /\ rfd' = rfd /\ at[r] = "idle" /\ answer'[r] = {} /\ Stored = {}
    BY <1>3 DEF Ask, Stored
  <2>2. Seen' = [Seen EXCEPT ![r] = Stored]
    BY <1>1, <1>2, <2>1 DEF Seen
  <2> QED BY <1>1, <2>1, <2>2 DEF Document!DocNext, Document!LookAtOnce
<1>4. CASE Ask(r) /\ path # NoFile
  <2>1. rfd' = rfd /\ answer' = answer /\ at[r] = "idle" /\ at'[r] = "asked"
    BY <1>4 DEF Ask
  <2>2. at[r] = "idle" /\ at' = [at EXCEPT ![r] = "asked"]
    BY <1>4 DEF Ask
  <2>3. Seen' = Seen
    BY <1>1, <1>2, <2>1 DEF Seen
  <2> QED BY <1>1, <2>2, <2>3 DEF Document!DocNext, Document!Begin
<1>5. CASE OpenFile(r)
  <2>1. at[r] = "asked" /\ at'[r] = "opened" /\ content[rfd'[r]].doc = Stored
    BY <1>5 DEF OpenFile, Stored
  <2>2. at[r] = "asked" /\ at' = [at EXCEPT ![r] = "opened"]
    BY <1>5 DEF OpenFile
  <2>3. Seen' = [Seen EXCEPT ![r] = Stored]
    BY <1>1, <1>2, <2>1 DEF Seen
  <2> QED BY <1>1, <2>2, <2>3 DEF Document!DocNext, Document!Look
<1>6. CASE ReadText(r)
  <2>1. content[rfd[r]].state = "complete"
    BY <1>6 DEF ReadText, QueryOnTrack, OnTrack
  <2>2. at[r] = "opened" /\ at'[r] = "idle" /\ answer'[r] = content[rfd[r]].doc
    BY <1>6, <2>1 DEF ReadText
  <2>3. at[r] = "opened" /\ at' = [at EXCEPT ![r] = "idle"]
    BY <1>6 DEF ReadText
  <2>4. Seen' = Seen
    BY <1>1, <1>2, <2>2 DEF Seen
  <2> QED BY <1>1, <2>3, <2>4 DEF Document!DocNext, Document!End
<1> QED BY <1>3, <1>4, <1>5, <1>6 DEF Continue

LEMMA FileStepCommits ==
    ASSUME FileInv, [FileNext]_fileVars
    PROVE  [Document!DocNext]_Document!docVars
<1> USE DEF FileInv
<1>1. ASSUME NEW t \in Threads, Rename(t) PROVE [Document!DocNext]_Document!docVars
  <2>1. call[t] \notin Stored /\ Stored' = Stored \cup {call[t]} /\ reported' = reported
    BY <1>1, RenameStores DEF Rename
  <2>2. call[t] \in 0 .. MaxCalls - 1
    BY <1>1 DEF Rename, CallOnTrack
  <2>3. at' = at /\ Seen' = Seen
    BY <1>1, CallStepKeeps DEF Proceed
  <2> QED BY <2>1, <2>2, <2>3 DEF Document!DocNext, Document!Commit
<1>2. ASSUME NEW t \in Threads, Return(t) PROVE [Document!DocNext]_Document!docVars
  <2>1. call[t] \in Stored /\ call[t] \in 0 .. MaxCalls - 1
    BY <1>2 DEF Return, CallOnTrack
  <2>2. Stored' = Stored /\ reported' = reported \cup {call[t]}
    BY <1>2, StoredKept DEF Return
  <2>3. at' = at /\ Seen' = Seen
    BY <1>2, CallStepKeeps DEF Proceed
  <2> QED BY <2>1, <2>2, <2>3 DEF Document!DocNext, Document!Report
<1>3. ASSUME NEW t \in Threads, Read(t) \/ Proceed(t), ~Rename(t), ~Return(t)
      PROVE  UNCHANGED Document!docVars
  <2>1. at' = at /\ Seen' = Seen /\ Stored' = Stored
    BY <1>3, CallStepKeeps
  <2>2. reported' = reported
    BY <1>3 DEF Proceed, Read, Refuse, OpenTmp, WriteText, WriteFails
  <2> QED BY <2>1, <2>2 DEF Document!docVars
<1>4. ASSUME Crash PROVE Document!Forget
  <2>1. PICK torn \in SUBSET {fd[t] : t \in Threads} :
           content' = [i \in Inodes |-> IF i \in torn THEN Torn ELSE content[i]]
    BY <1>4 DEF Crash
  <2>2. path # NoFile => path \notin torn
    BY DEF CallOnTrack, FileComplete
  <2>3. path # NoFile => content'[path] = content[path]
    BY <2>1, <2>2 DEF FileTypeOK
  <2>4. Stored' = Stored /\ reported' = reported
    BY <1>4, <2>3, StoredKept DEF Crash
  <2>5. at' = [r \in Readers |-> "idle"] /\ Seen' = [r \in Readers |-> {}]
    BY <1>4 DEF Crash, Seen
  <2> QED BY <2>4, <2>5 DEF Document!Forget
<1>5. CASE UNCHANGED fileVars
  <2>1. at' = at /\ Seen' = Seen /\ Stored' = Stored /\ reported' = reported
    BY <1>5 DEF fileVars, Stored, Seen
  <2> QED BY <2>1 DEF Document!docVars
<1> QED BY <1>1, <1>2, <1>3, <1>4, <1>5, QueryStepLooks DEF FileNext, Document!DocNext

\* Calls that do not overlap change the file as if each were one atomic step
\* on a document, and queries see it as it was at one moment, whatever calls,
\* crashes and failed writes come between.
THEOREM FileImplementsAtomicDocument ==
    ASSUME Serial
    PROVE  FileSpec => FileImplementsDocument
<1>1. FileInit => Document!DocInit
  BY DEF FileInit, Document!DocInit, Stored, Seen
<1>2. FileInv /\ [FileNext]_fileVars => [Document!DocNext]_Document!docVars
  BY FileStepCommits
<1> QED BY <1>1, <1>2, FileInvariant, PTL
        DEF FileSpec, FileImplementsDocument, Document!DocSpec
=============================================================================
