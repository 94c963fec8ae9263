------------------------------- MODULE JsonFile -------------------------------
(***************************************************************************)
(* How ModelStore, JsonUserStore and JsonResetTokenStore keep a document   *)
(* in a file.  Every mutating call reads and validates the whole file      *)
(* (_read), changes the copy, and writes it all back (_write): it opens    *)
(* path.tmp, truncating what is there, writes the new text, and renames    *)
(* path.tmp over path.                                                     *)
(*                                                                         *)
(* A query (list_models, get, find_by_email) is a _read alone: is the file *)
(* there, open it, read it.                                                *)
(*                                                                         *)
(* The calls run in the threads of one process.  Serial says that mutating *)
(* calls do not overlap, the use the stores are made for ("concurrent      *)
(* writers are out of scope"); queries, which every run of the script of   *)
(* every session makes, overlap with anything.  The process may crash      *)
(* between any two steps, and in the middle of a write; a write may fail   *)
(* and raise.  What was written stays in the file system, a left over      *)
(* path.tmp included.                                                      *)
(***************************************************************************)
EXTENDS Naturals, FiniteSets

CONSTANTS
    Threads,     \* threads of the application that make a mutating call
    Readers,     \* threads that make a query
    Inodes,      \* files a directory entry can point to
    NoFile,      \* a directory entry that does not exist
    Serial,      \* BOOLEAN: the calls of the threads do not overlap
    MaxCalls,    \* bound: mutating calls of one behaviour
    MaxCrashes   \* bound: crashes of the process

ASSUME JsonFileAssumption ==
    /\ NoFile \notin Inodes
    /\ Serial \in BOOLEAN
    /\ MaxCalls \in Nat /\ MaxCrashes \in Nat

VARIABLES
    content,   \* inode -> what the file holds
    path,      \* the inode of the store's file
    tmp,       \* the inode of path.tmp
    pc,        \* thread -> how far its call is
    call,      \* thread -> the number of its call
    snapshot,  \* thread -> the document it read
    fd,        \* thread -> the inode it has open for writing
    at,        \* reader -> how far its query is
    rfd,       \* reader -> the inode it has open for reading
    known,     \* reader -> the calls that had returned when it asked
    answer,    \* reader -> the document its last query gave
    calls,     \* calls made so far
    reported,  \* calls that have returned
    crashes    \* crashes so far

readerVars == <<at, rfd, known, answer>>
fileVars == <<content, path, tmp, pc, call, snapshot, fd, calls, reported, crashes,
              at, rfd, known, answer>>

\* A document is the set of the calls whose change it holds; a file that was
\* just opened for writing is empty, one holding part of a text is torn.
Docs == SUBSET Nat
Contents == [state : {"complete", "empty", "torn"}, doc : Docs]

Complete(d) == [state |-> "complete", doc |-> d]
Empty == [state |-> "empty", doc |-> {}]
Torn == [state |-> "torn", doc |-> {}]
Phases == {"idle", "read", "opened", "written", "renamed"}
QueryPhases == {"idle", "asked", "opened"}

\* What a reader finds; a missing file is an empty store, and only a complete
\* document parses.
Readable == path # NoFile => content[path].state = "complete"
Stored == IF path = NoFile THEN {} ELSE content[path].doc

-----------------------------------------------------------------------------
(* One mutating call.                                                      *)

\* Wrong: what the thread read before is used again.
ReadCached(t) ==
    /\ pc[t] = "idle"
    /\ Serial => \A u \in Threads : pc[u] = "idle"
    /\ calls < MaxCalls
    /\ Readable
    /\ pc' = [pc EXCEPT ![t] = "read"]
    /\ call' = [call EXCEPT ![t] = calls]
    /\ snapshot' = [snapshot EXCEPT ![t] = IF @ = {} THEN Stored ELSE @]
    /\ calls' = calls + 1
    /\ UNCHANGED <<content, path, tmp, fd, reported, crashes, readerVars>>

\* _read.  On a file that does not parse, the call raises and changes nothing.
Read(t) ==
    /\ pc[t] = "idle"
    /\ Serial => \A u \in Threads : pc[u] = "idle"
    /\ calls < MaxCalls
    /\ Readable
    /\ pc' = [pc EXCEPT ![t] = "read"]
    /\ call' = [call EXCEPT ![t] = calls]
    /\ snapshot' = [snapshot EXCEPT ![t] = Stored]
    /\ calls' = calls + 1
    /\ UNCHANGED <<content, path, tmp, fd, reported, crashes, readerVars>>

\* The store refuses the change (an unknown id, a registered email, no token
\* to remove): nothing is written.
Refuse(t) ==
    /\ pc[t] = "read"
    /\ pc' = [pc EXCEPT ![t] = "idle"]
    /\ UNCHANGED <<content, path, tmp, call, snapshot, fd, calls, reported, crashes, readerVars>>

\* Wrong: the file itself is opened and truncated.
OpenPath(t) ==
    /\ pc[t] = "read"
    /\ \E i \in Inodes :
          /\ path # NoFile => i = path
          /\ path' = i
          /\ fd' = [fd EXCEPT ![t] = i]
          /\ content' = [content EXCEPT ![i] = Empty]
    /\ pc' = [pc EXCEPT ![t] = "opened"]
    /\ UNCHANGED <<tmp, call, snapshot, calls, reported, crashes, readerVars>>

\* write_text opens path.tmp: a new file, or the one there, truncated.
OpenTmp(t) ==
    /\ pc[t] = "read"
    /\ \E i \in Inodes :
          /\ IF tmp = NoFile
             THEN i # path /\ (\A u \in Threads : fd[u] # i) /\ (\A r \in Readers : rfd[r] # i)
             ELSE i = tmp
          /\ tmp' = i
          /\ fd' = [fd EXCEPT ![t] = i]
          /\ content' = [content EXCEPT ![i] = Empty]
    /\ pc' = [pc EXCEPT ![t] = "opened"]
    /\ UNCHANGED <<path, call, snapshot, calls, reported, crashes, readerVars>>

\* Wrong: the text is still in a buffer when the call goes on.
WriteTextBuffered(t) ==
    /\ pc[t] = "opened"
    /\ content' = [content EXCEPT ![fd[t]] =
                     [state |-> "buffered", doc |-> snapshot[t] \cup {call[t]}]]
    /\ fd' = [fd EXCEPT ![t] = NoFile]
    /\ pc' = [pc EXCEPT ![t] = "written"]
    /\ UNCHANGED <<path, tmp, call, snapshot, calls, reported, crashes, readerVars>>

\* The text goes to the open file from its start, and the file is closed.
\* Over the text of another thread, the end of a longer one is left behind.
WriteText(t) ==
    /\ pc[t] = "opened"
    /\ \E text \in {Complete(snapshot[t] \cup {call[t]}), Torn} :
          /\ text = Torn => content[fd[t]] # Empty
          /\ content' = [content EXCEPT ![fd[t]] = text]
    /\ fd' = [fd EXCEPT ![t] = NoFile]
    /\ pc' = [pc EXCEPT ![t] = "written"]
    /\ UNCHANGED <<path, tmp, call, snapshot, calls, reported, crashes, readerVars>>

\* Wrong: the error is swallowed, and the call goes on to the rename.
WriteFailsUnnoticed(t) ==
    /\ pc[t] = "opened"
    /\ \E text \in {content[fd[t]], Torn} : content' = [content EXCEPT ![fd[t]] = text]
    /\ fd' = [fd EXCEPT ![t] = NoFile]
    /\ pc' = [pc EXCEPT ![t] = "written"]
    /\ UNCHANGED <<path, tmp, call, snapshot, calls, reported, crashes, readerVars>>

\* The write raises (a full disk): path.tmp holds what was written of it.
WriteFails(t) ==
    /\ pc[t] = "opened"
    /\ \E text \in {content[fd[t]], Torn} : content' = [content EXCEPT ![fd[t]] = text]
    /\ fd' = [fd EXCEPT ![t] = NoFile]
    /\ pc' = [pc EXCEPT ![t] = "idle"]
    /\ UNCHANGED <<path, tmp, call, snapshot, calls, reported, crashes, readerVars>>

\* Wrong: the call waits for a path.tmp to be there.
RenameWaits(t) ==
    /\ pc[t] = "written"
    /\ tmp # NoFile
    /\ pc' = [pc EXCEPT ![t] = "renamed"]
    /\ path' = tmp
    /\ tmp' = NoFile
    /\ UNCHANGED <<content, call, snapshot, fd, calls, reported, crashes, readerVars>>

\* tmp.replace(path) renames whatever path.tmp is now; it raises when another
\* thread has renamed it already.
Rename(t) ==
    /\ pc[t] = "written"
    /\ IF tmp = NoFile
       THEN /\ pc' = [pc EXCEPT ![t] = "idle"]
            /\ UNCHANGED <<path, tmp>>
       ELSE /\ pc' = [pc EXCEPT ![t] = "renamed"]
            /\ path' = tmp
            /\ tmp' = NoFile
    /\ UNCHANGED <<content, call, snapshot, fd, calls, reported, crashes, readerVars>>

\* The call returns to its caller.
Return(t) ==
    /\ pc[t] = "renamed"
    /\ pc' = [pc EXCEPT ![t] = "idle"]
    /\ reported' = reported \cup {call[t]}
    /\ UNCHANGED <<content, path, tmp, call, snapshot, fd, calls, crashes, readerVars>>

-----------------------------------------------------------------------------
(* One query.                                                              *)

\* path.exists(); a missing file is an empty store.
Ask(r) ==
    /\ at[r] = "idle"
    /\ known' = [known EXCEPT ![r] = reported]
    /\ IF path = NoFile
       THEN answer' = [answer EXCEPT ![r] = {}] /\ UNCHANGED at
       ELSE at' = [at EXCEPT ![r] = "asked"] /\ UNCHANGED answer
    /\ UNCHANGED <<content, path, tmp, pc, call, snapshot, fd, calls, reported, crashes, rfd>>

\* Wrong: the newer text is taken, path.tmp when there is one.
OpenNewest(r) ==
    /\ at[r] = "asked"
    /\ at' = [at EXCEPT ![r] = "opened"]
    /\ rfd' = [rfd EXCEPT ![r] = IF tmp # NoFile THEN tmp ELSE path]
    /\ UNCHANGED <<content, path, tmp, pc, call, snapshot, fd, calls, reported, crashes,
                   known, answer>>

\* read_text opens what path names by now; nothing ever removes path.
OpenFile(r) ==
    /\ at[r] = "asked"
    /\ path # NoFile
    /\ at' = [at EXCEPT ![r] = "opened"]
    /\ rfd' = [rfd EXCEPT ![r] = path]
    /\ UNCHANGED <<content, path, tmp, pc, call, snapshot, fd, calls, reported, crashes,
                   known, answer>>

\* It reads the open file, whatever path names since.  A text that does not
\* parse makes the query raise, and there is no answer.
ReadText(r) ==
    /\ at[r] = "opened"
    /\ IF content[rfd[r]].state = "complete"
       THEN answer' = [answer EXCEPT ![r] = content[rfd[r]].doc] /\ UNCHANGED known
       ELSE /\ answer' = [answer EXCEPT ![r] = {}]
            /\ known' = [known EXCEPT ![r] = {}]
    /\ at' = [at EXCEPT ![r] = "idle"]
    /\ rfd' = [rfd EXCEPT ![r] = NoFile]
    /\ UNCHANGED <<content, path, tmp, pc, call, snapshot, fd, calls, reported, crashes>>

-----------------------------------------------------------------------------
\* The process dies and is started again; of the files being written, part
\* of the text may be there.
Crash ==
    /\ crashes < MaxCrashes
    /\ (\E t \in Threads : pc[t] # "idle") \/ (\E r \in Readers : at[r] # "idle")
    /\ \E torn \in SUBSET {fd[t] : t \in Threads} :
          content' = [i \in Inodes |-> IF i \in torn THEN Torn ELSE content[i]]
    /\ pc' = [t \in Threads |-> "idle"]
    /\ fd' = [t \in Threads |-> NoFile]
    /\ at' = [r \in Readers |-> "idle"]
    /\ rfd' = [r \in Readers |-> NoFile]
    /\ known' = [r \in Readers |-> {}]
    /\ answer' = [r \in Readers |-> {}]
    /\ crashes' = crashes + 1
    /\ UNCHANGED <<path, tmp, call, snapshot, calls, reported>>

-----------------------------------------------------------------------------
FileInit ==
    /\ content = [i \in Inodes |-> Empty]
    /\ path = NoFile
    /\ tmp = NoFile
    /\ pc = [t \in Threads |-> "idle"]
    /\ call = [t \in Threads |-> 0]
    /\ snapshot = [t \in Threads |-> {}]
    /\ fd = [t \in Threads |-> NoFile]
    /\ at = [r \in Readers |-> "idle"]
    /\ rfd = [r \in Readers |-> NoFile]
    /\ known = [r \in Readers |-> {}]
    /\ answer = [r \in Readers |-> {}]
    /\ calls = 0
    /\ reported = {}
    /\ crashes = 0

\* A call that has begun goes on by these steps.
Proceed(t) == Refuse(t) \/ OpenTmp(t) \/ WriteText(t) \/ WriteFails(t) \/ Rename(t) \/ Return(t)

\* A query that has begun goes on by these.
Continue(r) == OpenFile(r) \/ ReadText(r)

FileNext ==
    \/ Crash
    \/ \E t \in Threads : Read(t) \/ Proceed(t)
    \/ \E r \in Readers : Ask(r) \/ Continue(r)

FileSpec == FileInit /\ [][FileNext]_fileVars

\* A running thread gets on with its call or query.
LiveFileSpec ==
    /\ FileSpec
    /\ \A t \in Threads : WF_fileVars(Proceed(t))
    /\ \A r \in Readers : WF_fileVars(Continue(r))

-----------------------------------------------------------------------------
(* What makes the protocol correct.                                        *)

FileTypeOK ==
    /\ content \in [Inodes -> Contents]
    /\ path \in Inodes \cup {NoFile}
    /\ tmp \in Inodes \cup {NoFile}
    /\ pc \in [Threads -> Phases]
    /\ call \in [Threads -> Nat]
    /\ snapshot \in [Threads -> Docs]
    /\ fd \in [Threads -> Inodes \cup {NoFile}]
    /\ at \in [Readers -> QueryPhases]
    /\ rfd \in [Readers -> Inodes \cup {NoFile}]
    /\ known \in [Readers -> Docs]
    /\ answer \in [Readers -> Docs]
    /\ calls \in Nat
    /\ reported \in SUBSET Nat
    /\ crashes \in Nat

\* "An interrupted save cannot truncate an existing store": whatever step a
\* crash or a failed write comes after, the file is missing or a complete
\* document.
NeverTorn == Readable

\* What a caller was told is done is in the file, after every crash.
ReportedIsStored == reported \subseteq Stored

\* A query never meets a file that is being written, however the renames of
\* mutating calls fall between its steps, and its answer holds every change
\* that had been reported done when it was asked ("path.tmp ... then replace").
AnswersAreWhole ==
    \A r \in Readers :
       /\ at[r] = "opened" => content[rfd[r]].state = "complete"
       /\ at[r] = "idle" => known[r] \subseteq answer[r] /\ answer[r] \subseteq Stored

\* What a query gives, from when it has opened the file.
Seen == [r \in Readers |-> IF at[r] = "opened" THEN content[rfd[r]].doc ELSE answer[r]]

\* Seen from its callers the file is a document changed by whole calls, each
\* applied to all that was there, none ever lost; a query looks at it at one
\* moment between its begin and its end, when it opens the file.
Document == INSTANCE AtomicDocument WITH
    Calls <- 0 .. MaxCalls - 1,
    doc <- Stored,
    query <- at,
    seen <- Seen
FileImplementsDocument == Document!DocSpec

\* Every call and every query comes to an end, a left over path.tmp or not.
CallsEnd ==
    /\ \A t \in Threads : pc[t] # "idle" ~> pc[t] = "idle"
    /\ \A r \in Readers : at[r] # "idle" ~> at[r] = "idle"
=============================================================================
