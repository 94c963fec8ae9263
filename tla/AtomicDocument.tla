---------------------------- MODULE AtomicDocument ----------------------------
(***************************************************************************)
(* What the callers of a JSON store rely on: a document changed by one     *)
(* call at a time, and looked at whole.  The document is the set of the    *)
(* calls whose change it holds; a call that has returned is reported, and  *)
(* the document loses nothing it ever held.  A query sees the document as  *)
(* it is at one moment between the question and the answer.  JsonFile      *)
(* implements this with a file, a temporary file and a rename.             *)
(***************************************************************************)
CONSTANTS
    Calls,    \* the mutating calls that are ever made
    Readers   \* who makes queries, one at a time

VARIABLES
    doc,       \* the calls whose change the document holds
    reported,  \* the calls that have returned to their caller
    query,     \* reader -> where its query is; once "opened", it has looked
    seen       \* reader -> the document it saw last

docVars == <<doc, reported, query, seen>>

DocInit ==
    /\ doc = {} /\ reported = {}
    /\ query = [r \in Readers |-> "idle"]
    /\ seen = [r \in Readers |-> {}]

\* The change of a call becomes part of the document, at once and whole.
Commit(c) == c \notin doc /\ doc' = doc \cup {c} /\ UNCHANGED <<reported, query, seen>>

\* A call returns, its change being in the document.
Report(c) == c \in doc /\ reported' = reported \cup {c} /\ UNCHANGED <<doc, query, seen>>

Begin(r) ==
    /\ query[r] = "idle"
    /\ query' = [query EXCEPT ![r] = "asked"]
    /\ UNCHANGED <<doc, reported, seen>>

Look(r) ==
    /\ query[r] = "asked"
    /\ query' = [query EXCEPT ![r] = "opened"]
    /\ seen' = [seen EXCEPT ![r] = doc]
    /\ UNCHANGED <<doc, reported>>

End(r) ==
    /\ query[r] = "opened"
    /\ query' = [query EXCEPT ![r] = "idle"]
    /\ UNCHANGED <<doc, reported, seen>>

\* A query that begins, looks and ends in one step.
LookAtOnce(r) ==
    /\ query[r] = "idle"
    /\ seen' = [seen EXCEPT ![r] = doc]
    /\ UNCHANGED <<doc, reported, query>>

\* The readers die, and the document stays.
Forget ==
    /\ query' = [r \in Readers |-> "idle"]
    /\ seen' = [r \in Readers |-> {}]
    /\ UNCHANGED <<doc, reported>>

DocNext ==
    \/ \E c \in Calls : Commit(c) \/ Report(c)
    \/ \E r \in Readers : Begin(r) \/ Look(r) \/ End(r) \/ LookAtOnce(r)
    \/ Forget

DocSpec == DocInit /\ [][DocNext]_docVars
=============================================================================
