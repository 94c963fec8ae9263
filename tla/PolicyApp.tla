------------------------------ MODULE PolicyApp ------------------------------
(***************************************************************************)
(* The saved-models panel of app.py: browser sessions over one SavedModels *)
(* store.  Streamlit answers an event of a session (a click, a choice in a *)
(* selectbox) by running the callback of the widget and then the body of   *)
(* app.py, which lists the store again and redraws the page; each session  *)
(* has a thread of its own.                                                *)
(*                                                                         *)
(* A session is "idle" while its page waits for the user and "running"     *)
(* from the end of a callback to the redraw.  A callback that works on the *)
(* store has a phase for every place where it has read the file and goes   *)
(* on to read or write it again: another session may come in between.      *)
(*   "updating", "deleting"  get and authorize_mutation are done, the _read *)
(*                           of update or delete is next                   *)
(*   "cloning"               get is done, the get of clone is next         *)
(*   "creating"              the _read of create is next                   *)
(*   "writing", "sharing"    the call has read the file, makes of it what  *)
(*                           it is to be, and writes that; two calls that  *)
(*                           do so at a time share the temporary file      *)
(*                                                                         *)
(* SerialCallbacks keeps callbacks of different sessions from overlapping, *)
(* the use ModelStore declares itself made for ("concurrent writers are    *)
(* out of scope"); without it the threads of the sessions interleave.      *)
(* FastReruns is Streamlit's setting of that name, on by default: an event *)
(* may interrupt the redraw for the previous one.  Hands lets a hand spoil *)
(* the file, so that it does not parse, at any moment.                     *)
(***************************************************************************)
EXTENDS SavedModels, FiniteSets

CONSTANTS
    Sessions,         \* browser sessions
    NoChoice,         \* the selectbox of saved models has no value
    SerialCallbacks,  \* BOOLEAN: callbacks of two sessions never overlap
    FastReruns,       \* BOOLEAN: an event may interrupt a redraw
    Hands             \* BOOLEAN: hands may damage the file

ASSUME PolicyAppAssumption ==
    /\ NoChoice \notin Seq(Nat)
    /\ SerialCallbacks \in BOOLEAN
    /\ FastReruns \in BOOLEAN
    /\ Hands \in BOOLEAN

VARIABLES
    readable,  \* the file holds the document models; else it does not parse
    user,      \* session -> the signed-in user id, or NoUser for a guest
    selected,  \* session -> session_state["saved_model_select"]
    controls,  \* session -> the live levers and assumptions
    notice,    \* session -> session_state["_models_msg"], not shown yet
    phase,     \* session -> where its script run is
    call,      \* session -> the call on the store its callback has under way
    snapshot,  \* session -> the document that call has read
    page       \* session -> what its browser shows

sessionVars == <<user, selected, controls, notice, phase, call, snapshot, page>>
appVars == <<models, births, clock, readable,
             user, selected, controls, notice, phase, call, snapshot, page>>

Mutations == {"updating", "deleting"}
Writing == {"writing", "sharing"}
Pending == Mutations \cup {"cloning", "creating"} \cup Writing
Phases == {"idle", "running"} \cup Pending
Notices == {"none", "saved", "loaded", "updated", "cloned", "deleted", "refused", "failed"}
Choices == Ids \cup {NoChoice}

\* The call on the store.  target is the birth of the model that was
\* authorised, name, inputs and owner are those of the model to be made.
Call == [op : {"update", "delete", "clone", "save"}, target : Nat,
         name : Ids, inputs : Inputs, owner : Owners]

NoCall == [op |-> "none"]
NoDocument == [id \in {} |-> id]

\* listed are the options of the selectbox, choice its value; mutable says
\* that Update and Delete are enabled.  A page that is not drawn holds the
\* error of a script that was stopped, or nothing yet.
Page == [drawn : BOOLEAN, account : Owners, listed : SUBSET Ids, choice : Choices,
         mutable : BOOLEAN]

BlankPage == [drawn |-> FALSE, account |-> NoUser, listed |-> {}, choice |-> NoChoice,
              mutable |-> FALSE]

-----------------------------------------------------------------------------
(* Callbacks.                                                              *)

NobodyPending == \A t \in Sessions : phase[t] \notin Pending

\* The user does something on the page session s shows.
Event(s) ==
    /\ phase[s] = "idle" \/ (FastReruns /\ phase[s] = "running")
    /\ page[s].drawn
    /\ SerialCallbacks => NobodyPending

\* The callback ends, leaving a message and a selection; the body is next.
Answer(s, msg, choice) ==
    /\ notice' = [notice EXCEPT ![s] = msg]
    /\ selected' = [selected EXCEPT ![s] = choice]
    /\ phase' = [phase EXCEPT ![s] = "running"]
    /\ call' = [call EXCEPT ![s] = NoCall]
    /\ snapshot' = [snapshot EXCEPT ![s] = NoDocument]
    /\ UNCHANGED page

\* _cb_login, or _cb_register, which signs the new user straight in.
SignIn(s, u) ==
    /\ Event(s)
    /\ page[s].account = NoUser
    /\ user' = [user EXCEPT ![s] = u]
    /\ Answer(s, notice[s], page[s].choice)
    /\ UNCHANGED <<storeVars, readable, controls>>

SignOut(s) ==
    /\ Event(s)
    /\ page[s].account # NoUser
    /\ user' = [user EXCEPT ![s] = NoUser]
    /\ Answer(s, notice[s], page[s].choice)
    /\ UNCHANGED <<storeVars, readable, controls>>

\* A slider, or _apply_selected_scenario: a preset chosen or restored.
EditControls(s, inputs) ==
    /\ Event(s)
    /\ controls' = [controls EXCEPT ![s] = inputs]
    /\ Answer(s, notice[s], page[s].choice)
    /\ UNCHANGED <<storeVars, readable, user>>

\* Another option of the saved-models selectbox.
SelectModel(s, id) ==
    /\ Event(s)
    /\ id \in page[s].listed \ {page[s].choice}
    /\ Answer(s, notice[s], id)
    /\ UNCHANGED <<storeVars, readable, user, controls>>

LoadSelected(s) ==
    LET mid == page[s].choice IN
    /\ Event(s)
    /\ mid # NoChoice
    /\ IF readable /\ mid \in DOMAIN models
       THEN /\ controls' = [controls EXCEPT ![s] = Current(models[mid]).inputs]
            /\ Answer(s, "loaded", mid)
       ELSE Answer(s, "failed", mid) /\ UNCHANGED controls
    /\ UNCHANGED <<storeVars, readable, user>>

\* Bounds: no more models than MaxBirths, those being made included; a click
\* on Update when there are fewer versions than MaxVersions.
RoomForModel ==
    births + Cardinality({t \in Sessions : call[t].op \in {"clone", "save"}}) < MaxBirths
RoomForVersion(id) == Len(models[id].versions) < MaxVersions

\* The callback goes on to a call on the store for model mid.
Goes(s, next, op, mid, target, name) ==
    /\ phase' = [phase EXCEPT ![s] = next]
    /\ selected' = [selected EXCEPT ![s] = mid]
    /\ call' = [call EXCEPT ![s] = [op |-> op, target |-> target, name |-> name,
                                    inputs |-> controls[s], owner |-> user[s]]]
    /\ UNCHANGED <<notice, snapshot, page>>

\* An empty name only leaves a warning.
SaveNew(s, name) ==
    /\ Event(s)
    /\ RoomForModel
    /\ Goes(s, "creating", "save", page[s].choice, 0, name)
    /\ UNCHANGED <<storeVars, readable, user, controls>>

\* The get of _cb_clone_selected_model, for the name.
CloneSelected(s) ==
    LET mid == page[s].choice IN
    /\ Event(s)
    /\ mid # NoChoice
    /\ IF readable /\ mid \in DOMAIN models
       THEN /\ RoomForModel
            /\ Goes(s, "cloning", "clone", mid, 0, Append(models[mid].name, Copy))
       ELSE Answer(s, "failed", mid)
    /\ UNCHANGED <<storeVars, readable, user, controls>>

OpOf == [updating |-> "update", deleting |-> "delete"]

\* Wrong: the page, not the store, says whether the user may.
AuthoriseFromPage(s, pending) ==
    LET mid == page[s].choice IN
    /\ Event(s)
    /\ mid # NoChoice
    /\ page[s].mutable
    /\ IF ~(readable /\ mid \in DOMAIN models)
       THEN Answer(s, "failed", mid)
       ELSE /\ pending = "updating" => RoomForVersion(mid)
            /\ Goes(s, pending, OpOf[pending], mid, models[mid].birth, <<>>)
    /\ UNCHANGED <<storeVars, readable, user, controls>>

\* get and authorize_mutation, the first half of _cb_update_selected_model
\* and of _cb_delete_selected_model.
Authorise(s, pending) ==
    LET mid == page[s].choice IN
    /\ Event(s)
    /\ mid # NoChoice
    /\ page[s].mutable
    /\ IF ~(readable /\ mid \in DOMAIN models)
       THEN Answer(s, "failed", mid)
       ELSE IF ~CanMutate(models[mid], user[s])
       THEN Answer(s, "refused", mid)
       ELSE /\ pending = "updating" => RoomForVersion(mid)
            /\ Goes(s, pending, OpOf[pending], mid, models[mid].birth, <<>>)
    /\ UNCHANGED <<storeVars, readable, user, controls>>

-----------------------------------------------------------------------------
(* The calls on the store: _read, and then _write.                         *)

\* The call of session s has read the file and will write it.
WillWrite(s, document) ==
    LET writers == {t \in Sessions : phase[t] \in Writing}
    IN  /\ snapshot' = [snapshot EXCEPT ![s] = document]
        /\ phase' = [t \in Sessions |->
                        IF t \notin writers \cup {s} THEN phase[t]
                        ELSE IF writers = {} THEN "writing" ELSE "sharing"]
        /\ UNCHANGED <<selected, notice, call, page>>

\* Wrong: the model is taken to be there still.
ReadToMutateIfStored(s) ==
    /\ phase[s] \in Mutations
    /\ readable /\ selected[s] \in DOMAIN models
    /\ WillWrite(s, models)
    /\ UNCHANGED <<storeVars, readable, user, controls>>

\* The _read of update and of delete.
ReadToMutate(s) ==
    /\ phase[s] \in Mutations
    /\ IF readable /\ selected[s] \in DOMAIN models
       THEN WillWrite(s, models)
       ELSE Answer(s, "failed", selected[s])
    /\ UNCHANGED <<storeVars, readable, user, controls>>

\* The get of clone.
ReadSource(s) ==
    /\ phase[s] = "cloning"
    /\ IF readable /\ selected[s] \in DOMAIN models
       THEN LET m == models[selected[s]]
            IN  /\ call' = [call EXCEPT ![s].inputs = Current(m).inputs,
                                        ![s].owner = CloneOwner(m, user[s])]
                /\ phase' = [phase EXCEPT ![s] = "creating"]
                /\ UNCHANGED <<selected, notice, snapshot, page>>
       ELSE Answer(s, "failed", selected[s])
    /\ UNCHANGED <<storeVars, readable, user, controls>>

\* Wrong: create starts from the models that the user sees.
ReadToCreateVisible(s) ==
    /\ phase[s] = "creating"
    /\ IF readable
       THEN WillWrite(s, [id \in {i \in DOMAIN models : VisibleTo(models[i], user[s])}
                            |-> models[id]])
       ELSE Answer(s, "failed", selected[s])
    /\ UNCHANGED <<storeVars, readable, user, controls>>

\* The _read of create.
ReadToCreate(s) ==
    /\ phase[s] = "creating"
    /\ IF readable
       THEN WillWrite(s, models)
       ELSE Answer(s, "failed", selected[s])
    /\ UNCHANGED <<storeVars, readable, user, controls>>

\* The callback does not catch what mkdir, write_text and replace raise:
\* there is no answer, and no page, only the exception.
Raise(s) ==
    /\ phase' = [phase EXCEPT ![s] = "idle"]
    /\ call' = [call EXCEPT ![s] = NoCall]
    /\ snapshot' = [snapshot EXCEPT ![s] = NoDocument]
    /\ page' = [page EXCEPT ![s] = BlankPage]
    /\ UNCHANGED <<selected, notice>>

\* What the call leaves selected: the model it has worked on.
Results(s) ==
    CASE call[s].op = "update" -> {selected[s]}
      [] call[s].op = "delete" -> {NoChoice}
      [] OTHER -> {id \in Candidates(call[s].name) :
                      IsUniqueId(snapshot[s], call[s].name, id)}

Done == [update |-> "updated", delete |-> "deleted", clone |-> "cloned", save |-> "saved"]

\* The rest of the call: the document it has read is changed and written, and
\* the file is that.  If another call renames the shared temporary file away,
\* replace raises although what the call wrote has become the file.
Write(s) ==
    /\ phase[s] \in Writing
    /\ \E id \in Results(s) :
          /\ CASE call[s].op = "update" -> UpdateFrom(snapshot[s], selected[s], call[s].inputs)
               [] call[s].op = "delete" -> DeleteFrom(snapshot[s], selected[s])
               [] OTHER -> CreateFrom(snapshot[s], call[s].name, id,
                                      call[s].inputs, call[s].owner)
          /\ Answer(s, Done[call[s].op], id) \/ (phase[s] = "sharing" /\ Raise(s))
    /\ readable' = TRUE
    /\ UNCHANGED <<user, controls>>

\* An OSError before the rename: the file is as it was.
WriteRaises(s) ==
    /\ phase[s] \in Writing
    /\ Raise(s)
    /\ UNCHANGED <<storeVars, readable, user, controls>>

\* Half of what another call is writing is renamed to the file.
Tear(s) ==
    /\ phase[s] = "sharing"
    /\ Raise(s) \/ \E id \in Results(s) : Answer(s, Done[call[s].op], id)
    /\ readable' = FALSE
    /\ UNCHANGED <<storeVars, user, controls>>

-----------------------------------------------------------------------------
(* The body of app.py.                                                     *)

VisibleIds(viewer) == {id \in DOMAIN models : VisibleTo(models[id], viewer)}

\* A selection that is not visible is dropped; the selectbox then takes its
\* first option.
Settled(choice, visible) ==
    IF choice \in visible THEN choice
    ELSE IF visible = {} THEN NoChoice
    ELSE FirstListed(visible)

\* A store that cannot be read is an error, and the script stops.
Body(s) ==
    /\ phase[s] = "running"
    /\ IF readable
       THEN LET visible == VisibleIds(user[s])
                choice == Settled(selected[s], visible)
            IN  /\ selected' = [selected EXCEPT ![s] = choice]
                /\ notice' = [notice EXCEPT ![s] = "none"]
                /\ page' = [page EXCEPT ![s] =
                     [drawn |-> TRUE, account |-> user[s], listed |-> visible,
                      choice |-> choice,
                      mutable |-> choice # NoChoice /\ CanMutate(models[choice], user[s])]]
       ELSE /\ page' = [page EXCEPT ![s] = BlankPage]
            /\ UNCHANGED <<selected, notice>>
    /\ phase' = [phase EXCEPT ![s] = "idle"]
    /\ UNCHANGED <<storeVars, readable, user, controls, call, snapshot>>

\* Rerun, in the menu of every page.
Rerun(s) ==
    /\ phase[s] = "idle"
    /\ phase' = [phase EXCEPT ![s] = "running"]
    /\ UNCHANGED <<storeVars, readable, user, selected, controls, notice, call, snapshot, page>>

\* The browser loads the page again: a new session, with a preset chosen.
Reload(s, preset) ==
    /\ phase[s] = "idle"
    /\ user' = [user EXCEPT ![s] = NoUser]
    /\ selected' = [selected EXCEPT ![s] = NoChoice]
    /\ controls' = [controls EXCEPT ![s] = preset]
    /\ notice' = [notice EXCEPT ![s] = "none"]
    /\ phase' = [phase EXCEPT ![s] = "running"]
    /\ page' = [page EXCEPT ![s] = BlankPage]
    /\ UNCHANGED <<storeVars, readable, call, snapshot>>

-----------------------------------------------------------------------------
(* Hands.                                                                  *)

\* The file stops parsing or validating; what it held can be put back.
Damage ==
    /\ Hands /\ readable
    /\ readable' = FALSE
    /\ UNCHANGED <<storeVars, sessionVars>>

Repair ==
    /\ ~readable
    /\ readable' = TRUE
    /\ UNCHANGED <<storeVars, sessionVars>>

-----------------------------------------------------------------------------
\* Every session opens with the first preset in its controls.
AppInit ==
    /\ StoreInit
    /\ readable = TRUE
    /\ user = [s \in Sessions |-> NoUser]
    /\ selected = [s \in Sessions |-> NoChoice]
    /\ \E preset \in Inputs : controls = [s \in Sessions |-> preset]
    /\ notice = [s \in Sessions |-> "none"]
    /\ phase = [s \in Sessions |-> "running"]
    /\ call = [s \in Sessions |-> NoCall]
    /\ snapshot = [s \in Sessions |-> NoDocument]
    /\ page = [s \in Sessions |-> BlankPage]

\* What the user of session s does.
UserNext(s) ==
    \/ \E u \in Users : SignIn(s, u)
    \/ SignOut(s)
    \/ \E inputs \in Inputs : EditControls(s, inputs)
    \/ \E id \in page[s].listed : SelectModel(s, id)
    \/ LoadSelected(s)
    \/ \E name \in Names : SaveNew(s, name)
    \/ CloneSelected(s)
    \/ \E pending \in Mutations : Authorise(s, pending)
    \/ Rerun(s)
    \/ \E preset \in Inputs : Reload(s, preset)

\* What the thread of session s does.
ThreadNext(s) ==
    \/ ReadToMutate(s)
    \/ ReadSource(s)
    \/ ReadToCreate(s)
    \/ Write(s)
    \/ WriteRaises(s)
    \/ Tear(s)
    \/ Body(s)

ClockTick == Tick /\ UNCHANGED <<readable, sessionVars>>

AppNext ==
    \/ \E s \in Sessions : UserNext(s) \/ ThreadNext(s)
    \/ ClockTick
    \/ Damage
    \/ Repair

AppSpec == AppInit /\ [][AppNext]_appVars

\* The thread of a session runs on until its page is drawn.
AppFairness == \A s \in Sessions : WF_appVars(ThreadNext(s))

LiveAppSpec == AppSpec /\ AppFairness

-----------------------------------------------------------------------------
(* What makes the panel correct.                                           *)

\* The session state and the page hold what app.py keeps in them.
AppTypeOK ==
    /\ StoreTypeOK
    /\ readable \in BOOLEAN
    /\ user \in [Sessions -> Owners]
    /\ selected \in [Sessions -> Choices]
    /\ controls \in [Sessions -> Inputs]
    /\ notice \in [Sessions -> Notices]
    /\ phase \in [Sessions -> Phases]
    /\ call \in [Sessions -> Call \cup {NoCall}]
    /\ DOMAIN snapshot = Sessions
    /\ page \in [Sessions -> Page]
    /\ \A s \in Sessions : /\ Complete(snapshot[s])
                           /\ phase[s] \in Pending => call[s] \in Call

\* Session s is the one that takes this step.
Acted(s) == <<notice[s], phase[s], selected[s]>>' # <<notice[s], phase[s], selected[s]>>

Changes(id) == id \notin DOMAIN models' \/ models'[id] # models[id]

\* While callbacks do not overlap, a model that changes or goes away does so by
\* a mutation its signed-in owner asked for, and one without an owner stays for
\* ever ("an owned model may be mutated only by its owner", "legacy models are
\* read-only"): the model authorised by authorize_mutation is still the one
\* under that id when the store reads the file again, and again when it writes,
\* whatever stale page the click was made on.
OwnerOnlyMutation ==
    [][\A id \in DOMAIN models :
          Changes(id)
             => \E s \in Sessions : /\ Acted(s)
                                    /\ phase[s] \in Writing
                                    /\ user[s] = models[id].owner
                                    /\ user[s] # NoUser]_appVars

\* Session s, whose call has read model id as it is, updates or deletes it, for
\* the user who owns it or with the authorisation of another model of that id.
MutatedBy(s, id) ==
    /\ selected[s] = id
    /\ call[s].op \in {"update", "delete"}
    /\ user[s] # NoUser
    /\ user[s] = models[id].owner \/ call[s].target # models[id].birth

\* The call of session s has not read model id as it is now.
Unseen(s, id) == id \notin DOMAIN snapshot[s] \/ snapshot[s][id] # models[id]

\* When callbacks overlap there are two ways, and no third, in which a model is
\* changed by anybody but its owner: the model authorised has gone and another
\* has its id (get and update, or get and delete, read the file at different
\* times), or the writer read the file before the model came to be as it is,
\* and writes back what it read.
OwnerReplacedOrUnseen ==
    [][\A id \in DOMAIN models :
          Changes(id)
             => \E s \in Sessions : /\ Acted(s)
                                    /\ phase[s] \in Writing
                                    /\ MutatedBy(s, id) \/ Unseen(s, id)]_appVars

\* Session s has saved or cloned model id for its user; a guest's clone of what
\* a page not redrawn since the sign-out has selected has any owner (see
\* GuestCloneUnowned).
MadeBy(s, id) ==
    /\ selected'[s] = id
    /\ notice'[s] \in {"saved", "cloned"}
    /\ \/ models'[id].owner = user[s]
       \/ notice'[s] = "cloned" /\ user[s] = NoUser /\ page[s].account # NoUser

\* A model that appears belongs to whoever made it appear: the signed-in user
\* of the session that saved or cloned it, nobody when that was a guest.  For
\* the clone of a guest, which inherits the owner of its source, this needs
\* every model a guest can have selected to be unowned.
NewModelsStamped ==
    [][\A id \in DOMAIN models' \ DOMAIN models : \E s \in Sessions : MadeBy(s, id)]_appVars

\* While a guest looks at the page, the selected model exists and is unowned:
\* no other session can have taken it away or put another one in its place.
GuestChoiceUnowned ==
    \A s \in Sessions :
       phase[s] = "idle" /\ user[s] = NoUser /\ page[s].choice # NoChoice
          => /\ page[s].choice \in DOMAIN models
             /\ models[page[s].choice].owner = NoUser

\* An authorisation still stands when the store is asked to act on it.
AuthorisedStands ==
    \A s \in Sessions :
       call[s].op \in {"update", "delete"}
          => /\ selected[s] \in DOMAIN models
             /\ CanMutate(models[selected[s]], user[s])

\* "The UI filter means a user never selects another user's model"
\* (docs/identity.md): what a drawn page has selected is visible to its user.
NeverSelectsAnothers ==
    \A s \in Sessions :
       phase[s] = "idle" /\ page[s].choice \in DOMAIN models
          => VisibleTo(models[page[s].choice], user[s])

\* "A guest's clone inherits the source owner and stays unowned"
\* (docs/identity.md).
GuestCloneUnowned ==
    [][\A s \in Sessions :
          notice'[s] = "cloned" /\ notice[s] # "cloned" /\ user[s] = NoUser
             => models'[selected'[s]].owner = NoUser]_appVars

\* Every click is answered by a page, if only one with an error: also when
\* another session has deleted the model between the authorisation and the
\* mutation, when the file cannot be read or written, or when two calls write
\* at a time.
EveryClickSettles == \A s \in Sessions : phase[s] # "idle" ~> phase[s] = "idle"

=============================================================================
