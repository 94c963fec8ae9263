--------------------------- MODULE PolicyApp_proofs ---------------------------
(***************************************************************************)
(* Proofs about PolicyApp, for any number of sessions, users and models.   *)
(* Whatever overlaps, the document is well formed and a model that is      *)
(* changed by anybody but its owner has taken the place of a model of      *)
(* theirs or was not there as it is when the writer read the file.  While  *)
(* callbacks do not overlap, the panel implements the store, only an owner *)
(* changes a model and every model is stamped with the user that made it.  *)
(***************************************************************************)
EXTENDS PolicyApp, SavedModels_proofs

-----------------------------------------------------------------------------
(* Type correctness.                                                       *)

SessionTypeOK ==
    /\ user \in [Sessions -> Owners]
    /\ selected \in [Sessions -> Choices]
    /\ controls \in [Sessions -> Inputs]
    /\ notice \in [Sessions -> Notices]
    /\ phase \in [Sessions -> Phases]
    /\ call \in [Sessions -> Call \cup {NoCall}]
    /\ DOMAIN snapshot = Sessions
    /\ page \in [Sessions -> Page]

\* A session has the call of its phase, and what the call has read is a
\* document as good as the one stored.
CallOK(s) ==
    /\ phase[s] \notin Pending => call[s] = NoCall
    /\ phase[s] \in Pending => call[s] \in Call
    /\ phase[s] \in Mutations => call[s].op = OpOf[phase[s]]
    /\ phase[s] = "cloning" => call[s].op = "clone"
    /\ phase[s] = "creating" => call[s].op \in {"clone", "save"}
    /\ Sound(snapshot[s])

AppTypeInv ==
    /\ StoreInv
    /\ readable \in BOOLEAN
    /\ SessionTypeOK
    /\ \A s \in Sessions : CallOK(s)

LEMMA AppTypeInvType == AppTypeInv => AppTypeOK
BY DEF AppTypeInv, AppTypeOK, StoreInv, SessionTypeOK, CallOK, Sound

\* The document is well formed after the step, and no younger.
Later == StoreInv' /\ births <= births' /\ clock <= clock'

LEMMA StoreUnchanged ==
    ASSUME StoreInv, UNCHANGED storeVars
    PROVE  Later
BY DEF storeVars, Later, StoreInv, StoreTypeOK, Complete, HistoryWellFormed, WellFormed,
       Current, BirthsDistinct, DistinctBirths, BirthsBelow

\* What a session holds of a sound document is sound as time goes by and
\* models are made.
LEMMA SoundLater ==
    ASSUME StoreInv, Later, NEW ms, Sound(ms), NEW s \in Sessions, snapshot'[s] = ms
    PROVE  Sound(snapshot[s])'
<1>1. /\ births \in Nat /\ births' \in Nat /\ births <= births'
      /\ clock \in Nat /\ clock' \in Nat /\ clock <= clock'
  BY DEF Later, StoreInv, StoreTypeOK
<1>2. \A id \in DOMAIN ms : ms[id].birth \in Nat /\ ms[id].updated_at \in Nat
  BY DEF Sound, Complete, SavedModel
<1>3. \A id \in DOMAIN ms : ms[id].birth < births'
  BY <1>1, <1>2 DEF Sound
<1>4. \A id \in DOMAIN ms : ms[id].updated_at <= clock'
  BY <1>1, <1>2 DEF Sound, WellFormed
<1> QED BY <1>3, <1>4 DEF Sound, Complete, DistinctBirths, WellFormed, Current

LEMMA NothingSound == Sound(NoDocument)
BY DEF Sound, NoDocument, Complete, DistinctBirths

\* A step of session s leaves the other sessions alone, but for a writer that
\* finds itself sharing the temporary file.
Others(s) ==
    \A t \in Sessions \ {s} :
       /\ user'[t] = user[t] /\ selected'[t] = selected[t] /\ notice'[t] = notice[t]
       /\ call'[t] = call[t] /\ snapshot'[t] = snapshot[t] /\ page'[t] = page[t]
       /\ phase'[t] # phase[t] => /\ phase'[s] \in Writing
                                  /\ phase[t] = "writing" /\ phase'[t] = "sharing"

\* The kinds of step, and what each makes of the session that takes it.
LEMMA AnswerFacts ==
    ASSUME SessionTypeOK, NEW s \in Sessions, NEW msg, NEW choice, Answer(s, msg, choice)
    PROVE  /\ notice'[s] = msg /\ selected'[s] = choice /\ phase'[s] = "running"
           /\ call'[s] = NoCall /\ snapshot'[s] = NoDocument /\ page'[s] = page[s]
           /\ (\A t \in Sessions \ {s} : user'[t] = user[t]) => Others(s)
BY DEF SessionTypeOK, Answer, Others

LEMMA RaiseFacts ==
    ASSUME SessionTypeOK, NEW s \in Sessions, Raise(s), user' = user
    PROVE  /\ notice'[s] = notice[s] /\ selected'[s] = selected[s] /\ phase'[s] = "idle"
           /\ call'[s] = NoCall /\ snapshot'[s] = NoDocument /\ page'[s] = BlankPage
           /\ Others(s)
BY DEF SessionTypeOK, Raise, Others

LEMMA GoesFacts ==
    ASSUME SessionTypeOK, NEW s \in Sessions, NEW next, NEW op, NEW mid, NEW birth, NEW name,
           Goes(s, next, op, mid, birth, name), user' = user
    PROVE  /\ notice'[s] = notice[s] /\ selected'[s] = mid /\ phase'[s] = next
           /\ call'[s] = [op |-> op, target |-> birth, name |-> name,
                          inputs |-> controls[s], owner |-> user[s]]
           /\ snapshot'[s] = snapshot[s] /\ page'[s] = page[s]
           /\ Others(s)
BY DEF SessionTypeOK, Goes, Others

LEMMA WillWriteFacts ==
    ASSUME SessionTypeOK, NEW s \in Sessions, NEW document, WillWrite(s, document),
           user' = user
    PROVE  /\ notice'[s] = notice[s] /\ selected'[s] = selected[s]
           /\ phase'[s] \in Writing
           /\ phase'[s] = "sharing" => \E t \in Sessions : phase[t] \in Writing
           /\ call'[s] = call[s] /\ snapshot'[s] = document /\ page'[s] = page[s]
           /\ Others(s)
<1> DEFINE writers == {t \in Sessions : phase[t] \in Writing}
<1>1. /\ snapshot' = [snapshot EXCEPT ![s] = document]
      /\ phase' = [t \in Sessions |-> IF t \notin writers \cup {s} THEN phase[t]
                                      ELSE IF writers = {} THEN "writing" ELSE "sharing"]
      /\ UNCHANGED <<selected, notice, call, page>>
  BY DEF WillWrite
<1>2. phase'[s] = IF writers = {} THEN "writing" ELSE "sharing"
  BY <1>1
<1>3. \A t \in Sessions \ {s} :
         phase'[t] # phase[t] => phase[t] = "writing" /\ phase'[t] = "sharing"
  BY <1>1 DEF Writing
<1> QED BY <1>1, <1>2, <1>3 DEF SessionTypeOK, Others, Writing

\* The body of the script settles on a model that is listed, or on none.
LEMMA SettledIsListed ==
    ASSUME StoreInv, NEW choice, NEW visible, visible \subseteq DOMAIN models
    PROVE  Settled(choice, visible) \in visible
              \/ (visible = {} /\ Settled(choice, visible) = NoChoice)
BY FirstListedIsListed DEF Settled

\* The document of a script that has run to its end.
Rested(s) ==
    /\ phase'[s] \in {"idle", "running"}
    /\ call'[s] = NoCall
    /\ snapshot'[s] = NoDocument

\* The calls of the other sessions stay in order.
LEMMA OthersCallOK ==
    ASSUME AppTypeInv, Later, NEW s \in Sessions, Others(s), NEW t \in Sessions \ {s}
    PROVE  CallOK(t)'
<1>1. CallOK(t)
  BY DEF AppTypeInv
<1>2. Sound(snapshot[t])'
  BY <1>1, SoundLater DEF AppTypeInv, CallOK, Others
<1> QED BY <1>1, <1>2 DEF CallOK, Others, Pending, Mutations, Writing

\* A callback that ends with a message and a selection.
LEMMA AnswerInv ==
    ASSUME AppTypeInv, Later, readable' \in BOOLEAN, NEW s \in Sessions,
           NEW msg \in Notices, NEW choice \in Choices, Answer(s, msg, choice),
           user' \in [Sessions -> Owners], \A t \in Sessions \ {s} : user'[t] = user[t],
           controls' \in [Sessions -> Inputs]
    PROVE  AppTypeInv'
<1>1. SessionTypeOK
  BY DEF AppTypeInv
<1>2. phase'[s] = "running" /\ call'[s] = NoCall /\ snapshot'[s] = NoDocument /\ Others(s)
  BY <1>1, AnswerFacts
<1>3. CallOK(s)'
  BY <1>2, NothingSound, SoundLater DEF AppTypeInv, CallOK, Pending, Mutations, Writing
<1>4. SessionTypeOK'
  BY <1>1 DEF SessionTypeOK, Answer, Phases
<1> QED BY <1>2, <1>3, <1>4, OthersCallOK DEF AppTypeInv, Later

\* A callback that raises.
LEMMA RaiseInv ==
    ASSUME AppTypeInv, Later, readable' \in BOOLEAN, NEW s \in Sessions, Raise(s),
           UNCHANGED <<user, controls>>
    PROVE  AppTypeInv'
<1>1. SessionTypeOK
  BY DEF AppTypeInv
<1>2. phase'[s] = "idle" /\ call'[s] = NoCall /\ snapshot'[s] = NoDocument /\ Others(s)
  BY <1>1, RaiseFacts
<1>3. CallOK(s)'
  BY <1>2, NothingSound, SoundLater DEF AppTypeInv, CallOK, Pending, Mutations, Writing
<1>4. BlankPage \in Page
  BY DEF BlankPage, Page, Owners, Choices
<1>5. SessionTypeOK'
  BY <1>1, <1>4 DEF SessionTypeOK, Raise, Phases
<1> QED BY <1>2, <1>3, <1>5, OthersCallOK DEF AppTypeInv, Later

\* A callback that goes on to a call on the store.
LEMMA GoesInv ==
    ASSUME AppTypeInv, NEW s \in Sessions, NEW next \in Pending \ Writing,
           NEW op \in {"update", "delete", "clone", "save"},
           NEW mid \in Choices, NEW birth \in Nat, NEW name \in Ids,
           next \in Mutations => op = OpOf[next],
           next = "cloning" => op = "clone",
           next = "creating" => op \in {"clone", "save"},
           Goes(s, next, op, mid, birth, name),
           UNCHANGED <<storeVars, readable, user, controls>>
    PROVE  AppTypeInv'
<1> DEFINE c == [op |-> op, target |-> birth, name |-> name,
                 inputs |-> controls[s], owner |-> user[s]]
<1>1. SessionTypeOK /\ StoreInv /\ Later
  BY StoreUnchanged DEF AppTypeInv
<1>2. phase'[s] = next /\ call'[s] = c /\ snapshot'[s] = snapshot[s] /\ Others(s)
  BY <1>1, GoesFacts
<1>3. c \in Call /\ c.op = op
  BY <1>1 DEF SessionTypeOK, Call
<1>4. Sound(snapshot[s])'
  BY <1>1, <1>2, SoundLater DEF AppTypeInv, CallOK
<1>5. call' = [call EXCEPT ![s] = c]
  BY DEF Goes
<1> HIDE DEF c
<1>6. CallOK(s)'
  BY <1>2, <1>3, <1>4 DEF CallOK, Pending, Mutations, Writing
<1>7. SessionTypeOK'
  BY <1>1, <1>3, <1>5 DEF SessionTypeOK, Goes, Phases
<1> QED BY <1>1, <1>2, <1>6, <1>7, OthersCallOK DEF AppTypeInv, Later

\* A call that has read the file.
LEMMA WillWriteInv ==
    ASSUME AppTypeInv, NEW s \in Sessions, phase[s] \in Mutations \cup {"creating"},
           WillWrite(s, models), UNCHANGED <<storeVars, readable, user, controls>>
    PROVE  AppTypeInv'
<1>1. SessionTypeOK /\ StoreInv /\ Later
  BY StoreUnchanged DEF AppTypeInv
<1>2. phase'[s] \in Writing /\ call'[s] = call[s] /\ snapshot'[s] = models /\ Others(s)
  BY <1>1, WillWriteFacts
<1>3. Sound(snapshot[s])'
  BY <1>1, <1>2, SoundLater, StoreInvSound
<1>4. CallOK(s)'
  BY <1>2, <1>3 DEF AppTypeInv, CallOK, Pending, Mutations, Writing
<1>5. SessionTypeOK'
  BY <1>1 DEF SessionTypeOK, WillWrite, Phases, Pending, Writing
<1> QED BY <1>1, <1>2, <1>4, <1>5, OthersCallOK DEF AppTypeInv, Later

\* What a user does.
LEMMA UserNextType ==
    ASSUME AppTypeInv, NEW s \in Sessions, UserNext(s)
    PROVE  AppTypeInv' /\ UNCHANGED storeVars /\ Others(s)
<1>1. SessionTypeOK /\ StoreInv /\ readable \in BOOLEAN
  BY DEF AppTypeInv
<1>2. /\ page[s] \in Page /\ page[s].choice \in Choices /\ page[s].listed \subseteq Ids
      /\ notice[s] \in Notices /\ user[s] \in Owners
  BY <1>1 DEF SessionTypeOK, Page
<1>3. ASSUME UNCHANGED <<storeVars, readable>>, NEW msg \in Notices, NEW choice \in Choices,
             Answer(s, msg, choice),
             user' \in [Sessions -> Owners], \A t \in Sessions \ {s} : user'[t] = user[t],
             controls' \in [Sessions -> Inputs]
      PROVE  AppTypeInv' /\ UNCHANGED storeVars /\ Others(s)
  <2>1. Later /\ readable' \in BOOLEAN
    BY <1>1, <1>3, StoreUnchanged
  <2>2. AppTypeInv'
    BY <1>3, <2>1, AnswerInv
  <2>3. Others(s)
    BY <1>1, <1>3, AnswerFacts
  <2> QED BY <1>3, <2>2, <2>3
<1>4. ASSUME NEW u \in Users, SignIn(s, u)
      PROVE  AppTypeInv' /\ UNCHANGED storeVars /\ Others(s)
  <2>1. /\ user' \in [Sessions -> Owners] /\ controls' \in [Sessions -> Inputs]
        /\ \A t \in Sessions \ {s} : user'[t] = user[t]
    BY <1>1, <1>4 DEF SignIn, SessionTypeOK, Owners
  <2> QED BY <1>2, <1>3, <1>4, <2>1 DEF SignIn
<1>5. CASE SignOut(s)
  <2>1. /\ user' \in [Sessions -> Owners] /\ controls' \in [Sessions -> Inputs]
        /\ \A t \in Sessions \ {s} : user'[t] = user[t]
    BY <1>1, <1>5 DEF SignOut, SessionTypeOK, Owners
  <2> QED BY <1>2, <1>3, <1>5, <2>1 DEF SignOut
<1>6. ASSUME NEW inputs \in Inputs, EditControls(s, inputs)
      PROVE  AppTypeInv' /\ UNCHANGED storeVars /\ Others(s)
  <2>1. user' \in [Sessions -> Owners] /\ controls' \in [Sessions -> Inputs]
    BY <1>1, <1>6 DEF EditControls, SessionTypeOK
  <2> QED BY <1>2, <1>3, <1>6, <2>1 DEF EditControls
<1>7. ASSUME NEW id \in page[s].listed, SelectModel(s, id)
      PROVE  AppTypeInv' /\ UNCHANGED storeVars /\ Others(s)
  <2>1. user' \in [Sessions -> Owners] /\ controls' \in [Sessions -> Inputs]
    BY <1>1, <1>7 DEF SelectModel, SessionTypeOK
  <2>2. id \in Choices
    BY <1>2 DEF Choices
  <2> QED BY <1>2, <1>3, <1>7, <2>1, <2>2 DEF SelectModel
<1>8. CASE LoadSelected(s)
  <2>1. user' \in [Sessions -> Owners] /\ user' = user
    BY <1>1, <1>8 DEF LoadSelected, SessionTypeOK
  <2>2. CASE readable /\ page[s].choice \in DOMAIN models
    <3>1. Current(models[page[s].choice]).inputs \in Inputs
      BY <1>1, <2>2, CurrentInputs DEF StoreInv, StoreTypeOK, Complete
    <3>2. controls' \in [Sessions -> Inputs]
      BY <1>1, <1>8, <2>2, <3>1 DEF LoadSelected, SessionTypeOK
    <3> QED BY <1>2, <1>3, <1>8, <2>1, <2>2, <3>2 DEF LoadSelected, Notices
  <2>3. CASE ~ (readable /\ page[s].choice \in DOMAIN models)
    <3>1. controls' \in [Sessions -> Inputs]
      BY <1>1, <1>8, <2>3 DEF LoadSelected, SessionTypeOK
    <3> QED BY <1>2, <1>3, <1>8, <2>1, <2>3, <3>1 DEF LoadSelected, Notices
  <2> QED BY <2>2, <2>3
<1>9. ASSUME UNCHANGED <<storeVars, readable, user, controls>>,
             NEW next \in Pending \ Writing,
             NEW op \in {"update", "delete", "clone", "save"},
             NEW birth \in Nat, NEW name \in Ids,
             next \in Mutations => op = OpOf[next],
             next = "cloning" => op = "clone",
             next = "creating" => op \in {"clone", "save"},
             Goes(s, next, op, page[s].choice, birth, name)
      PROVE  AppTypeInv' /\ UNCHANGED storeVars /\ Others(s)
  <2>1. AppTypeInv'
    BY <1>2, <1>9, GoesInv
  <2>2. Others(s)
    BY <1>1, <1>9, GoesFacts
  <2> QED BY <1>9, <2>1, <2>2
<1>10. ASSUME UNCHANGED <<storeVars, readable, user, controls>>,
              NEW msg \in Notices, Answer(s, msg, page[s].choice)
       PROVE  AppTypeInv' /\ UNCHANGED storeVars /\ Others(s)
  BY <1>1, <1>2, <1>3, <1>10 DEF SessionTypeOK
<1>11. ASSUME NEW name \in Names, SaveNew(s, name)
       PROVE  AppTypeInv' /\ UNCHANGED storeVars /\ Others(s)
  <2>1. name \in Ids /\ "creating" \in Pending \ Writing /\ "creating" \notin Mutations
    BY SavedModelsAssumption DEF Ids, Pending, Mutations, Writing
  <2> QED BY <1>9, <1>11, <2>1 DEF SaveNew
<1>12. CASE CloneSelected(s)
  <2> DEFINE mid == page[s].choice
  <2>1. UNCHANGED <<storeVars, readable, user, controls>>
    BY <1>12 DEF CloneSelected
  <2>2. CASE readable /\ mid \in DOMAIN models
    <3>1. Append(models[mid].name, Copy) \in Ids
      BY <2>2, <1>1, SavedModelsAssumption DEF StoreInv, StoreTypeOK, Complete, SavedModel, Ids
    <3>2. "cloning" \in Pending \ Writing /\ "cloning" \notin Mutations
      BY DEF Pending, Mutations, Writing
    <3>3. Goes(s, "cloning", "clone", mid, 0, Append(models[mid].name, Copy))
      BY <1>12, <2>2 DEF CloneSelected
    <3> QED BY <1>9, <2>1, <3>1, <3>2, <3>3
  <2>3. CASE ~ (readable /\ mid \in DOMAIN models)
    BY <1>10, <1>12, <2>1, <2>3 DEF CloneSelected, Notices
  <2> QED BY <2>2, <2>3
<1>13. ASSUME NEW pending \in Mutations, Authorise(s, pending)
       PROVE  AppTypeInv' /\ UNCHANGED storeVars /\ Others(s)
  <2> DEFINE mid == page[s].choice
  <2>1. UNCHANGED <<storeVars, readable, user, controls>>
    BY <1>13 DEF Authorise
  <2>2. CASE /\ mid \in DOMAIN models
             /\ Goes(s, pending, OpOf[pending], mid, models[mid].birth, <<>>)
    <3>1. models[mid].birth \in Nat /\ <<>> \in Ids
      BY <2>2, <1>1 DEF StoreInv, StoreTypeOK, Complete, SavedModel, Ids
    <3>2. /\ pending \in Pending \ Writing /\ pending # "cloning" /\ pending # "creating"
          /\ OpOf[pending] \in {"update", "delete", "clone", "save"}
      BY <1>13 DEF Pending, Mutations, Writing, OpOf
    <3> QED BY <1>9, <2>1, <2>2, <3>1, <3>2
  <2>3. CASE Answer(s, "failed", mid) \/ Answer(s, "refused", mid)
    BY <1>10, <2>1, <2>3 DEF Notices
  <2> QED BY <1>13, <2>2, <2>3 DEF Authorise
<1>14. CASE Rerun(s)
  <2>1. /\ UNCHANGED <<storeVars, readable, user, selected, controls, notice, call,
                       snapshot, page>>
        /\ phase[s] = "idle" /\ phase' = [phase EXCEPT ![s] = "running"]
    BY <1>14 DEF Rerun
  <2>2. Later /\ Others(s)
    BY <1>1, <2>1, StoreUnchanged DEF Others, SessionTypeOK
  <2>3. SessionTypeOK'
    BY <1>1, <2>1 DEF SessionTypeOK, Phases
  <2>4. phase'[s] = "running"
    BY <1>1, <2>1 DEF SessionTypeOK
  <2>5. Sound(snapshot[s])'
    BY <1>1, <2>1, <2>2, SoundLater DEF AppTypeInv, CallOK
  <2>6. CallOK(s)'
    BY <2>1, <2>4, <2>5 DEF AppTypeInv, CallOK, Pending, Mutations, Writing
  <2> QED BY <1>1, <2>1, <2>2, <2>3, <2>6, OthersCallOK DEF AppTypeInv, Later
<1>15. ASSUME NEW preset \in Inputs, Reload(s, preset)
       PROVE  AppTypeInv' /\ UNCHANGED storeVars /\ Others(s)
  <2>1. UNCHANGED <<storeVars, readable, call, snapshot>> /\ phase[s] = "idle"
    BY <1>15 DEF Reload
  <2>2. Later /\ Others(s)
    BY <1>1, <1>15, <2>1, StoreUnchanged DEF Others, SessionTypeOK, Reload
  <2>3. BlankPage \in Page
    BY DEF BlankPage, Page, Owners, Choices
  <2>4. SessionTypeOK'
    BY <1>1, <1>15, <2>3 DEF SessionTypeOK, Phases, Reload, Owners, Choices, Notices
  <2>5. phase'[s] = "running"
    BY <1>1, <1>15 DEF SessionTypeOK, Reload
  <2>6. Sound(snapshot[s])'
    BY <1>1, <2>1, <2>2, SoundLater DEF AppTypeInv, CallOK
  <2>7. CallOK(s)'
    BY <2>1, <2>5, <2>6 DEF AppTypeInv, CallOK, Pending, Mutations, Writing
  <2> QED BY <1>1, <2>1, <2>2, <2>4, <2>7, OthersCallOK DEF AppTypeInv, Later
<1> QED BY <1>4, <1>5, <1>6, <1>7, <1>8, <1>11, <1>12, <1>13, <1>14, <1>15 DEF UserNext

\* The three things a call can write.
Ends(s, msg, choice) == Answer(s, msg, choice) \/ (phase[s] = "sharing" /\ Raise(s))

WritesUpdate(s) ==
    /\ call[s].op = "update"
    /\ UpdateFrom(snapshot[s], selected[s], call[s].inputs)
    /\ Ends(s, "updated", selected[s])

WritesDelete(s) ==
    /\ call[s].op = "delete"
    /\ DeleteFrom(snapshot[s], selected[s])
    /\ Ends(s, "deleted", NoChoice)

WritesModel(s, id) ==
    /\ call[s].op \in {"clone", "save"}
    /\ CreateFrom(snapshot[s], call[s].name, id, call[s].inputs, call[s].owner)
    /\ Ends(s, Done[call[s].op], id)

LEMMA WriteCases ==
    ASSUME AppTypeInv, NEW s \in Sessions, Write(s)
    PROVE  /\ Sound(snapshot[s]) /\ call[s] \in Call
           /\ phase[s] \in Writing /\ readable' = TRUE /\ UNCHANGED <<user, controls>>
           /\ \/ WritesUpdate(s)
              \/ WritesDelete(s)
              \/ \E id \in Candidates(call[s].name) : WritesModel(s, id)
<1>1. phase[s] \in Writing /\ readable' = TRUE /\ UNCHANGED <<user, controls>>
  BY DEF Write
<1>2. Sound(snapshot[s]) /\ call[s] \in Call
  BY <1>1 DEF AppTypeInv, CallOK, Pending
<1>3. PICK id \in Results(s) :
         /\ CASE call[s].op = "update" -> UpdateFrom(snapshot[s], selected[s], call[s].inputs)
              [] call[s].op = "delete" -> DeleteFrom(snapshot[s], selected[s])
              [] OTHER -> CreateFrom(snapshot[s], call[s].name, id,
                                     call[s].inputs, call[s].owner)
         /\ Ends(s, Done[call[s].op], id)
  BY DEF Write, Ends
<1>4. call[s].op \in {"update", "delete", "clone", "save"}
  BY <1>2 DEF Call
<1>5. CASE call[s].op = "update"
  <2>1. id = selected[s] /\ Done[call[s].op] = "updated"
    BY <1>5 DEF Results, Done
  <2> QED BY <1>1, <1>2, <1>3, <1>5, <2>1 DEF WritesUpdate
<1>6. CASE call[s].op = "delete"
  <2>1. id = NoChoice /\ Done[call[s].op] = "deleted"
    BY <1>6 DEF Results, Done
  <2> QED BY <1>1, <1>2, <1>3, <1>6, <2>1 DEF WritesDelete
<1>7. CASE call[s].op \in {"clone", "save"}
  <2>1. id \in Candidates(call[s].name)
    BY <1>3, <1>7 DEF Results
  <2>2. CreateFrom(snapshot[s], call[s].name, id, call[s].inputs, call[s].owner)
    BY <1>3, <1>7
  <2> QED BY <1>1, <1>2, <1>3, <1>7, <2>1, <2>2 DEF WritesModel
<1> QED BY <1>4, <1>5, <1>6, <1>7

\* Whatever was read, what is written is a well-formed document.
LEMMA WriteLater ==
    ASSUME AppTypeInv, NEW s \in Sessions, Write(s)
    PROVE  Later
<1>1. /\ StoreInv /\ births \in Nat /\ clock \in Nat /\ Sound(snapshot[s])
      /\ call[s].inputs \in Inputs /\ call[s].owner \in Owners /\ call[s].name \in Ids
  BY WriteCases DEF AppTypeInv, StoreInv, StoreTypeOK, Call
<1>2. CASE WritesUpdate(s)
  <2>1. StoreInv'
    BY <1>1, <1>2, UpdateFromInv DEF WritesUpdate
  <2> QED BY <1>1, <1>2, <2>1 DEF WritesUpdate, UpdateFrom, Later
<1>3. CASE WritesDelete(s)
  <2>1. StoreInv'
    BY <1>1, <1>3, DeleteFromInv DEF WritesDelete
  <2> QED BY <1>1, <1>3, <2>1 DEF WritesDelete, DeleteFrom, Later
<1>4. ASSUME NEW id \in Candidates(call[s].name), WritesModel(s, id)
      PROVE  Later
  <2>1. id \in Ids
    BY <1>1, CandidatesAreIds
  <2>2. StoreInv'
    BY <1>1, <1>4, <2>1, CreateFromInv DEF WritesModel
  <2> QED BY <1>1, <1>4, <2>2 DEF WritesModel, CreateFrom, Later
<1> QED BY <1>2, <1>3, <1>4, WriteCases

LEMMA EndsInv ==
    ASSUME AppTypeInv, Later, readable' \in BOOLEAN, NEW s \in Sessions,
           NEW msg \in Notices, NEW choice \in Choices, Ends(s, msg, choice),
           UNCHANGED <<user, controls>>
    PROVE  AppTypeInv' /\ Others(s)
<1>1. SessionTypeOK
  BY DEF AppTypeInv
<1>2. CASE Answer(s, msg, choice)
  <2>1. user' \in [Sessions -> Owners] /\ controls' \in [Sessions -> Inputs]
    BY <1>1 DEF SessionTypeOK
  <2> QED BY <1>1, <1>2, <2>1, AnswerInv, AnswerFacts
<1>3. CASE Raise(s)
  BY <1>1, <1>3, RaiseInv, RaiseFacts
<1> QED BY <1>2, <1>3 DEF Ends

\* What the thread of a session does.
LEMMA ThreadNextType ==
    ASSUME AppTypeInv, NEW s \in Sessions, ThreadNext(s)
    PROVE  AppTypeInv' /\ (Write(s) \/ UNCHANGED storeVars) /\ Others(s)
<1>1. /\ SessionTypeOK /\ StoreInv /\ readable \in BOOLEAN
      /\ selected[s] \in Choices /\ user[s] \in Owners
      /\ "failed" \in Notices
  BY DEF AppTypeInv, SessionTypeOK, Notices
<1>2. ASSUME UNCHANGED <<storeVars, user, controls>>, readable' \in BOOLEAN,
             NEW msg \in Notices, NEW choice \in Choices,
             Answer(s, msg, choice) \/ Raise(s)
      PROVE  AppTypeInv' /\ UNCHANGED storeVars /\ Others(s)
  <2>1. Later
    BY <1>1, <1>2, StoreUnchanged
  <2>2. user' \in [Sessions -> Owners] /\ controls' \in [Sessions -> Inputs]
    BY <1>1, <1>2 DEF SessionTypeOK
  <2>3. CASE Answer(s, msg, choice)
    BY <1>1, <1>2, <2>1, <2>2, <2>3, AnswerInv, AnswerFacts
  <2>4. CASE Raise(s)
    BY <1>1, <1>2, <2>1, <2>4, RaiseInv, RaiseFacts
  <2> QED BY <1>2, <2>3, <2>4
<1>3. ASSUME UNCHANGED <<storeVars, readable, user, controls>>,
             phase[s] \in Mutations \cup {"creating"}, WillWrite(s, models)
      PROVE  AppTypeInv' /\ UNCHANGED storeVars /\ Others(s)
  BY <1>1, <1>3, WillWriteInv, WillWriteFacts
<1>4. CASE ReadToMutate(s)
  BY <1>1, <1>2, <1>3, <1>4 DEF ReadToMutate
<1>5. CASE ReadToCreate(s)
  BY <1>1, <1>2, <1>3, <1>5 DEF ReadToCreate
<1>6. CASE ReadSource(s)
  <2>1. UNCHANGED <<storeVars, readable, user, controls>> /\ phase[s] = "cloning"
    BY <1>6 DEF ReadSource
  <2>2. CASE readable /\ selected[s] \in DOMAIN models
    <3> DEFINE m == models[selected[s]]
               c == [call[s] EXCEPT !.inputs = Current(m).inputs,
                                    !.owner = CloneOwner(m, user[s])]
    <3>1. m \in SavedModel /\ m.versions # <<>>
      BY <1>1, <2>2 DEF StoreInv, StoreTypeOK, Complete
    <3>2. Current(m).inputs \in Inputs /\ CloneOwner(m, user[s]) \in Owners
      BY <1>1, <3>1, CurrentInputs DEF SavedModel, CloneOwner
    <3>3. call[s] \in Call /\ call[s].op = "clone"
      BY <2>1 DEF AppTypeInv, CallOK, Pending
    <3>4. c \in Call /\ c.op = "clone"
      BY <3>2, <3>3 DEF Call
    <3>5. /\ call' = [call EXCEPT ![s] = c]
          /\ phase' = [phase EXCEPT ![s] = "creating"]
          /\ UNCHANGED <<selected, notice, snapshot, page>>
      BY <1>1, <1>6, <2>2 DEF ReadSource, SessionTypeOK
    <3> HIDE DEF c, m
    <3>6. Later
      BY <1>1, <2>1, StoreUnchanged
    <3>7. Others(s)
      BY <1>1, <2>1, <3>5 DEF SessionTypeOK, Others
    <3>8. SessionTypeOK'
      BY <1>1, <2>1, <3>4, <3>5 DEF SessionTypeOK, Phases, Pending
    <3>9. phase'[s] = "creating" /\ call'[s] = c
      BY <1>1, <3>5 DEF SessionTypeOK
    <3>10. Sound(snapshot[s])'
      BY <1>1, <3>5, <3>6, SoundLater DEF AppTypeInv, CallOK
    <3>11. CallOK(s)'
      BY <3>4, <3>9, <3>10 DEF CallOK, Pending, Mutations, Writing
    <3> QED BY <1>1, <2>1, <3>6, <3>7, <3>8, <3>11, OthersCallOK DEF AppTypeInv, Later
  <2>3. CASE ~ (readable /\ selected[s] \in DOMAIN models)
    BY <1>1, <1>2, <1>6, <2>1, <2>3 DEF ReadSource
  <2> QED BY <2>2, <2>3
<1>7. CASE Write(s)
  <2>1. Later /\ readable' \in BOOLEAN /\ UNCHANGED <<user, controls>> /\ call[s] \in Call
    BY <1>7, WriteLater, WriteCases
  <2>2. ASSUME WritesUpdate(s) PROVE AppTypeInv' /\ Others(s)
    BY <1>1, <2>1, <2>2, EndsInv DEF WritesUpdate, Notices
  <2>3. ASSUME WritesDelete(s) PROVE AppTypeInv' /\ Others(s)
    BY <1>1, <2>1, <2>3, EndsInv DEF WritesDelete, Notices, Choices
  <2>4. ASSUME NEW id \in Candidates(call[s].name), WritesModel(s, id)
        PROVE  AppTypeInv' /\ Others(s)
    <3>1. id \in Choices
      BY <2>1, CandidatesAreIds DEF Call, Choices
    <3>2. Done[call[s].op] \in Notices
      BY <2>4 DEF WritesModel, Done, Notices
    <3> QED BY <2>1, <2>4, <3>1, <3>2, EndsInv DEF WritesModel
  <2> QED BY <1>7, <2>2, <2>3, <2>4, WriteCases
<1>8. CASE WriteRaises(s)
  BY <1>1, <1>2, <1>8 DEF WriteRaises
<1>9. CASE Tear(s)
  <2>1. UNCHANGED <<storeVars, user, controls>> /\ readable' \in BOOLEAN
        /\ phase[s] \in Writing
    BY <1>9 DEF Tear, Writing
  <2>2. CASE Raise(s)
    BY <1>1, <1>2, <2>1, <2>2
  <2>3. ASSUME NEW id \in Results(s), Answer(s, Done[call[s].op], id)
        PROVE  AppTypeInv' /\ UNCHANGED storeVars /\ Others(s)
    <3>1. call[s] \in Call
      BY <2>1 DEF AppTypeInv, CallOK, Pending
    <3>2. id \in Choices
      BY <1>1, <3>1, CandidatesAreIds DEF Results, Call, Choices
    <3>3. Done[call[s].op] \in Notices
      BY <3>1 DEF Call, Done, Notices
    <3> QED BY <1>2, <2>1, <2>3, <3>2, <3>3
  <2> QED BY <1>9, <2>2, <2>3 DEF Tear
<1>10. CASE Body(s)
  <2>1. /\ UNCHANGED <<storeVars, readable, user, controls, call, snapshot>>
        /\ phase[s] = "running" /\ phase' = [phase EXCEPT ![s] = "idle"]
    BY <1>10 DEF Body
  <2>2. Later
    BY <1>1, <2>1, StoreUnchanged
  <2>3. phase'[s] = "idle"
    BY <1>1, <2>1 DEF SessionTypeOK
  <2>4. Sound(snapshot[s])'
    BY <1>1, <2>1, <2>2, SoundLater DEF AppTypeInv, CallOK
  <2>5. CallOK(s)'
    BY <2>1, <2>3, <2>4 DEF AppTypeInv, CallOK, Pending, Mutations, Writing
  <2>6. CASE readable
    <3> DEFINE visible == VisibleIds(user[s])
               choice == Settled(selected[s], visible)
               drawn == [drawn |-> TRUE, account |-> user[s], listed |-> visible,
                         choice |-> choice,
                         mutable |-> choice # NoChoice /\ CanMutate(models[choice], user[s])]
    <3>1. visible \subseteq DOMAIN models /\ visible \subseteq Ids
      BY <1>1 DEF VisibleIds, StoreInv, StoreTypeOK, Complete
    <3>2. choice \in Choices
      BY <1>1, <3>1, SettledIsListed DEF Choices
    <3> HIDE DEF visible, choice
    <3>3. drawn \in Page
      BY <1>1, <3>1, <3>2 DEF Page, CanMutate
    <3>4. /\ page' = [page EXCEPT ![s] = drawn]
          /\ selected' = [selected EXCEPT ![s] = choice]
          /\ notice' = [notice EXCEPT ![s] = "none"]
      BY <1>10, <2>6 DEF Body, visible, choice
    <3> HIDE DEF drawn
    <3>5. SessionTypeOK' /\ Others(s)
      BY <1>1, <2>1, <3>2, <3>3, <3>4 DEF SessionTypeOK, Others, Notices, Phases
    <3> QED BY <1>1, <2>1, <2>2, <2>5, <3>5, OthersCallOK DEF AppTypeInv, Later
  <2>7. CASE ~ readable
    <3>1. BlankPage \in Page
      BY DEF BlankPage, Page, Owners, Choices
    <3>2. SessionTypeOK' /\ Others(s)
      BY <1>1, <1>10, <2>1, <2>7, <3>1 DEF Body, SessionTypeOK, Others, Phases
    <3> QED BY <1>1, <2>1, <2>2, <2>5, <3>2, OthersCallOK DEF AppTypeInv, Later
  <2> QED BY <2>6, <2>7
<1> QED BY <1>4, <1>5, <1>6, <1>7, <1>8, <1>9, <1>10 DEF ThreadNext

LEMMA AppInitType == AppInit => AppTypeInv
<1> SUFFICES ASSUME AppInit PROVE AppTypeInv
  OBVIOUS
<1>1. StoreInv
  BY StoreInitInv DEF AppInit
<1>2. BlankPage \in Page
  BY DEF BlankPage, Page, Owners, Choices
<1>3. SessionTypeOK
  BY <1>2 DEF AppInit, SessionTypeOK, Owners, Choices, Notices, Phases
<1>4. \A s \in Sessions : CallOK(s)
  BY NothingSound DEF AppInit, CallOK, Pending, Mutations, Writing
<1> QED BY <1>1, <1>3, <1>4 DEF AppInit, AppTypeInv

\* The clock ticks, or hands are at the file, or nothing happens.
Outside == ClockTick \/ Damage \/ Repair \/ UNCHANGED appVars

LEMMA OutsideType ==
    ASSUME AppTypeInv, Outside
    PROVE  AppTypeInv' /\ UNCHANGED sessionVars /\ models' = models /\ births' = births
<1>1. UNCHANGED sessionVars /\ models' = models /\ births' = births
  BY DEF Outside, ClockTick, Tick, Damage, Repair, appVars, sessionVars, storeVars
<1>2. Later
  <2>1. CASE ClockTick
    <3>1. StoreInv' /\ clock \in Nat /\ clock' = clock + 1 /\ births \in Nat
      BY <2>1, TickInv DEF ClockTick, Tick, AppTypeInv, StoreInv, StoreTypeOK
    <3> QED BY <1>1, <3>1 DEF Later
  <2>2. CASE ~ ClockTick
    <3>1. UNCHANGED storeVars
      BY <2>2 DEF Outside, Damage, Repair, appVars, storeVars
    <3> QED BY <3>1, StoreUnchanged DEF AppTypeInv
  <2> QED BY <2>1, <2>2
<1>3. readable' \in BOOLEAN
  BY DEF Outside, ClockTick, Damage, Repair, appVars, AppTypeInv
<1>4. \A s \in Sessions : CallOK(s)'
  <2> SUFFICES ASSUME NEW s \in Sessions PROVE CallOK(s)'
    OBVIOUS
  <2>1. Sound(snapshot[s])'
    BY <1>1, <1>2, SoundLater DEF sessionVars, AppTypeInv, CallOK
  <2> QED BY <1>1, <2>1 DEF sessionVars, AppTypeInv, CallOK
<1>5. SessionTypeOK'
  BY <1>1 DEF sessionVars, AppTypeInv, SessionTypeOK
<1> QED BY <1>1, <1>2, <1>3, <1>4, <1>5 DEF AppTypeInv, Later

LEMMA AppNextType == AppTypeInv /\ [AppNext]_appVars => AppTypeInv'
BY UserNextType, ThreadNextType, OutsideType DEF AppNext, Outside

THEOREM AppTypeInvariant == AppSpec => []AppTypeInv
BY AppInitType, AppNextType, PTL DEF AppSpec

\* The session state and the page are well typed, whatever overlaps.
THEOREM AppTypeCorrect == AppSpec => []AppTypeOK
BY AppTypeInvType, AppTypeInvariant, PTL

\* Whatever overlaps, and whatever old document a call writes back, every model
\* that is stored has a gapless history.
THEOREM PanelHistory == AppSpec => []HistoryWellFormed
<1>1. AppTypeInv => HistoryWellFormed
  BY DEF AppTypeInv, StoreInv
<1> QED BY <1>1, AppTypeInvariant, PTL

-----------------------------------------------------------------------------
(* The calls a session starts, and those it goes on with.                  *)

StartsSave(s) ==
    /\ phase'[s] = "creating"
    /\ RoomForModel
    /\ \E name \in Names :
          call'[s] = [op |-> "save", target |-> 0, name |-> name,
                      inputs |-> controls[s], owner |-> user[s]]

StartsClone(s) ==
    LET mid == selected'[s] IN
    /\ phase'[s] = "cloning"
    /\ mid = page[s].choice /\ mid # NoChoice /\ mid \in DOMAIN models
    /\ RoomForModel
    /\ call'[s] = [op |-> "clone", target |-> 0, name |-> Append(models[mid].name, Copy),
                   inputs |-> controls[s], owner |-> user[s]]

StartsMutation(s) ==
    LET mid == selected'[s] IN
    /\ phase'[s] \in Mutations
    /\ mid \in DOMAIN models
    /\ CanMutate(models[mid], user[s])
    /\ phase'[s] = "updating" => RoomForVersion(mid)
    /\ call'[s] = [op |-> OpOf[phase'[s]], target |-> models[mid].birth, name |-> <<>>,
                   inputs |-> controls[s], owner |-> user[s]]

\* A click ends its callback at once or starts a call.
LEMMA UserFacts ==
    ASSUME AppTypeInv, NEW s \in Sessions, UserNext(s)
    PROVE  /\ phase[s] \notin Pending
           /\ \/ /\ call'[s] = NoCall
                 /\ phase'[s] = "running"
                 /\ page'[s] \in {page[s], BlankPage}
                 /\ snapshot'[s] \in {snapshot[s], NoDocument}
              \/ /\ Event(s)
                 /\ user' = user /\ page' = page
                 /\ snapshot'[s] = snapshot[s]
                 /\ StartsSave(s) \/ StartsClone(s) \/ StartsMutation(s)
<1>1. SessionTypeOK /\ \A t \in Sessions : CallOK(t)
  BY DEF AppTypeInv
<1>2. Event(s) => phase[s] \notin Pending
  BY DEF Event, Pending, Mutations, Writing
<1> DEFINE Ended == /\ phase[s] \notin Pending
                    /\ call'[s] = NoCall
                    /\ phase'[s] = "running"
                    /\ page'[s] \in {page[s], BlankPage}
                    /\ snapshot'[s] \in {snapshot[s], NoDocument}
           Started == /\ phase[s] \notin Pending
                      /\ Event(s)
                      /\ user' = user /\ page' = page
                      /\ snapshot'[s] = snapshot[s]
                      /\ StartsSave(s) \/ StartsClone(s) \/ StartsMutation(s)
<1>3. ASSUME Event(s), NEW msg, NEW choice, Answer(s, msg, choice) PROVE Ended
  BY <1>1, <1>2, <1>3, AnswerFacts
<1>4. ASSUME NEW name \in Names, SaveNew(s, name) PROVE Started
  <2>1. Goes(s, "creating", "save", page[s].choice, 0, name) /\ user' = user
        /\ Event(s) /\ RoomForModel
    BY <1>4 DEF SaveNew
  <2>2. page' = page
    BY <2>1 DEF Goes
  <2>3. /\ phase'[s] = "creating" /\ snapshot'[s] = snapshot[s]
        /\ call'[s] = [op |-> "save", target |-> 0, name |-> name,
                       inputs |-> controls[s], owner |-> user[s]]
    BY <1>1, <2>1, GoesFacts
  <2>4. StartsSave(s)
    BY <2>1, <2>3 DEF StartsSave
  <2> QED BY <1>2, <2>1, <2>2, <2>3, <2>4
<1>5. ASSUME CloneSelected(s) PROVE Ended \/ Started
  <2> DEFINE mid == page[s].choice
  <2>1. Event(s) /\ user' = user /\ mid # NoChoice
    BY <1>5 DEF CloneSelected
  <2>2. CASE readable /\ mid \in DOMAIN models
    <3>1. /\ Goes(s, "cloning", "clone", mid, 0, Append(models[mid].name, Copy))
          /\ RoomForModel
      BY <1>5, <2>2 DEF CloneSelected
    <3>2. page' = page
      BY <3>1 DEF Goes
    <3> DEFINE slug == Append(models[mid].name, Copy)
    <3>3. Goes(s, "cloning", "clone", mid, 0, slug)
      BY <3>1
    <3> HIDE DEF mid, slug
    <3>4. /\ phase'[s] = "cloning" /\ snapshot'[s] = snapshot[s] /\ selected'[s] = mid
          /\ call'[s] = [op |-> "clone", target |-> 0, name |-> slug,
                         inputs |-> controls[s], owner |-> user[s]]
      BY <1>1, <2>1, <3>3, GoesFacts
    <3>5. StartsClone(s)
      BY <2>1, <2>2, <3>1, <3>4 DEF StartsClone, mid, slug
    <3> QED BY <1>2, <2>1, <3>2, <3>4, <3>5
  <2>3. CASE ~ (readable /\ mid \in DOMAIN models)
    BY <1>3, <1>5, <2>1, <2>3 DEF CloneSelected
  <2> QED BY <2>2, <2>3
<1>6. ASSUME NEW pending \in Mutations, Authorise(s, pending) PROVE Ended \/ Started
  <2> DEFINE mid == page[s].choice
  <2>1. Event(s) /\ user' = user
    BY <1>6 DEF Authorise
  <2>2. CASE /\ readable /\ mid \in DOMAIN models /\ CanMutate(models[mid], user[s])
    <3>1. /\ Goes(s, pending, OpOf[pending], mid, models[mid].birth, <<>>)
          /\ pending = "updating" => RoomForVersion(mid)
      BY <1>6, <2>2 DEF Authorise
    <3>2. page' = page
      BY <3>1 DEF Goes
    <3>3. /\ phase'[s] = pending /\ snapshot'[s] = snapshot[s] /\ selected'[s] = mid
          /\ call'[s] = [op |-> OpOf[pending], target |-> models[mid].birth, name |-> <<>>,
                         inputs |-> controls[s], owner |-> user[s]]
      BY <1>1, <2>1, <3>1, GoesFacts
    <3>4. StartsMutation(s)
      BY <1>6, <2>2, <3>1, <3>3 DEF StartsMutation
    <3> QED BY <1>2, <2>1, <3>2, <3>3, <3>4
  <2>3. CASE ~ (readable /\ mid \in DOMAIN models /\ CanMutate(models[mid], user[s]))
    BY <1>3, <1>6, <2>1, <2>3 DEF Authorise
  <2> QED BY <2>2, <2>3
<1>7. CASE Rerun(s) \/ \E preset \in Inputs : Reload(s, preset)
  <2>1. phase[s] = "idle" /\ phase'[s] = "running" /\ UNCHANGED <<call, snapshot>>
    BY <1>1, <1>7 DEF Rerun, Reload, SessionTypeOK
  <2>2. phase[s] \notin Pending
    BY <2>1 DEF Pending, Mutations, Writing
  <2>3. page'[s] \in {page[s], BlankPage}
    BY <1>1, <1>7 DEF Rerun, Reload, SessionTypeOK
  <2> QED BY <1>1, <2>1, <2>2, <2>3 DEF CallOK
<1>8. ASSUME \/ \E u \in Users : SignIn(s, u)
             \/ SignOut(s)
             \/ \E inputs \in Inputs : EditControls(s, inputs)
             \/ \E id \in page[s].listed : SelectModel(s, id)
             \/ LoadSelected(s)
      PROVE  Ended
  <2>1. Event(s) /\ \E msg, choice : Answer(s, msg, choice)
    BY <1>8 DEF SignIn, SignOut, EditControls, SelectModel, LoadSelected
  <2> QED BY <1>3, <2>1
<1> QED BY <1>4, <1>5, <1>6, <1>7, <1>8 DEF UserNext

\* The thread reads the file, to write it.
Reads(s) ==
    /\ phase[s] \in Mutations \cup {"creating"}
    /\ WillWrite(s, models)

\* The thread reads the source of a clone.
Looks(s) ==
    LET m == models[selected[s]] IN
    /\ phase[s] = "cloning" /\ phase'[s] = "creating"
    /\ selected[s] \in DOMAIN models
    /\ selected'[s] = selected[s] /\ page'[s] = page[s]
    /\ call'[s] = [call[s] EXCEPT !.inputs = Current(m).inputs,
                                  !.owner = CloneOwner(m, user[s])]

\* The thread redraws the page.
Draws(s) ==
    LET mid == page'[s].choice IN
    /\ phase'[s] = "idle"
    /\ page'[s].account = user[s]
    /\ mid # NoChoice => mid \in DOMAIN models /\ VisibleTo(models[mid], user[s])

\* The thread goes on with the call, ends it, or redraws the page.
LEMMA ThreadFacts ==
    ASSUME AppTypeInv, NEW s \in Sessions, ThreadNext(s)
    PROVE  /\ user' = user
           /\ snapshot'[s] \in {snapshot[s], models, NoDocument}
           /\ \/ /\ call'[s] = NoCall
                 /\ \/ phase'[s] = "running" /\ page'[s] = page[s]
                    \/ phase'[s] = "idle" /\ page'[s] = BlankPage
                    \/ Draws(s)
              \/ UNCHANGED storeVars /\ (Reads(s) \/ Looks(s))
<1>1. SessionTypeOK /\ StoreInv /\ \A t \in Sessions : CallOK(t)
  BY DEF AppTypeInv
<1>2. user' = user
  BY DEF ThreadNext, ReadToMutate, ReadSource, ReadToCreate, Write, WriteRaises, Tear, Body
<1>3. ASSUME NEW msg, NEW choice, Answer(s, msg, choice)
      PROVE  /\ call'[s] = NoCall /\ snapshot'[s] = NoDocument
             /\ phase'[s] = "running" /\ page'[s] = page[s]
  BY <1>1, <1>3, AnswerFacts
<1>4. ASSUME Raise(s)
      PROVE  /\ call'[s] = NoCall /\ snapshot'[s] = NoDocument
             /\ phase'[s] = "idle" /\ page'[s] = BlankPage
  BY <1>1, <1>2, <1>4, RaiseFacts
<1>5. CASE ReadToMutate(s) \/ ReadToCreate(s)
  <2>1. \/ Answer(s, "failed", selected[s])
        \/ Reads(s) /\ UNCHANGED storeVars
    BY <1>5 DEF ReadToMutate, ReadToCreate, Reads
  <2>2. Reads(s) => snapshot'[s] = models
    BY <1>1, <1>2, WillWriteFacts DEF Reads
  <2> QED BY <1>2, <1>3, <2>1, <2>2
<1>6. CASE ReadSource(s)
  <2>1. CASE readable /\ selected[s] \in DOMAIN models
    <3>1. UNCHANGED storeVars /\ snapshot' = snapshot /\ selected' = selected /\ page' = page
      BY <1>6, <2>1 DEF ReadSource
    <3>2. Looks(s)
      BY <1>1, <1>6, <2>1 DEF ReadSource, SessionTypeOK, Looks
    <3> QED BY <1>2, <3>1, <3>2
  <2>2. CASE ~ (readable /\ selected[s] \in DOMAIN models)
    BY <1>2, <1>3, <1>6, <2>2 DEF ReadSource
  <2> QED BY <2>1, <2>2
<1>7. CASE Write(s) \/ WriteRaises(s) \/ Tear(s)
  BY <1>2, <1>3, <1>4, <1>7 DEF Write, WriteRaises, Tear
<1>8. CASE Body(s)
  <2>1. phase[s] = "running" /\ phase'[s] = "idle" /\ call'[s] = call[s]
        /\ snapshot'[s] = snapshot[s]
    BY <1>1, <1>8 DEF Body, SessionTypeOK
  <2>2. phase[s] \notin Pending
    BY <2>1 DEF Pending, Mutations, Writing
  <2>3. CASE readable
    <3> DEFINE visible == VisibleIds(user[s])
               choice == Settled(selected[s], visible)
    <3>1. visible \subseteq DOMAIN models /\ \A id \in visible : VisibleTo(models[id], user[s])
      BY DEF VisibleIds
    <3>2. choice \in visible \/ choice = NoChoice
      BY <1>1, <3>1, SettledIsListed
    <3>3. page'[s].account = user[s] /\ page'[s].choice = choice
      BY <1>1, <1>8, <2>3 DEF Body, SessionTypeOK
    <3> HIDE DEF visible, choice
    <3>4. Draws(s)
      BY <2>1, <3>1, <3>2, <3>3 DEF Draws
    <3> QED BY <1>1, <1>2, <2>1, <2>2, <3>4 DEF CallOK
  <2>4. CASE ~ readable
    <3>1. page'[s] = BlankPage
      BY <1>1, <1>8, <2>4 DEF Body, SessionTypeOK
    <3> QED BY <1>1, <1>2, <2>1, <2>2, <3>1 DEF CallOK
  <2> QED BY <2>3, <2>4
<1> QED BY <1>5, <1>6, <1>7, <1>8 DEF ThreadNext

\* A call that goes on is the same call.
LEMMA SameCall ==
    ASSUME AppTypeInv, NEW s \in Sessions, user' = user, Reads(s) \/ Looks(s)
    PROVE  call'[s].op = call[s].op /\ call'[s].target = call[s].target
<1>1. CASE Reads(s)
  BY <1>1, WillWriteFacts DEF AppTypeInv, Reads
<1>2. CASE Looks(s)
  <2>1. call[s] \in Call
    BY <1>2 DEF AppTypeInv, CallOK, Looks, Pending
  <2> QED BY <1>2, <2>1 DEF Looks, Call
<1> QED BY <1>1, <1>2

-----------------------------------------------------------------------------
(* Ownership, when callbacks overlap.                                      *)

\* Some document, stored or read, holds model number b as owner o's.
StampedIn(ms, b, o) == \E id \in DOMAIN ms : ms[id].birth = b /\ ms[id].owner = o

Stamped(b, o) ==
    StampedIn(models, b, o) \/ \E s \in Sessions : StampedIn(snapshot[s], b, o)

\* The owner of a model is the same wherever the model is found.
OneOwner == \A b, o, p : Stamped(b, o) /\ Stamped(b, p) => o = p

\* What authorize_mutation has granted a session: the model it was asked for
\* is the user's wherever it is found, now and later.
Grant(s) ==
    /\ user[s] # NoUser
    /\ call[s].target \in Nat
    /\ call[s].target < births
    /\ \A b, o : b = call[s].target /\ Stamped(b, o) => o = user[s]

GrantsHold == \A s \in Sessions : call[s].op \in {"update", "delete"} => Grant(s)

GrantInv == AppTypeInv /\ OneOwner /\ GrantsHold

\* Every model that is found was made.
LEMMA StampedBefore ==
    ASSUME AppTypeInv, NEW b, NEW o, Stamped(b, o)
    PROVE  b \in Nat /\ b < births
BY DEF AppTypeInv, StoreInv, StoreTypeOK, Complete, SavedModel, BirthsBelow, CallOK, Sound,
       Stamped, StampedIn

\* A step that writes nothing makes no model appear that was not there.
LEMMA QuietStamps ==
    ASSUME models' = models,
           \A s \in Sessions : snapshot'[s] \in {snapshot[s], models, NoDocument},
           NEW b, NEW o, Stamped(b, o)'
    PROVE  Stamped(b, o)
<1>1. CASE StampedIn(models, b, o)'
  BY <1>1 DEF StampedIn, Stamped
<1>2. ASSUME NEW s \in Sessions, NEW id \in DOMAIN snapshot'[s],
             snapshot'[s][id].birth = b, snapshot'[s][id].owner = o
      PROVE  Stamped(b, o)
  <2>1. snapshot'[s] # NoDocument
    BY <1>2 DEF NoDocument
  <2> QED BY <1>2, <2>1 DEF Stamped, StampedIn
<1> QED BY <1>1, <1>2 DEF Stamped, StampedIn

\* A write makes one model appear at most, with a number of its own.
LEMMA WriteStamps ==
    ASSUME AppTypeInv, NEW s \in Sessions, Write(s),
           \A t \in Sessions : snapshot'[t] \in {snapshot[t], models, NoDocument}
    PROVE  /\ births' \in Nat /\ births <= births'
           /\ \E owner : \A b, o : Stamped(b, o)'
                            => Stamped(b, o) \/ (b = births /\ o = owner /\ births < births')
<1> DEFINE owner == call[s].owner
           Was(b, o) == Stamped(b, o) \/ (b = births /\ o = owner /\ births < births')
<1>1. births \in Nat /\ Sound(snapshot[s]) /\ clock \in Nat
  BY WriteCases DEF AppTypeInv, StoreInv, StoreTypeOK
<1>2. births' \in Nat /\ births <= births'
  BY WriteLater DEF Later, StoreInv, StoreTypeOK
<1>3. ASSUME NEW id \in DOMAIN models'
      PROVE  Was(models'[id].birth, models'[id].owner)
  <2>1. ASSUME id \in DOMAIN snapshot[s],
               models'[id].birth = snapshot[s][id].birth,
               models'[id].owner = snapshot[s][id].owner
        PROVE  Was(models'[id].birth, models'[id].owner)
    BY <2>1 DEF Stamped, StampedIn
  <2>2. CASE WritesUpdate(s)
    <3>1. /\ selected[s] \in DOMAIN snapshot[s] /\ DOMAIN models' = DOMAIN snapshot[s]
          /\ \A i \in DOMAIN snapshot[s] \ {selected[s]} : models'[i] = snapshot[s][i]
          /\ models'[selected[s]] = Revised(snapshot[s][selected[s]], call[s].inputs)
      BY <2>2, UpdatedModel DEF WritesUpdate
    <3>2. /\ models'[selected[s]].birth = snapshot[s][selected[s]].birth
          /\ models'[selected[s]].owner = snapshot[s][selected[s]].owner
      <4>1. snapshot[s][selected[s]] \in SavedModel /\ snapshot[s][selected[s]].versions # <<>>
        BY <1>1, <3>1 DEF Sound, Complete
      <4>2. call[s].inputs \in Inputs
        BY WriteCases DEF Call
      <4>3. /\ Revised(snapshot[s][selected[s]], call[s].inputs).birth
                  = snapshot[s][selected[s]].birth
            /\ Revised(snapshot[s][selected[s]], call[s].inputs).owner
                  = snapshot[s][selected[s]].owner
        BY <1>1, <4>1, <4>2, RevisedModel
      <4> QED BY <3>1, <4>3
    <3> HIDE DEF Was
    <3> QED BY <2>1, <3>1, <3>2
  <2>3. CASE WritesDelete(s)
    BY <2>1, <2>3 DEF WritesDelete, DeleteFrom
  <2>4. ASSUME NEW new, WritesModel(s, new) PROVE Was(models'[id].birth, models'[id].owner)
    <3>1. /\ DOMAIN models' = DOMAIN snapshot[s] \cup {new}
          /\ \A i \in DOMAIN snapshot[s] : models'[i] = snapshot[s][i]
          /\ models'[new] = NewModel(call[s].name, call[s].inputs, owner)
          /\ births' = births + 1
      <4>1. CreateFrom(snapshot[s], call[s].name, new, call[s].inputs, owner)
        BY <2>4 DEF WritesModel
      <4> HIDE DEF owner, Was
      <4> QED BY <4>1 DEF CreateFrom, StoreIn, IsUniqueId
    <3>2. models'[new].birth = births /\ models'[new].owner = owner /\ births < births'
      BY <1>1, <3>1 DEF NewModel
    <3>3. CASE id = new
      BY <3>2, <3>3
    <3>4. CASE id # new
      BY <2>1, <3>1, <3>4
    <3> QED BY <3>3, <3>4
  <2> QED BY <2>2, <2>3, <2>4, WriteCases
<1>4. ASSUME NEW b, NEW o, Stamped(b, o)' PROVE Was(b, o)
  <2>1. CASE StampedIn(models, b, o)'
    <3> HIDE DEF Was
    <3> QED BY <1>3, <2>1 DEF StampedIn
  <2>2. ASSUME NEW t \in Sessions, NEW id \in DOMAIN snapshot'[t],
               snapshot'[t][id].birth = b, snapshot'[t][id].owner = o
        PROVE  Stamped(b, o)
    <3>1. snapshot'[t] # NoDocument
      BY <2>2 DEF NoDocument
    <3> QED BY <2>2, <3>1 DEF Stamped, StampedIn
  <2> QED BY <1>4, <2>1, <2>2 DEF Stamped, StampedIn
<1> QED BY <1>2, <1>4

\* If a step adds nothing but models with numbers of their own, owners and
\* grants stay as they are.
LEMMA GrantsKept ==
    ASSUME GrantInv, births' \in Nat, births <= births', NEW owner,
           \A b, o : Stamped(b, o)'
              => Stamped(b, o) \/ (b = births /\ o = owner /\ births < births')
    PROVE  /\ OneOwner'
           /\ \A s \in Sessions :
                 /\ call[s].op \in {"update", "delete"}
                 /\ call'[s].target = call[s].target
                 /\ user'[s] = user[s]
                 => Grant(s)'
<1>1. /\ births \in Nat
      /\ \A b, o : Stamped(b, o) => b \in Nat /\ b < births
  BY StampedBefore DEF GrantInv, AppTypeInv, StoreInv, StoreTypeOK
<1>2. OneOwner'
  <2> SUFFICES ASSUME NEW b, NEW o, NEW p, Stamped(b, o)', Stamped(b, p)' PROVE o = p
    BY DEF OneOwner
  <2>1. CASE Stamped(b, o) /\ Stamped(b, p)
    BY <2>1 DEF GrantInv, OneOwner
  <2>2. CASE ~ (Stamped(b, o) /\ Stamped(b, p))
    BY <1>1, <2>2
  <2> QED BY <2>1, <2>2
<1>3. ASSUME NEW s \in Sessions, call[s].op \in {"update", "delete"},
             call'[s].target = call[s].target, user'[s] = user[s]
      PROVE  Grant(s)'
  <2>1. Grant(s)
    BY <1>3 DEF GrantInv, GrantsHold
  <2>2. call'[s].target \in Nat /\ call'[s].target < births'
    BY <1>1, <1>3, <2>1 DEF Grant
  <2>3. ASSUME NEW b, NEW o, b = call[s].target, Stamped(b, o)' PROVE o = user[s]
    BY <1>1, <2>1, <2>3 DEF Grant
  <2> QED BY <1>3, <2>1, <2>2, <2>3 DEF Grant
<1> QED BY <1>2, <1>3

LEMMA GrantInvNext ==
    ASSUME GrantInv, [AppNext]_appVars
    PROVE  GrantInv'
<1>1. AppTypeInv /\ AppTypeInv' /\ births \in Nat /\ births <= births
  BY AppNextType DEF GrantInv, AppTypeInv, StoreInv, StoreTypeOK
<1>2. ASSUME models' = models, births' = births,
             \A t \in Sessions : snapshot'[t] \in {snapshot[t], models, NoDocument}
      PROVE  /\ OneOwner'
             /\ \A t \in Sessions :
                   /\ call[t].op \in {"update", "delete"}
                   /\ call'[t].target = call[t].target
                   /\ user'[t] = user[t]
                   => Grant(t)'
  <2>1. \A b, o : Stamped(b, o)' => Stamped(b, o)
    BY <1>2, QuietStamps
  <2> QED BY <1>1, <1>2, <2>1, GrantsKept
<1>3. CASE Outside
  <2>1. UNCHANGED sessionVars /\ models' = models /\ births' = births
    BY <1>1, <1>3, OutsideType
  <2>2. OneOwner' /\ GrantsHold'
    BY <1>2, <2>1 DEF sessionVars, GrantsHold
  <2> QED BY <1>1, <2>2 DEF GrantInv
<1>4. ASSUME NEW s \in Sessions, UserNext(s) PROVE GrantInv'
  <2>1. models' = models /\ births' = births /\ Others(s)
    BY <1>1, <1>4, UserNextType DEF storeVars
  <2>2. \A t \in Sessions : snapshot'[t] \in {snapshot[t], models, NoDocument}
    BY <1>1, <1>4, <2>1, UserFacts DEF Others
  <2>3. OneOwner'
    BY <1>2, <2>1, <2>2
  <2>4. \A t \in Sessions \ {s} : call'[t].op \in {"update", "delete"} => Grant(t)'
    BY <1>2, <2>1, <2>2 DEF Others
  <2>5. CASE StartsMutation(s) /\ user' = user
    <3> DEFINE mid == selected'[s]
    <3>1. /\ mid \in DOMAIN models /\ models[mid].owner = user[s] /\ user[s] # NoUser
          /\ call'[s].target = models[mid].birth
      BY <2>5 DEF StartsMutation, CanMutate
    <3>2. models[mid].birth \in Nat /\ models[mid].birth < births
      BY <1>1, <3>1 DEF AppTypeInv, StoreInv, StoreTypeOK, Complete, SavedModel, BirthsBelow
    <3>3. \A b, o : b = models[mid].birth /\ Stamped(b, o)' => o = user[s]
      <4>1. \A b, o : b = models[mid].birth /\ Stamped(b, o)' => Stamped(b, o)
        BY <2>1, <2>2, QuietStamps
      <4>2. Stamped(models[mid].birth, user[s])
        BY <3>1 DEF Stamped, StampedIn
      <4> QED BY <4>1, <4>2 DEF GrantInv, OneOwner
    <3> HIDE DEF mid
    <3>4. Grant(s)'
      BY <2>1, <2>5, <3>1, <3>2, <3>3 DEF Grant
    <3> QED BY <1>1, <2>3, <2>4, <3>4 DEF GrantInv, GrantsHold
  <2>6. CASE call'[s] = NoCall \/ StartsSave(s) \/ StartsClone(s)
    <3>1. call'[s].op \in {"none", "save", "clone"}
      <4>1. CASE call'[s] = NoCall
        BY <4>1 DEF NoCall
      <4>2. CASE StartsSave(s)
        BY <4>2 DEF StartsSave
      <4>3. CASE StartsClone(s)
        BY <4>3 DEF StartsClone
      <4> QED BY <2>6, <4>1, <4>2, <4>3
    <3> QED BY <1>1, <2>3, <2>4, <3>1 DEF GrantInv, GrantsHold
  <2> QED BY <1>1, <1>4, <2>5, <2>6, UserFacts
<1>5. ASSUME NEW s \in Sessions, ThreadNext(s) PROVE GrantInv'
  <2>1. /\ Others(s) /\ user' = user
        /\ Write(s) \/ (models' = models /\ births' = births)
    BY <1>1, <1>5, ThreadNextType, ThreadFacts DEF storeVars
  <2>2. \A t \in Sessions : snapshot'[t] \in {snapshot[t], models, NoDocument}
    BY <1>1, <1>5, <2>1, ThreadFacts DEF Others
  <2>3. /\ OneOwner'
        /\ \A t \in Sessions :
              call[t].op \in {"update", "delete"} /\ call'[t].target = call[t].target
                 => Grant(t)'
    <3>1. CASE Write(s)
      <4>1. births' \in Nat /\ births <= births'
        BY <1>1, <2>2, <3>1, WriteStamps
      <4>2. PICK owner : \A b, o : Stamped(b, o)'
                            => Stamped(b, o) \/ (b = births /\ o = owner /\ births < births')
        BY <1>1, <2>2, <3>1, WriteStamps
      <4> QED BY <2>1, <4>1, <4>2, GrantsKept
    <3>2. CASE models' = models /\ births' = births
      BY <1>2, <2>1, <2>2, <3>2
    <3> QED BY <2>1, <3>1, <3>2
  <2>4. ASSUME NEW t \in Sessions, call'[t].op \in {"update", "delete"} PROVE Grant(t)'
    <3>1. CASE t # s
      BY <2>1, <2>3, <2>4, <3>1 DEF Others
    <3>2. CASE t = s
      <4>1. call'[s].op = call[s].op /\ call'[s].target = call[s].target
        BY <1>1, <1>5, <2>4, <3>2, ThreadFacts, SameCall DEF NoCall
      <4> QED BY <2>3, <2>4, <3>2, <4>1
    <3> QED BY <3>1, <3>2
  <2> QED BY <1>1, <2>3, <2>4 DEF GrantInv, GrantsHold
<1> QED BY <1>3, <1>4, <1>5 DEF AppNext, Outside

THEOREM GrantInvariant == AppSpec => []GrantInv
<1>1. AppInit => GrantInv
  <2> SUFFICES ASSUME AppInit PROVE GrantInv
    OBVIOUS
  <2>1. \A b, o : ~ Stamped(b, o)
    BY DEF AppInit, StoreInit, Stamped, StampedIn, NoDocument
  <2>2. \A s \in Sessions : call[s].op \notin {"update", "delete"}
    BY DEF AppInit, NoCall
  <2> QED BY <2>1, <2>2, AppInitType DEF GrantInv, OneOwner, GrantsHold
<1>2. GrantInv /\ [AppNext]_appVars => GrantInv'
  BY GrantInvNext
<1> QED BY <1>1, <1>2, PTL DEF AppSpec

\* A step that changes a model writes, and shows that it does.
LEMMA OnlyWritesChange ==
    ASSUME AppTypeInv, [AppNext]_appVars, models' # models
    PROVE  \E s \in Sessions : Write(s) /\ Acted(s) /\ phase[s] \in Writing
<1>1. ~ Outside
  BY OutsideType
<1>2. PICK s \in Sessions : UserNext(s) \/ ThreadNext(s)
  BY <1>1 DEF AppNext, Outside
<1>3. Write(s)
  BY <1>2, UserNextType, ThreadNextType DEF storeVars
<1>4. phase[s] \in Writing /\ phase'[s] \in {"idle", "running"}
  <2>1. SessionTypeOK /\ phase[s] \in Writing /\ user' = user
    BY <1>3, WriteCases DEF AppTypeInv
  <2>2. Raise(s) \/ \E msg, choice : Answer(s, msg, choice)
    BY <1>3 DEF Write
  <2> QED BY <2>1, <2>2, AnswerFacts, RaiseFacts
<1>5. Acted(s)
  BY <1>4 DEF Acted, Writing
<1> QED BY <1>3, <1>4, <1>5

\* A write changes a model that the call has read as it is only if it updates
\* or deletes it.
LEMMA SeenChanges ==
    ASSUME AppTypeInv, NEW s \in Sessions, Write(s), NEW id \in DOMAIN models,
           Changes(id), ~ Unseen(s, id)
    PROVE  selected[s] = id /\ call[s].op \in {"update", "delete"}
<1>1. id \in DOMAIN snapshot[s] /\ snapshot[s][id] = models[id]
  BY DEF Unseen
<1>2. CASE WritesUpdate(s)
  BY <1>1, <1>2, UpdatedModel DEF WritesUpdate, Changes
<1>3. CASE WritesDelete(s)
  BY <1>1, <1>3 DEF WritesDelete, DeleteFrom, Changes
<1>4. ASSUME NEW new, WritesModel(s, new) PROVE FALSE
  <2>1. id \in DOMAIN models' /\ models'[id] = snapshot[s][id]
    BY <1>1, <1>4 DEF WritesModel, CreateFrom, StoreIn, IsUniqueId
  <2> QED BY <1>1, <2>1 DEF Changes
<1> QED BY <1>2, <1>3, <1>4, WriteCases

\* Whatever overlaps, a model that is changed by anybody but its owner has the
\* id of one that its mutator did own, or the writer did not see it as it was.
THEOREM OthersReplacedOrUnseen == AppSpec => OwnerReplacedOrUnseen
<1>1. ASSUME GrantInv, [AppNext]_appVars, NEW id \in DOMAIN models, Changes(id)
      PROVE  \E s \in Sessions : /\ Acted(s)
                                 /\ phase[s] \in Writing
                                 /\ MutatedBy(s, id) \/ Unseen(s, id)
  <2>1. AppTypeInv /\ models' # models
    BY <1>1 DEF GrantInv, Changes
  <2>2. PICK s \in Sessions : Write(s) /\ Acted(s) /\ phase[s] \in Writing
    BY <1>1, <2>1, OnlyWritesChange
  <2>3. ASSUME ~ Unseen(s, id) PROVE MutatedBy(s, id)
    <3>1. selected[s] = id /\ call[s].op \in {"update", "delete"}
      BY <1>1, <2>1, <2>2, <2>3, SeenChanges
    <3>2. Grant(s)
      BY <1>1, <3>1 DEF GrantInv, GrantsHold
    <3>3. Stamped(models[id].birth, models[id].owner)
      BY <1>1 DEF Stamped, StampedIn
    <3> QED BY <3>1, <3>2, <3>3 DEF MutatedBy, Grant
  <2> QED BY <2>2, <2>3
<1>2. GrantInv /\ [AppNext]_appVars
        => [\A id \in DOMAIN models :
               Changes(id)
                  => \E s \in Sessions : /\ Acted(s)
                                         /\ phase[s] \in Writing
                                         /\ MutatedBy(s, id) \/ Unseen(s, id)]_appVars
  BY <1>1
<1> QED BY <1>2, GrantInvariant, PTL DEF AppSpec, OwnerReplacedOrUnseen

-----------------------------------------------------------------------------
(* When callbacks do not overlap.                                          *)

OnePending ==
    \A s, t \in Sessions : phase[s] \in Pending /\ phase[t] \in Pending => s = t

\* The document is still the one a call has read, and all that was true of it
\* when the call began is true when the call writes.
CallStands(s) ==
    LET m == models[selected[s]] IN
    phase[s] \in Pending =>
       /\ phase[s] # "sharing"
       /\ phase[s] \in Writing => snapshot[s] = models
       /\ call[s].op \in {"update", "delete"} =>
             selected[s] \in DOMAIN models /\ CanMutate(m, user[s])
       /\ call[s].op = "update" => RoomForVersion(selected[s])
       /\ call[s].op \in {"clone", "save"} => births < MaxBirths
       /\ call[s].op = "save" => call[s].name \in Names /\ call[s].owner = user[s]
       /\ call[s].op = "clone" =>
             /\ selected[s] \in DOMAIN models
             /\ call[s].name = Append(m.name, Copy)
             /\ phase[s] # "cloning" => /\ call[s].inputs = Current(m).inputs
                                        /\ call[s].owner = CloneOwner(m, user[s])
             /\ user[s] = NoUser => m.owner = NoUser \/ page[s].account # NoUser

\* What a guest's page has selected is there and unowned, for as long as the
\* page is shown; a page that has been redrawn is the page of its user.
PageTrue(s) ==
    LET mid == page[s].choice IN
    /\ mid # NoChoice /\ page[s].account = NoUser
          => mid \in DOMAIN models /\ models[mid].owner = NoUser
    /\ mid # NoChoice /\ phase[s] = "idle" => page[s].account = user[s]

SerialInv == AppTypeInv /\ OnePending /\ \A s \in Sessions : CallStands(s) /\ PageTrue(s)

LEMMA SerialInvInit == AppInit => SerialInv
<1> SUFFICES ASSUME AppInit PROVE SerialInv
  OBVIOUS
<1>1. \A s \in Sessions : phase[s] \notin Pending /\ page[s].choice = NoChoice
  BY DEF AppInit, Pending, Mutations, Writing, BlankPage
<1> QED BY <1>1, AppInitType DEF SerialInv, OnePending, CallStands, PageTrue

\* A call that is written changes no model but the one it updates or deletes,
\* and that one is its user's.
LEMMA SerialChanges ==
    ASSUME SerialInv, NEW s \in Sessions, Write(s), NEW id \in DOMAIN models, Changes(id)
    PROVE  selected[s] = id /\ CanMutate(models[id], user[s])
<1>1. phase[s] \in Writing /\ phase[s] \in Pending
  BY DEF Write, Pending
<1>2. ~ Unseen(s, id)
  BY <1>1 DEF SerialInv, CallStands, Unseen
<1>3. selected[s] = id /\ call[s].op \in {"update", "delete"}
  BY <1>2, SeenChanges DEF SerialInv
<1> QED BY <1>1, <1>3 DEF SerialInv, CallStands

\* A model that nobody owns stays.
LEMMA UnownedStay ==
    ASSUME SerialInv, NEW s \in Sessions, Write(s), NEW id \in DOMAIN models,
           models[id].owner = NoUser
    PROVE  id \in DOMAIN models' /\ models'[id] = models[id]
BY SerialChanges DEF Changes, CanMutate

\* The sessions that do not take a step keep what they have.
LEMMA OthersSerial ==
    ASSUME SerialInv, NEW s \in Sessions, Others(s),
           phase'[s] \in Writing => phase[s] \in Pending,
           \/ models' = models /\ births' = births
           \/ Write(s),
           NEW t \in Sessions \ {s}
    PROVE  /\ phase'[t] = phase[t]
           /\ CallStands(t)' /\ PageTrue(t)'
<1>1. phase'[t] = phase[t]
  BY DEF SerialInv, OnePending, Others, Pending, Writing
<1>2. CallStands(t)'
  <2>1. CASE phase[t] \in Pending
    <3>1. models' = models /\ births' = births
      BY <2>1 DEF SerialInv, OnePending, Write, Pending
    <3>2. /\ user'[t] = user[t] /\ selected'[t] = selected[t]
          /\ call'[t] = call[t] /\ snapshot'[t] = snapshot[t] /\ page'[t] = page[t]
      BY DEF Others
    <3>3. CallStands(t)
      BY DEF SerialInv
    <3> QED BY <1>1, <3>1, <3>2, <3>3 DEF CallStands, RoomForVersion, CanMutate, Current, CloneOwner
  <2>2. CASE phase[t] \notin Pending
    BY <1>1, <2>2 DEF CallStands
  <2> QED BY <2>1, <2>2
<1>3. PageTrue(t)'
  <2>1. PageTrue(t) /\ page'[t] = page[t] /\ user'[t] = user[t]
    BY DEF SerialInv, Others
  <2>2. CASE models' = models
    BY <1>1, <2>1, <2>2 DEF PageTrue
  <2>3. CASE Write(s)
    BY <1>1, <2>1, <2>3, UnownedStay DEF PageTrue
  <2> QED BY <2>2, <2>3
<1> QED BY <1>1, <1>2, <1>3

LEMMA UserNextSerial ==
    ASSUME SerialCallbacks, SerialInv, NEW s \in Sessions, UserNext(s)
    PROVE  SerialInv'
<1>1. AppTypeInv /\ AppTypeInv' /\ models' = models /\ births' = births /\ Others(s)
  BY UserNextType DEF SerialInv, storeVars
<1>2. phase'[s] \notin Writing
  BY <1>1, UserFacts DEF Writing, StartsSave, StartsClone, StartsMutation, Mutations
<1>3. \A t \in Sessions \ {s} : phase'[t] = phase[t] /\ CallStands(t)' /\ PageTrue(t)'
  BY <1>1, <1>2, OthersSerial
<1>4. CASE phase'[s] = "running" /\ page'[s] \in {page[s], BlankPage}
  <2>1. phase'[s] \notin Pending
    BY <1>4 DEF Pending, Mutations, Writing
  <2>2. PageTrue(s)'
    BY <1>1, <1>4 DEF SerialInv, PageTrue, BlankPage
  <2> QED BY <1>1, <1>3, <2>1, <2>2 DEF SerialInv, OnePending, CallStands
<1>5. CASE /\ Event(s) /\ user' = user /\ page' = page
           /\ StartsSave(s) \/ StartsClone(s) \/ StartsMutation(s)
  <2>1. NobodyPending
    BY <1>5 DEF Event
  <2>2. OnePending'
    BY <1>3, <2>1 DEF NobodyPending, OnePending
  <2>3. phase'[s] \in {"creating", "cloning", "updating", "deleting"}
    BY <1>5 DEF StartsSave, StartsClone, StartsMutation, Mutations
  <2>4. PageTrue(s)'
    BY <1>1, <1>5, <2>3 DEF SerialInv, PageTrue
  <2>5. RoomForModel => births < MaxBirths
    <3>1. \A t \in Sessions : call[t] = NoCall
      BY <1>1, <2>1 DEF NobodyPending, AppTypeInv, CallOK
    <3>2. {t \in Sessions : call[t].op \in {"clone", "save"}} = {}
      BY <3>1 DEF NoCall
    <3>3. births + 0 = births
      BY <1>1 DEF AppTypeInv, StoreInv, StoreTypeOK
    <3> QED BY <3>2, <3>3, FS_EmptySet DEF RoomForModel
  <2>6. CallStands(s)'
    <3>1. CASE StartsSave(s)
      <4>1. PICK name \in Names :
               call'[s] = [op |-> "save", target |-> 0, name |-> name,
                           inputs |-> controls[s], owner |-> user[s]]
        BY <3>1 DEF StartsSave
      <4>2. call'[s].op = "save" /\ call'[s].name \in Names /\ call'[s].owner = user'[s]
        BY <1>5, <4>1
      <4>3. births' < MaxBirths
        BY <1>1, <2>5, <3>1 DEF StartsSave
      <4> QED BY <1>2, <2>3, <4>2, <4>3 DEF CallStands, Writing
    <3>2. CASE StartsClone(s)
      <4> DEFINE mid == selected'[s]
      <4>1. /\ mid = page[s].choice /\ mid # NoChoice /\ mid \in DOMAIN models
            /\ phase'[s] = "cloning"
            /\ call'[s].op = "clone" /\ call'[s].name = Append(models[mid].name, Copy)
        BY <3>2 DEF StartsClone
      <4>2. births' < MaxBirths
        BY <1>1, <2>5, <3>2 DEF StartsClone
      <4>3. models[mid].owner = NoUser \/ page[s].account # NoUser
        BY <4>1 DEF SerialInv, PageTrue
      <4> QED BY <1>1, <1>2, <1>5, <4>1, <4>2, <4>3 DEF CallStands, Writing
    <3>3. CASE StartsMutation(s)
      <4> DEFINE mid == selected'[s]
      <4>1. /\ mid \in DOMAIN models /\ CanMutate(models[mid], user[s])
            /\ phase'[s] \in Mutations
            /\ phase'[s] = "updating" => RoomForVersion(mid)
            /\ call'[s].op = OpOf[phase'[s]]
        BY <3>3 DEF StartsMutation
      <4>2. CASE phase'[s] = "updating"
        <5>1. call'[s].op = "update"
          BY <4>1, <4>2 DEF OpOf
        <5> QED BY <1>1, <1>2, <1>5, <4>1, <4>2, <5>1
                DEF CallStands, Writing, CanMutate, RoomForVersion
      <4>3. CASE phase'[s] = "deleting"
        <5>1. call'[s].op = "delete"
          BY <4>1, <4>3 DEF OpOf
        <5> QED BY <1>1, <1>2, <1>5, <4>1, <4>3, <5>1 DEF CallStands, Writing, CanMutate
      <4> QED BY <4>1, <4>2, <4>3 DEF Mutations
    <3> QED BY <1>5, <3>1, <3>2, <3>3
  <2> QED BY <1>1, <1>3, <2>2, <2>4, <2>6 DEF SerialInv
<1> QED BY <1>1, <1>4, <1>5, UserFacts

LEMMA ThreadNextSerial ==
    ASSUME SerialInv, NEW s \in Sessions, ThreadNext(s)
    PROVE  SerialInv'
<1>1. /\ AppTypeInv /\ AppTypeInv' /\ Others(s) /\ user' = user
      /\ Write(s) \/ (models' = models /\ births' = births)
      /\ SessionTypeOK
  BY ThreadNextType, ThreadFacts DEF SerialInv, storeVars, AppTypeInv
<1>2. phase'[s] \in Pending => phase[s] \in Pending
  BY <1>1, ThreadFacts DEF AppTypeInv, CallOK, Draws, Reads, Looks, Pending, Mutations, Writing
<1>3. \A t \in Sessions \ {s} : phase'[t] = phase[t] /\ CallStands(t)' /\ PageTrue(t)'
  BY <1>1, <1>2, OthersSerial DEF Pending
<1>4. OnePending'
  BY <1>2, <1>3 DEF SerialInv, OnePending
<1>5. PageTrue(s) /\ CallStands(s)
  BY DEF SerialInv
<1>6. ASSUME page'[s] = page[s], phase'[s] # "idle"
      PROVE  PageTrue(s)'
  <2>1. CASE models' = models
    BY <1>5, <1>6, <2>1 DEF PageTrue
  <2>2. CASE Write(s)
    BY <1>5, <1>6, <2>2, UnownedStay DEF PageTrue
  <2> QED BY <1>1, <2>1, <2>2
<1>7. CASE call'[s] = NoCall /\ phase'[s] \in {"idle", "running"}
  <2>1. CallStands(s)'
    BY <1>7 DEF CallStands, Pending, Mutations, Writing
  <2>2. PageTrue(s)'
    <3>1. CASE phase'[s] = "running" /\ page'[s] = page[s]
      BY <1>6, <3>1
    <3>2. CASE page'[s] = BlankPage
      BY <3>2 DEF PageTrue, BlankPage
    <3>3. CASE Draws(s) /\ models' = models
      BY <1>1, <3>3 DEF Draws, PageTrue, VisibleTo
    <3>4. CASE Write(s)
      <4>1. (phase'[s] = "running" /\ page'[s] = page[s]) \/ page'[s] = BlankPage
        BY <1>1, <3>4, AnswerFacts, RaiseFacts DEF Write
      <4> QED BY <3>1, <3>2, <4>1
    <3>5. ~ Reads(s) /\ ~ Looks(s)
      BY <1>1, <1>7, WillWriteFacts DEF Reads, Looks, Writing
    <3> QED BY <1>1, <3>1, <3>2, <3>3, <3>4, <3>5, ThreadFacts
  <2> QED BY <1>1, <1>3, <1>4, <2>1, <2>2 DEF SerialInv
<1>8. CASE Reads(s) /\ models' = models /\ births' = births
  <2>1. /\ phase[s] \in Pending /\ phase[s] \notin Writing /\ phase[s] # "cloning"
        /\ phase'[s] \in Writing
        /\ phase'[s] = "sharing" => \E t \in Sessions : phase[t] \in Writing
        /\ selected'[s] = selected[s] /\ call'[s] = call[s]
        /\ snapshot'[s] = models /\ page'[s] = page[s]
    BY <1>1, <1>8, WillWriteFacts DEF Reads, Pending, Mutations, Writing
  <2>2. phase'[s] # "sharing"
    BY <2>1 DEF SerialInv, OnePending, Pending
  <2>3. CallStands(s)'
    BY <1>1, <1>5, <1>8, <2>1, <2>2 DEF CallStands, RoomForVersion
  <2>4. PageTrue(s)'
    BY <1>6, <2>1 DEF Writing
  <2> QED BY <1>1, <1>3, <1>4, <2>3, <2>4 DEF SerialInv
<1>9. CASE Looks(s) /\ models' = models /\ births' = births
  <2> DEFINE m == models[selected[s]]
  <2>1. /\ phase[s] = "cloning" /\ phase'[s] = "creating" /\ phase[s] \in Pending
        /\ selected'[s] = selected[s] /\ page'[s] = page[s]
        /\ call[s] \in Call /\ call[s].op = "clone"
        /\ call'[s] = [call[s] EXCEPT !.inputs = Current(m).inputs,
                                      !.owner = CloneOwner(m, user[s])]
    BY <1>1, <1>9 DEF Looks, AppTypeInv, CallOK, Pending
  <2>2. /\ call'[s].op = "clone" /\ call'[s].name = call[s].name
        /\ call'[s].inputs = Current(m).inputs /\ call'[s].owner = CloneOwner(m, user[s])
    BY <2>1 DEF Call
  <2>3. CallStands(s)'
    BY <1>1, <1>5, <1>9, <2>1, <2>2 DEF CallStands, Writing, CloneOwner, Current
  <2>4. PageTrue(s)'
    BY <1>6, <2>1
  <2> QED BY <1>1, <1>3, <1>4, <2>3, <2>4 DEF SerialInv
<1> QED BY <1>1, <1>7, <1>8, <1>9, ThreadFacts DEF Draws, storeVars

LEMMA SerialInvNext ==
    ASSUME SerialCallbacks, SerialInv, [AppNext]_appVars
    PROVE  SerialInv'
<1>1. CASE Outside
  <2>1. AppTypeInv' /\ UNCHANGED sessionVars /\ models' = models /\ births' = births
    BY <1>1, OutsideType DEF SerialInv
  <2> QED BY <2>1 DEF SerialInv, sessionVars, OnePending, CallStands, PageTrue, RoomForVersion,
                      Current
<1> QED BY <1>1, UserNextSerial, ThreadNextSerial DEF AppNext, Outside

THEOREM SerialInvariant ==
    ASSUME SerialCallbacks
    PROVE  AppSpec => []SerialInv
<1>1. SerialInv /\ [AppNext]_appVars => SerialInv'
  BY SerialInvNext
<1> QED BY <1>1, SerialInvInit, PTL DEF AppSpec

\* While callbacks do not overlap, the model a guest looks at exists and
\* belongs to nobody.
THEOREM GuestsSeeUnowned ==
    ASSUME SerialCallbacks
    PROVE  AppSpec => []GuestChoiceUnowned
<1>1. SerialInv => GuestChoiceUnowned
  BY DEF SerialInv, PageTrue, GuestChoiceUnowned
<1> QED BY <1>1, SerialInvariant, PTL

\* While callbacks do not overlap, what authorize_mutation allowed is still
\* allowed when it is done.
THEOREM AuthorisationsStand ==
    ASSUME SerialCallbacks
    PROVE  AppSpec => []AuthorisedStands
<1>1. SerialInv => AuthorisedStands
  BY DEF SerialInv, CallStands, AuthorisedStands, AppTypeInv, CallOK, NoCall
<1> QED BY <1>1, SerialInvariant, PTL

\* While callbacks do not overlap, only its signed-in owner changes or removes
\* a model; a legacy model stays.
THEOREM OnlyOwnersMutate ==
    ASSUME SerialCallbacks
    PROVE  AppSpec => OwnerOnlyMutation
<1>1. ASSUME SerialInv, [AppNext]_appVars, NEW id \in DOMAIN models, Changes(id)
      PROVE  \E s \in Sessions : /\ Acted(s)
                                 /\ phase[s] \in Writing
                                 /\ user[s] = models[id].owner
                                 /\ user[s] # NoUser
  <2>1. PICK s \in Sessions : Write(s) /\ Acted(s) /\ phase[s] \in Writing
    BY <1>1, OnlyWritesChange DEF SerialInv, Changes
  <2>2. CanMutate(models[id], user[s])
    BY <1>1, <2>1, SerialChanges
  <2> QED BY <2>1, <2>2 DEF CanMutate
<1>2. SerialInv /\ [AppNext]_appVars
        => [\A id \in DOMAIN models :
               Changes(id)
                  => \E s \in Sessions : /\ Acted(s)
                                         /\ phase[s] \in Writing
                                         /\ user[s] = models[id].owner
                                         /\ user[s] # NoUser]_appVars
  BY <1>1
<1> QED BY <1>2, SerialInvariant, PTL DEF AppSpec, OwnerOnlyMutation

\* A write that does not overlap another is an operation of the store.
LEMMA SerialWriteStore ==
    ASSUME SerialInv, NEW s \in Sessions, Write(s)
    PROVE  StoreNext
<1>1. /\ phase[s] \in Pending /\ phase[s] # "cloning" /\ snapshot[s] = models
      /\ CallStands(s) /\ call[s] \in Call /\ user[s] \in Owners
  BY WriteCases DEF SerialInv, CallStands, Pending, Writing, AppTypeInv, SessionTypeOK
<1>2. CASE WritesUpdate(s)
  <2>1. Update(selected[s], call[s].inputs)
    BY <1>1, <1>2 DEF WritesUpdate, CallStands, Update, UpdateFrom, RoomForVersion
  <2>2. selected[s] \in DOMAIN models /\ call[s].inputs \in Inputs
    BY <1>1, <2>1 DEF Update, Call
  <2> QED BY <2>1, <2>2 DEF StoreNext
<1>3. CASE WritesDelete(s)
  <2>1. Delete(selected[s]) /\ selected[s] \in DOMAIN models
    BY <1>1, <1>3 DEF WritesDelete, Delete, DeleteFrom
  <2> QED BY <2>1 DEF StoreNext
<1>4. ASSUME NEW id \in Candidates(call[s].name), WritesModel(s, id)
      PROVE  StoreNext
  <2>1. Create(call[s].name, id, call[s].inputs, call[s].owner)
    BY <1>1, <1>4 DEF WritesModel, CallStands, Create
  <2>2. CASE call[s].op = "save"
    <3>1. call[s].name \in Names /\ call[s].inputs \in Inputs /\ call[s].owner \in Owners
      BY <1>1, <2>2 DEF CallStands, Call
    <3> QED BY <2>1, <3>1 DEF StoreNext
  <2>3. CASE call[s].op = "clone"
    <3> DEFINE m == models[selected[s]]
    <3>1. /\ selected[s] \in DOMAIN models /\ call[s].name = Append(m.name, Copy)
          /\ call[s].inputs = Current(m).inputs /\ call[s].owner = CloneOwner(m, user[s])
      BY <1>1, <2>3 DEF CallStands
    <3>2. Clone(selected[s], id, user[s])
      BY <2>1, <3>1 DEF Clone
    <3> QED BY <1>1, <1>4, <3>1, <3>2 DEF StoreNext
  <2> QED BY <1>4, <2>2, <2>3 DEF WritesModel
<1> QED BY <1>2, <1>3, <1>4, WriteCases DEF SerialInv

\* While callbacks do not overlap, the panel implements the store, although
\* each call reads the file, up to three times, and then writes it: all that
\* comes in between leaves the document as it was read.
THEOREM AppImplementsStore ==
    ASSUME SerialCallbacks
    PROVE  AppSpec => StoreSpec
<1>1. AppInit => StoreInit
  BY DEF AppInit
<1>2. SerialInv /\ [AppNext]_appVars => [StoreNext]_storeVars
  <2> SUFFICES ASSUME SerialInv, [AppNext]_appVars PROVE [StoreNext]_storeVars
    OBVIOUS
  <2>1. CASE ClockTick
    BY <2>1 DEF ClockTick, StoreNext
  <2>2. CASE Damage \/ Repair \/ UNCHANGED appVars
    BY <2>2 DEF Damage, Repair, appVars, storeVars
  <2>3. ASSUME NEW s \in Sessions, UserNext(s) \/ ThreadNext(s) PROVE [StoreNext]_storeVars
    BY <2>3, UserNextType, ThreadNextType, SerialWriteStore DEF SerialInv
  <2> QED BY <2>1, <2>2, <2>3 DEF AppNext
<1> QED BY <1>1, <1>2, SerialInvariant, PTL DEF AppSpec, StoreSpec

\* So, while callbacks do not overlap, no session writes over a model.
THEOREM PanelOverwritesNothing ==
    ASSUME SerialCallbacks
    PROVE  AppSpec => NothingOverwritten
BY AppImplementsStore, StoreNothingOverwritten

\* The model a call makes is its user's, but for the clone of a guest whose
\* page was not redrawn since the sign-out.
LEMMA SerialWriteStamps ==
    ASSUME SerialInv, NEW s \in Sessions, Write(s), NEW id \in DOMAIN models' \ DOMAIN models
    PROVE  MadeBy(s, id)
<1>1. /\ phase[s] \in Pending /\ phase[s] # "cloning" /\ phase[s] # "sharing"
      /\ snapshot[s] = models /\ CallStands(s) /\ SessionTypeOK
  BY WriteCases DEF SerialInv, CallStands, Pending, Writing, AppTypeInv
<1>2. ~ WritesUpdate(s) /\ ~ WritesDelete(s)
  BY <1>1 DEF WritesUpdate, WritesDelete, UpdateFrom, DeleteFrom, StoreIn
<1>3. PICK new : WritesModel(s, new)
  BY <1>2, WriteCases DEF SerialInv
<1>4. id = new /\ models'[id].owner = call[s].owner
  <2>1. CreateFrom(models, call[s].name, new, call[s].inputs, call[s].owner)
    BY <1>1, <1>3 DEF WritesModel
  <2> QED BY <2>1 DEF CreateFrom, StoreIn, NewModel
<1>5. Answer(s, Done[call[s].op], id)
  BY <1>1, <1>3, <1>4 DEF WritesModel, Ends
<1>6. selected'[s] = id /\ notice'[s] = Done[call[s].op]
  BY <1>1, <1>5, AnswerFacts
<1>7. CASE call[s].op = "save"
  BY <1>1, <1>4, <1>6, <1>7 DEF CallStands, MadeBy, Done
<1>8. CASE call[s].op = "clone"
  <2>1. /\ call[s].owner = CloneOwner(models[selected[s]], user[s])
        /\ user[s] = NoUser =>
              models[selected[s]].owner = NoUser \/ page[s].account # NoUser
    BY <1>1, <1>8 DEF CallStands
  <2> QED BY <1>4, <1>6, <1>8, <2>1 DEF MadeBy, Done, CloneOwner
<1> QED BY <1>3, <1>7, <1>8 DEF WritesModel

\* While callbacks do not overlap, every model is stamped with the user of the
\* session that made it.
THEOREM ModelsAreStamped ==
    ASSUME SerialCallbacks
    PROVE  AppSpec => NewModelsStamped
<1>1. ASSUME SerialInv, [AppNext]_appVars, NEW id \in DOMAIN models' \ DOMAIN models
      PROVE  \E s \in Sessions : MadeBy(s, id)
  <2>1. PICK s \in Sessions : Write(s)
    BY <1>1, OnlyWritesChange DEF SerialInv
  <2> QED BY <1>1, <2>1, SerialWriteStamps
<1>2. SerialInv /\ [AppNext]_appVars
        => [\A id \in DOMAIN models' \ DOMAIN models :
               \E s \in Sessions : MadeBy(s, id)]_appVars
  BY <1>1
<1> QED BY <1>2, SerialInvariant, PTL DEF AppSpec, NewModelsStamped
=============================================================================
