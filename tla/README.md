# Verification of the UK policy simulator

TLA+ models of the parts of the program that keep state, the TLC runs that
check them, and TLAPS proofs of what matters most. All paths below are those of
the repository.

Run everything from this directory:

    tlc -config StoredDocuments.cfg MC_StoredDocuments.tla   # any .cfg with its MC module
    tlapm StoredDocuments_proofs.tla                         # any *_proofs.tla

## 1. The system

One Streamlit process (`app.py`) serves every browser. Each browser session has
its own `st.session_state` and its own thread. A user event (a click, another
option of a selectbox) runs the callback of the widget and then the whole body
of `app.py`, which reads the stores again and redraws the page. What the
sessions share is on disk: three JSON files that the program writes, and three
data files that its curators edit by hand (`baseline.csv`, `scenarios.yaml`,
`weighting_profiles.yaml`).

| Part | Source | State | Operations |
|---|---|---|---|
| Saved-models store | `model/saved_models.py` | `saved_models.json`: id -> model with its list of versions | `create`, `update`, `clone`, `delete`, `get`, `list_models`; the pure rules `filter_visible_models`, `can_mutate` |
| Saved-models panel | `app.py` 374-511, 674-735 | per session: selection, live controls, message | the `_cb_*_model` callbacks; listing, filtering and settling the selection |
| JSON persistence | the `_read` / `_write` of the three stores | the file, `path.tmp` | read and validate all, write all to `path.tmp`, rename |
| Accounts and resets | `model/auth/local_provider.py`, `user_store.py`, `tokens.py` | `users.json`, `reset_tokens.json` | `register`, `authenticate`, `change_password`, `update_profile`, `request_password_reset`, `reset_password` |
| Session helpers, account panel | `model/auth/session.py`, `app.py` 241-372, 526-672 | per session: the principal, the seeded account fields; the `?reset=` link | `login`, `logout`, the account callbacks |
| Auth provider protocols | `model/auth/provider.py` | none | what any backend of accounts with passwords promises: the methods above |
| Mailers | `model/auth/email.py` | none | hand a reset mail over, or raise |
| Password hashing | `model/auth/password.py` | none | hash, verify |
| Fiscal engine | `model/fiscal_model.py` | none (pure) | `compute_fiscal`, `load_baseline` |
| Scoring | `model/scoring.py` | none (pure) | category scores, `build_scorecard`, the profile loader |
| Data files | `model/scenarios.py`, the loaders of `fiscal_model.py` and `scoring.py` | the three files, edited by hand | `load_baseline`, `load_scenarios`, `load_weighting_profiles` in every run of the script |
| Scenario controls | `app.py` 80-185, 379-434, 514-531, 597-672, 737-767 | per session: preset, sliders, profile; the data the last run loaded | move a slider, choose a preset or a profile, reset, save a model, load one; every event computes the page anew |
| Charts, tables, export | `app.py` from 769 | none | rendering |

How the parts interact. The panels call the provider and the store directly, in
the thread of their session. The store knows nothing of users: `owner_user_id`
is an argument, and the panel applies `can_mutate` before it calls `update` or
`delete`. The provider calls two stores and a mailer one after the other; there
is no transaction over them. All three stores declare that concurrent writers
are out of scope (`model/saved_models.py` 345-350).

What is hard about it:

- a callback authorises a model from one read of the file and changes it after
  another; a page shows a selection that other sessions may have deleted, and
  ids of deleted models are given out again;
- a write that fails or a process that dies between two file accesses, within
  one store (`path.tmp`) and across two (password, then tokens);
- the threads of two sessions inside the same store;
- ids, version numbers, timestamps of whole seconds and stable sorts, whose
  agreement rests on long sequences of legal calls;
- a link that must work once, for one hour, for one account;
- a file that a hand or an older build has written, read whole and written
  whole by every mutation; values that are stored unchecked and checked when
  read;
- data files that change under an open page, whose callbacks still see the data
  of the run before; rates that go from a float to a rounded percentage on a
  slider and back;
- a projection and scores with corners: a lag at or past the horizon, a ramp
  whose slope the horizon sets, clamps at both ends, weights of nought.

## 2. What makes each part correct

- **Store.** Nothing stored is overwritten, history grows only at its end and
  agrees with the dates of the model, the order of the list is an order; what
  the store writes it refuses only when it holds a value that is stored
  unchecked and is not what `_read` wants, and a damaged file loses nothing.
- **Panel.** Only the signed-in owner changes a model, legacy models never
  change, new models belong to whoever made them, every click is answered.
- **Persistence.** The file is never torn, what was reported done is there
  after any crash, calls look atomic to their callers, and a query of another
  session gets one whole document whenever it comes.
- **Accounts.** The methods of the provider are atomic to the application,
  whatever files and mails they are made of. Emails are unique; only the latest
  link of an account is live;
  a link is accepted only in its time; a password changes only for its owner;
  a session never shows another user's fields.
- **Controls.** The page is computed from inputs the engine accepts, whatever
  the data files hold; "unmodified" means what the preset's file says, to the
  last digit a slider can show, a reset brings it back, and a model loaded is
  the very model saved.
- **Engine and scores.** The figures follow what the user moves in the published
  direction, in every corner; the overall score is an average.

## 3. Modules

| Module | Models | Abstracts |
|---|---|---|
| `SavedModels` | the store as its callers see it: one atomic step per operation; and what each operation makes of a document it has read, whichever that is | slugs are sequences of words, so that the slug of "plan-2" and the second id of "plan" collide as in the code; the levers and assumptions of a version are one value |
| `StoredDocuments` | EXTENDS `SavedModels`; the records of the file: what `_read` accepts and decodes, what each mutation and `_write` make of them, damage and repair by hand | a value that is not what it should be is `Junk`, or `Unchecked` or `Blanks` if the store keeps it all the same; the note of a version is part of its inputs |
| `PolicyApp` | EXTENDS `SavedModels`; the sessions and the page of each; of a callback that changes the store, one action per read and per write of the file; `Body` for the script body | wording; the account details (only who is signed in); a file that cannot be read is one that is not `readable` |
| `AtomicDocument` | abstract specification: a document changed by whole calls and looked at whole | what a document is: the set of the calls it holds |
| `JsonFile` | `_read` and `_write` step by step, on inodes and directory entries, for mutating calls and for queries | the JSON text; validation (a file that does not parse makes the call raise) |
| `PasswordAuthProvider` | abstract specification: the protocol of that name in `provider.py`, one step per method that changes something | sessions, mail, the hour of a link; what a method that fails half way leaves is one step, `Failure` |
| `LocalAuth` | the provider on its two stores: one step per read of a file, per write and per mail, the panel's sessions and the reset link | display names; hashing (a hash verifies the password it was made of); raw tokens (the n-th link) |
| `Totals` | Python's `sum` over the keys of a mapping | |
| `FiscalModel` | EXTENDS `Totals`; `compute_fiscal`, year by year; what `Baseline` and `FeedbackAssumptions` accept | floats: rates and growth in parts of `Unit`, money in parts of `Parts(a)`, GDP in parts of `GdpParts(a)`, all exact; only the deficit's share of GDP is cut, to tenths of a percent |
| `Scoring` | EXTENDS `FiscalModel`; the category scores and the overall score | a score in hundredths of a point; rationale texts |
| `DataFiles` | EXTENDS `Scoring`; the three loaders and the order in which the script gives up | names and summaries; a value of the wrong kind is `Junk` |
| `Sandbox` | EXTENDS `DataFiles`; the scenario controls of one session, the data files under it, and what the page shows | a float is a number of grains, `Grain` to a part, and `v / 100` is off by `FloatError[v]` of them; a slider holds any value between its ends, and the mark compares levers to a `Tolerance` |
| `MC_*` | small instances, symmetry sets | |
| `*_proofs` | the theorems of a module | |

Definitions after a comment "Wrong:" are plausible mistakes, each
placed before the definition it would replace; each makes a property of section
4 fail. Nothing else refers to them.

### State and code, module by module

**SavedModels.** `models` is the document. `birth` is the place of a model in
the Python dict: `update` stores under an existing key and keeps it, a
re-created id goes to the end, and `list_models`, a stable sort by `updated_at`,
falls back on it. `clock` is in the whole seconds `_timestamp` keeps. An
operation that raises leaves the file alone and is a step that is not enabled.
`IsUniqueId` is `_unique_id`: the slug, else the least free suffix from 2.

**PolicyApp.** `phase` is where the script run of a session is. `idle`: the page
waits; `running`: the callback has ended, the body has not. In between, a
callback that works on the store has a phase for each place where it has read
the file and goes on to read or write it again, and any other session may come
between:

| `phase` | done | next |
|---|---|---|
| `updating`, `deleting` | `get` and `authorize_mutation` (`Authorise`) | the `_read` of `update` or `delete` (`ReadToMutate`) |
| `cloning` | the `get` of the callback (`CloneSelected`) | the `get` of `clone` (`ReadSource`) |
| `creating` | that, or nothing yet (`SaveNew`) | the `_read` of `create` (`ReadToCreate`) |
| `writing`, `sharing` | the `_read` of the mutation; `snapshot` is what it gave | `_write` of what the mutation makes of `snapshot` (`Write`) |

`sharing` is `writing` while another session is at the same point: the two share
`path.tmp`, so that the rename of either may install half a document (`Tear`) or
find nothing to rename. An `OSError` of `_write` (`WriteRaises`) is not caught by
the callbacks: there is no answer, and the page shows the exception (`Raise`). A
`ModelStoreError` is caught and answered (`Answer`, "failed"). `readable` is
false while the file does not validate, after damage by hand or a torn write:
every call on the store raises then, and `Body` shows the error and stops.
`page` is what the browser shows; a callback acts on what the user saw,
`page[s].choice`, and on what the session holds by now, `user[s]`. `Body` drops
a selection that is not visible and lets the selectbox take its first option.
`call[s].target` is the birth of the model a pending callback has authorised
(`target = store.get(mid)` in the code): two models that had the same id, one
after the other, differ in it. Three constants choose the environment:

- `SerialCallbacks`: callbacks of two sessions do not overlap, which is the use
  the store is declared for;
- `FastReruns`: Streamlit's setting, on by default: an event may interrupt the
  redraw for the previous one;
- `Hands`: a hand may damage the file at any moment.

**JsonFile.** `path` and `tmp` are directory entries, `content` the files they
point to, `fd` what a thread has open. `OpenTmp` truncates, `WriteText` writes
from the start of the file (over another thread's text, a longer one leaves its
end behind: a torn file), `Rename` renames whatever `path.tmp` is by then.
`WriteFails` and `Crash` leave part of the text. `Refuse` is a call that finds
nothing to change. A query (`list_models`, `get`, the look-ups of the other
stores) is a `_read` alone, in three steps any thread may come between: `Ask`
tests that the file is there, `OpenFile` opens it, `ReadText` reads what was
opened, whatever `path` names by then; the body of `app.py` makes one in every
run of every session. `known` is what had been reported when the query began,
`answer` what it gave.

`AtomicDocument` is implemented with `doc` as what `path` names, and with `Seen`:
a mutating call takes effect at its `Rename`, a query at its `OpenFile`.

**LocalAuth.** `call[b]` is the provider call of browser `b`: what it has read
and what it will do next. The clicks (`Register`, ..., `ResetPassword`) do the
checks before the first write; `AddUser`, `StoreProfile`, `StorePassword` are
the writes of one-file calls; `InvalidateOlder`, `IssueToken`, `Deliver` are
`request_password_reset`; `ReadOwner`, `RenewPassword`, `BurnTokens` are
`reset_password`; `TakeBack` removes the token of an unknown email, or of an
account that has gone. A call of a store is two steps: `ReadStore` puts the file
it reads into `copy[b]`, and the step named above checks that copy (`MayAdd`,
`MayUpdate`) and writes it back changed (`Proceed`). `CallFails` is an exception
that is not an `AuthError`; `Crash` ends the process and its sessions;
`EditUsersFile` is an administrator's edit, the only way an account goes: at any
time, but between calls where calls do not overlap (`Serial`). Time is in half
seconds: tokens keep whole seconds and the clock is finer, so an expiry can be
cut below the hour and never above.

**PasswordAuthProvider** is what the application may count on from any backend,
and `LocalAuth` implements it (`ImplementsProvider`) while calls do not overlap:

| `PasswordAuthProvider` | in `LocalAuth` |
|---|---|
| `accounts` | `users` |
| `valid`, the links that would set a password | the tokens of accounts that exist, but for one whose reset has stored its password (`Burning`); and the link a running request is about to write |
| `spent` | the tokens of the account that is `Burning` |
| `failures` | `faults` |
| `offers`, present passwords given by callers who want to change them | the `password` calls under way |
| `Register`, `UpdateProfile` | `AddUser`, `StoreProfile`, when the store does not refuse |
| `Offer`, `ChangePassword` | `ChangePassword`, and `StorePassword`: done only if the account still has the password that was given |
| `RequestReset` | `InvalidateOlder`; `IssueToken` and `Deliver` are stutters |
| `ResetPassword`, `Forget` | `RenewPassword`; `BurnTokens` |
| `Failure` | `CallFails`, `Crash` |
| `SwitchOff`, `Remove` | `EditUsersFile` |

A request of an unknown email maps to stutters all the way. `Failure` says
exactly how much of a method a failure can leave: a request may have taken the
older links away without a new one, and a reset that has stored its password may
have left its links good (`valid \cup spent`, the case of `LocalAuth_replay`);
no account is left half changed.

**FiscalModel, Scoring.** Pure operators, one per function or term of the code.
`LagFactor` over `RampLength` is `lag_factor`; a row keeps the numerator and
`Parts` the denominator, so that two rows are compared without dividing. Growth
compounds exactly (`Compound`), negative growth too, so GDP never reaches
nought.

**StoredDocuments.** `file` is what the store keeps: nothing, no JSON, or a
schema version and a list of records. Every mutation reads the whole file
(`Readable`: all of it validates or the call raises, and is no step), changes the
list of records, and writes all of it (`Write`, which gives a record without an
owner key the key). `models` has no life of its own here: in every state it is
`ModelsIn(Contents)`, the dict that `_read` makes of the undamaged file, and that
it changes as `SavedModels` says is the refinement `ImplementsStore`. Levers are
validated before they are stored; assumptions, a note and an owner are not.
`CreateRecord` and `UpdateRecord` therefore refuse `Junk`, the levers no caller
gets past, and store `Unchecked` inputs and `Blanks` owners as they are given,
which `Readable` then refuses. `Damage` makes one thing of an accepted file wrong
that `_read` looks at, `Repair` puts back what was there (`backup`),
`DropOwnerKey` makes a record one of a build without owners.

**DataFiles.** Each loader is an operator from a document to what it returns, or
`Refused`. `Listed` is the shape the two YAML files share, `IsScenario` and
`Weights` are the checks of an entry. `FirstRefused` is the order of the
`try` blocks at the head of the script.

**Sandbox.** `preset`, `levers`, `assumptions`, `profile` are the session-state
keys of the widgets; `shown` is what the script body computes from them, or the
file it stopped at. Each event changes its controls and runs the body: it is one
step, because no event of another session touches these keys. `files` is what
the data files hold, `loaded` what the last complete run has read of them:
Streamlit runs the script in a fresh module each time and a callback is a
function of the run that drew the page, so `ApplySelectedScenario` uses
`loaded` and the `Body` after it reads `files`. A page that stopped has no
widgets left; what its user can do is to reload, which is a new session.
`CurrentInputs` and `InputsToState` are the two conversions between a rate and
its percentage. `IsCustom` is the mark: levers are compared to the tolerance of
the code, 1e-9; the percentages, which both are whole numbers of parts (a part is
0.0001 percent), are equal or differ by more than that.

## 4. Runs

| Run | Shows |
|---|---|
| `StoredDocuments` | any sequence of operations by any caller, on a file that hands damage and repair: callers see `SavedModels` (`ImplementsStore`: what the file decodes to changes by one of its operations), histories are gapless, ordered and never overwritten (`HistoryWellFormed`, `NothingOverwritten`), a new model finds an id (`IdAlwaysFree`), the store refuses a file it wrote only for what it had stored unchecked, and then does (`WrittenIsRead`), and no damaged file passes for data (`FileHasModels`) |
| `PolicyApp_serial` | two users in two sessions, clicks during a redraw, failed writes and a ticking clock included: reading the file, changing what was read and writing it back is one operation of the store (`StoreSpec`); `OwnerOnlyMutation`, `NewModelsStamped`, and a fact they rest on, `GuestChoiceUnowned` |
| `PolicyApp_threads` | callbacks interleave between any two of their reads and writes, and hands damage and repair the file: a model is changed by others than its owner only in the place of one that was authorised, or by a writer who had not read it as it was (`OwnerReplacedOrUnseen`); every click settles (`EveryClickSettles`) |
| `PolicyApp_reused_id` | violation of `NeverSelectsAnothers` (`docs/identity.md` 162): a selected id, deleted by the user's other session, is taken by somebody else's model |
| `PolicyApp_fast` | violation of `GuestCloneUnowned` (`docs/identity.md` 122-123): a click before the redraw after signing out clones an owned model as a guest |
| `JsonFile_serial` | one mutating call at a time, queries, crashes and failed writes anywhere: `NeverTorn`, `ReportedIsStored`, `AnswersAreWhole` of the queries, and the refinement `FileImplementsDocument` |
| `JsonFile_overlap` | threads that overlap, and a left over `path.tmp`: every call and query ends (`CallsEnd`), if only with an exception |
| `LocalAuth_serial` | one provider call at a time, one failed write or crash anywhere: `LatestLinkOnly`, `NoStrangersToken`, `UsedOnceUnlessFaulty`, `FormIsSignedInUsers`, `PasswordChangedByOwner`, `EmailChangedByOwner`, and the refinement `ImplementsProvider` |
| `LocalAuth_overlap` | calls of two browsers interleave, between the read and the write of a store too: `EmailsUnique`; a link is accepted only in its time and for its account (`AcceptedInTime`) |
| `LocalAuth_replay` | violation of `LinkUsedOnce` (`docs/identity.md` 218-219): when deleting the tokens fails after the new password is stored, the link works again |
| `Sandbox` | sliders, presets, resets, profiles, saves and loads in any order, the data files edited in between, well or badly: what the page is computed from (`PossibleInputs`), its mark, reset and load (`MarkTellsPreset`, `ResetReturnsToPreset`, `LoadRestores`), the ramp (`FullEffectWhenReached`, `SoonerIsNeverLess`), the direction of the figures (`RevenueNeverHurts`, `ScoresFollowLevers`), the average (`OverallBetween`), the neutral point (`NothingMovedNeutral`) |
| `Sandbox_long_lag` | violation of `FullEffectAtTheEnd` (`docs/engine.md` 111): with a lag slider at or past the horizon slider nothing is reached in the final year |

The violations are what the code does in situations its documents speak about;
each is listed under "findings" with both lines.

### Overlapping writers

The stores are declared not to support them ("concurrent writers are out of
scope", `model/saved_models.py` 345-350), and they do not: every mutation reads
the file, changes what it has read and writes it all back. With
`SerialCallbacks = FALSE` an update or a whole model that another session stored
in between is lost, a model another session deleted comes back, two creations
take one id, and the file can be torn; `StoreSpec`, `OwnerOnlyMutation`,
`NewModelsStamped` and `NothingOverwritten` all fail. With `Serial = FALSE`,
`NeverTorn` fails in `JsonFile`; in `LocalAuth` two requests leave two live
links, a token another call has deleted is written back, that of an unknown
email among them, and one account's change undoes another's. No run and no
theorem claims otherwise. What does hold with overlap is stated and checked (or
proved) without these constants:

- `OwnerReplacedOrUnseen`: there are two ways, and no third, in which a model is
  changed by anybody but its owner. The model authorised has gone and a younger
  one has its id; or the writer had read the file before the model came to be as
  it is;
- `HistoryWellFormed`: whatever old document is written back, each history in it
  is gapless and agrees with its dates;
- `EveryClickSettles`, `CallsEnd`: every click and every call ends, if only with
  an exception;
- `EmailsUnique`: a store writes back the copy in which it has looked the email
  up, so a stale copy loses accounts and never doubles an email;
- `AcceptedInTime`, `FormIsSignedInUsers`: neither rests on what others write.

Queries are no writers: they overlap with everything in `JsonFile_serial`, since
every run of the script of every session makes one.

### Bounds

| Constants | Values | Why enough |
|---|---|---|
| `MaxBirths`, `Names` | 3, "plan" and "plan-2", for the store; 2, "plan", for the panel | three births are needed for: a model, one that takes the colliding suffixed id, and a re-creation after a deletion; two for a selected model and another that takes its id |
| `MaxVersions`, `MaxClock` | 2; 0-1 | a history that grows, in the same second and in the next |
| `Hands` | no in `PolicyApp_serial`, yes in the other three | the serial run spends its states on the clock, and the theorems about the serial panel hold with hands too |
| `Users`, `Sessions` | 2, 2 (1, 2 in `PolicyApp_threads`) | an owner and another, or an owner and a guest; one session that acts while another's page is old |
| `Threads`, `Readers`, `Inodes` | 2, 1, 4 | each thread one open file, `path` and `path.tmp`; one query at any step of a call, with one or two renames between its own steps (readers do not affect each other or the threads) |
| `MaxCalls`, `MaxCrashes` | 3-4; 1-2 | a call after a crash after a call, and a crash of the recovery |
| `Browsers`, `Emails`, `Passwords` | 2, 2, 2 (2, 1, 1 in `LocalAuth_overlap`) | an account holder and somebody else; an old and a new password; with overlap, two browsers that register one email (moving to an email that is being taken is left to the theorem `AccountsEmailsUnique`) |
| `MaxUsers`, `MaxLinks` | 2, 2 | two accounts; an older and a newer link |
| `Ttl`, `MaxNow` | 1 s; 0-2 half seconds | a link before, at and after its end, minted on and between whole seconds |
| `MaxFaults` | 0-1 | one failure anywhere; the proofs allow any number |
| `Inputs`, `Unchecked`, `Blanks` | 1-2; 1; 1 | nothing in the store compares the inputs of two versions; `Junk` are levers that are not accepted, `floatYears` assumptions and `blank` an owner that are stored and then refused |
| levers | one revenue, one investment, with their coefficients | both kinds; values that clamp a score at each end (the sustainability score of the edited baseline is clamped at nought); a cut and a rise that cancel |
| `years`, `lag_years` | 5-6; 0, 3, 6 | no lag, a lag short of, at and past the horizon; two slopes |
| rates, growth, `Unit` | 0, 1/2, 1; 0, 1 (1/2 and between from a preset); 2 | no effect, part of it, all of it |
| `Grain`, `FloatError`, `Tolerance` | 4; -1, 0; 1 | a percentage whose float is below its hundredth (0.7 / 100) and one that is exact; the proofs allow any error below half a part |
| `Versions` | 5 | the shipped files; all three edited well (a blank row, a metric given twice, presets in another order, one of them with a lever, a growth and a rate that no slider gives back); a figure out of range; an id given twice; a profile that weighs nothing |
| `Savable` | 1 | a model saved from controls that are no preset's |
| profiles | 2 | equal weights, and weights of nought whose sum is not the number of categories |

Bounds are guards of the actions that would exceed them. `CHECK_DEADLOCK FALSE`
stands in the configurations of `JsonFile` and `LocalAuth`, where the users have
nothing left to do at the bounds, and of `StoredDocuments`, where a store that
has written what it refuses to read really stops; the other runs check for
deadlock.

### Fairness

Liveness is asked only of threads that are already running. `AppFairness`: the
thread of a session whose callback has begun runs on to the redraw; Streamlit
runs it to the end of the script. `LiveFileSpec`: a call or a query
that has begun takes its next step. No fairness is assumed of users, the clock, crashes or failures.

## 5. Proofs

All proofs are checked by TLAPS for every value of the constants that satisfies
the modules' assumptions (`SavedModelsAssumption`, ...: sets of names and users,
`NoUser` is no user, bounds are naturals).

| Theorem | States | Needs |
|---|---|---|
| `StoreTypeCorrect`, `StoreHistory`, `StoreOrder`, `StoreNothingOverwritten` | `StoreTypeOK`, `HistoryWellFormed`, `BirthsDistinct`, `NothingOverwritten` | |
| `StoreIdAlwaysFree`, `FileIdAlwaysFree` | `IdAlwaysFree`, of the store and of the store with its file | |
| `AppTypeCorrect`, `PanelHistory` | `AppTypeOK`; `HistoryWellFormed` of the panel, whatever overlaps | |
| `AppImplementsStore`, `PanelOverwritesNothing` | `StoreSpec` of the panel: its reads and writes make up operations of the store; so `NothingOverwritten` | `SerialCallbacks` |
| `OthersReplacedOrUnseen` | `OwnerReplacedOrUnseen` | |
| `GuestsSeeUnowned`, `OnlyOwnersMutate`, `ModelsAreStamped` | `GuestChoiceUnowned`, `OwnerOnlyMutation`, `NewModelsStamped` | `SerialCallbacks` |
| `AuthorisationsStand` | `AuthorisedStands`, on which `OwnerOnlyMutation` rests | `SerialCallbacks` |
| `FileTypeCorrect` | `FileTypeOK` | |
| `FileNeverTorn`, `FileKeepsReported`, `AnswersComeWhole`, `FileImplementsAtomicDocument` | `NeverTorn`, `ReportedIsStored`, `AnswersAreWhole`, the refinement, queries included | `Serial` |
| `AuthTypeCorrect`, `AccountsEmailsUnique`, `SettingsAreOwn` | `AuthTypeOK`, `EmailsUnique`, `FormIsSignedInUsers` | |
| `OnlyLatestLinkLive`, `LinksSetOnePassword` | `LatestLinkOnly`, `UsedOnceUnlessFaulty` | `Serial` |
| `LinksAcceptedInTime` | `AcceptedInTime` | |
| `AtomicSteps`, `StrangersLeaveNothing` | the read and the write of a store are one step; `NoStrangersToken` | `Serial` |
| `LocalAuthImplementsProvider` | `ImplementsProvider` | `Serial` |
| `OwnersChangePasswords`, `OwnersChangeEmails` | `PasswordChangedByOwner`, `EmailChangedByOwner` | `Serial` |
| `AlwaysWrittenIsRead`, `AlwaysFileHasModels` | `WrittenIsRead`, `FileHasModels` | |
| `FileStoreImplementsStore`, `FileHistory`, `FileNothingOverwritten` | `ImplementsStore`, and two theorems of `SavedModels` carried over by it | |
| `InputsStayPossible`, `MarkIsTrue`, `ResetShowsPreset`, `LoadedAsSaved` | `PossibleInputs`, `MarkTellsPreset`, `ResetReturnsToPreset`, `LoadRestores` | |
| `FullEffectIsReached`, `SoonerNeverLess`, `RevenueDoesNotHurt` | `FullEffectWhenReached`, `SoonerIsNeverLess`, `RevenueNeverHurts` | |
| `ScoresFollow`, `OverallIsBetween`, `NothingMovedIsNeutral` | `ScoresFollowLevers`, `OverallBetween`, `NothingMovedNeutral` | |
| `FeedbackRises`, `FeedbackAtTheEnd`, `SoonerFeedback`, `MoreRevenueLessDeficit`, `AverageBetween` | the facts about the engine and the average that these rest on, for any horizon, lag, rates, levers and number of categories | |

The theorems about `Sandbox` are for data files of any content, as far as
`SandboxAssumption` goes: that every version that loads has the same ids and
puts its presets between the ends of the sliders, on their steps or off them,
and that the float of a percentage is off by less than half a part.

The inductive invariants:

- `StoreInv` adds to the three store invariants that every birth is below the
  counter: without it a new model could repeat a birth. A mutation touches one
  id, so each action is proved for that model and for the rest.
- `IdAlwaysFree` is a matter of counting (`SomeSuffixFree`): every stored model
  has a birth of its own below the counter, so fewer than `MaxBirths + 1` ids
  are taken while a model may still be created, and of the slug and its
  suffixes 2 to `MaxBirths + 1` one is free; the least of them is the only one
  the loop of `_unique_id` can end with. The bound in `Candidates` therefore
  cuts no behaviour off.
- `AppTypeInv` says of the panel that the models, and those of every snapshot a
  call has read, satisfy `StoreInv`, whatever overlaps: so whatever is written
  back has well formed histories.
- `SerialInv` (of the panel) adds that at most one session is between the start
  of its callback and the write (`OnePending`), and what that call has read is
  what is stored (`CallStands`): an authorisation still stands, and the snapshot
  written back is the document. No page that waits shows an owned model to a
  guest (`PageTrue`): an owned model is not visible to guests, and only owned
  models are deleted. None of it needs the redraw to be finished, so fast reruns
  change nothing but the owner of a guest's clone, which `NewModelsStamped` leaves
  open (`PolicyApp_fast`).
- `GrantInv` needs no `SerialCallbacks`: births only grow, so a model has one
  owner wherever it is found, in the document or in what some call has read
  (`OneOwner`), and the one that a pending callback has authorised is its user's
  (`GrantsHold`). What it changes under that id is therefore the user's or
  another model.
- `CallsStayReady`: `ReadyInv` says that what a provider call has read is still
  so when it writes - the account but for the one field it changes, an account
  that asked for a link and is active, a token of the account whose password is
  being reset. It is what turns a write of a whole record into a change of one
  field of `PasswordAuthProvider`. Each step of `LocalAuth` then has a lemma of
  its own (`AddUserRegisters`, ..., `CallDies`), over two descriptions of the
  links before and after it (`LinkMembers`, `LinkMembersNext`).
- `FileInv` ties the program counter to the file system: the one call under way
  has open what `path.tmp` names, never what `path` names, and holds a snapshot
  equal to what is stored (`CallOnTrack`); `path` is missing or complete
  (`FileComplete`); what was reported is stored (`Accounted`); the numbers in
  the file are those of calls made (`CallsNumbered`). `Rename` maps to `Commit`,
  `Return` to `Report`, and `OpenFile` to `Look`. `QueryOnTrack` says that a
  file a query has open is complete, holds what had been reported when the query
  began, and is never written to again: `OpenTmp` truncates `path.tmp` or a file
  nobody has open, and `path` was `path.tmp` no longer when the query opened it.
- `EmailsInv` adds to `EmailsUnique` that the copies calls have read have unique
  emails too: the store looks the email up in the very copy it writes back, which
  is why overlap does not break it.
- `AtomicSteps`: `SerialInv` (of the accounts) says that one call is under way
  and that what it has read is what its file holds (`CopyCurrent`), so that
  `ReadStore` followed by `Proceed` is a stutter and one step on the file. The
  theorems that need `Serial` are proved of these steps.
- `SettingsInv` adds that fields are set exactly while somebody is signed in,
  and that a call which will sign in or save a profile finds its session as it
  left it.
- `LinksInv` adds that one call is under way, that every token belongs to the
  account of its link, and that a request about to write a token has removed the
  older ones (`NoneBeforeIssue`). A failure or crash between the two steps
  leaves no live link, never two.

- `PathInv` follows a link from the mail to the address bar to the call, and
  `SavesInv` a form or an old password from the session to the record that is
  written back: without overlap nothing the call has read is out of date when
  it writes.
- `StoredInv` says that the records of the undamaged document have ids of their
  own, are in the order of births, and decode to models that satisfy `StoreInv`
  (`Lists`), so that only `Refused` can make it unreadable: a version is numbered
  from 1 and its inputs are some. One lemma each for a record appended, replaced
  and removed; every mutation is one of the three, and each decodes to one
  operation of `SavedModels`.
- `SandboxInv` says that what was loaded came from a version of the files whole,
  that controls lie between the ends of their sliders, that a saved model is what some setting of
  the sliders gives, and that a drawn page is `Render` of the present controls.
  The properties then compare `Render` before and after a step; `Rounded`
  undoes `ToFloat` because the error is below half a part, and `ToFloat` of a
  `Rounded` float is less than a part from it.

`Totals` defines a sum as a recursive function, whose value at the end of the
keys is reached by induction on naturals that `Totals_proofs` does by a least
counterexample: sums are integers, are monotone and agree when their terms do.
`FiscalModel_proofs` compares two ramps by cross-multiplying (`SoonerRamp`): the
difference is (a.lag - b.lag) * (b.years - year), plus what the longer horizon
adds.

Only model-checked: liveness (`EveryClickSettles`, `CallsEnd`), which is out of
the prover's reach, and of course the violations. All other properties of the
passing runs are proved.

## 6. Not modelled

- Rounding of floats inside the engine and the scores; that of the percentages
  on the sliders is modelled.
- What Streamlit does with a value that is none of a widget's: a preset or a
  saved model beyond a slider's range, and a preset or profile that has gone
  from its file while it is selected. The program leaves both to Streamlit, and
  `SandboxAssumption` rules them out.
- Validation of `users.json` and `reset_tokens.json`: a document that does not
  validate makes every call raise, as in `StoredDocuments`. An
  overlapping write that fails because another has renamed the temporary file
  away is in `PolicyApp` and `JsonFile`, not in `LocalAuth`.
- Mail wording, SMTP, Argon2, charts, tables, CSV: I/O and rendering.
- A second process on the same files, and a power failure that loses what
  `write_text` had not flushed: the stores use neither locks nor `fsync`, and
  claim neither.

## 7. Plan

Done first, because what is lost there is the user's: `SavedModels`,
`PolicyApp`, `JsonFile`, `LocalAuth`, with their proofs. Then the figures and
the controls they are drawn from: `FiscalModel`, `Scoring`, `DataFiles`,
`Sandbox`; then the file of the saved models, `StoredDocuments`; then what the
parts promise each other: queries under way while a document is written
(`AtomicDocument`), and the provider as its callers see it
(`PasswordAuthProvider`). Next, in this order:

1. The validation of `users.json` and `reset_tokens.json` around `LocalAuth`, as
   `StoredDocuments` does it for the models.
2. `JsonFile` under `StoredDocuments`: a crash in `_write` between two
   mutations of records, instead of atomic documents.
3. What of `PasswordAuthProvider` survives overlapping calls, in the manner of
   `OwnerReplacedOrUnseen`: a field of an account is only ever what its owner
   made it or what it was when an overlapping call read it.
4. Liveness of a reset: a link that was mailed can be used until it expires,
   under the fairness of a user who opens it.
