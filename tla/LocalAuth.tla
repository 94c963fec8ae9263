------------------------------ MODULE LocalAuth ------------------------------
(***************************************************************************)
(* Accounts and password resets: LocalAuthProvider over JsonUserStore and  *)
(* JsonResetTokenStore (model/auth), called by the account panel of app.py *)
(* and its callbacks, with the principal session.py keeps per session.     *)
(*                                                                         *)
(* A provider method is several calls on two files and a mailer.  Each     *)
(* read and each write of a file is one step (JsonFile looks inside a      *)
(* write), and so is the hand-over of the mail.  A call of a store that    *)
(* changes its file reads it, checks what it has read and writes that back *)
(* changed: what it has read is in copy, and what the method has read or   *)
(* is about to write is in call.  A method that raises AuthError before it *)
(* writes anything leaves a message on the page: a step that is not        *)
(* enabled.  Serial says that the calls of two browsers do not overlap,    *)
(* nor a call and the edit of a file by hand.  A step may fail (a write    *)
(* raises OSError), or the process may crash and be started again, at most *)
(* MaxFaults times.  Overlapping writes that fail because they share a     *)
(* temporary file are JsonFile's.  To its callers the provider implements  *)
(* PasswordAuthProvider.                                                   *)
(*                                                                         *)
(* Time runs in half seconds: the provider's clock is finer than the whole *)
(* seconds its timestamps keep.  Emails are normalised, display names are  *)
(* left out.                                                               *)
(***************************************************************************)
EXTENDS Naturals, Sequences, FiniteSets

CONSTANTS
    Browsers,   \* browsers with the application open
    Emails,     \* normalised email addresses
    Passwords,  \* passwords a user can type
    Stranger,   \* _DUMMY_USER_ID, the user id of no account
    Guest,      \* no principal in the session
    NoCopy,     \* no call of a store has read its file
    Serial,     \* BOOLEAN: calls do not overlap
    Ttl,        \* seconds a reset link is good for
    MaxUsers,   \* bound: accounts being created in one behaviour
    MaxLinks,   \* bound: reset links minted
    MaxNow,     \* bound: half seconds the clock advances
    MaxFaults   \* bound: failed writes and crashes

ASSUME LocalAuthAssumption ==
    /\ Stranger \notin Nat
    /\ Guest \notin [id : Nat, email : Emails]
    /\ Serial \in BOOLEAN
    /\ Ttl \in Nat \ {0}
    /\ MaxUsers \in Nat /\ MaxLinks \in Nat /\ MaxNow \in Nat /\ MaxFaults \in Nat

VARIABLES
    users,      \* users.json: user id -> account
    tokens,     \* reset_tokens.json
    links,      \* the reset links minted so far, the last one last
    now,        \* the clock, in half seconds
    minted,     \* user ids minted so far
    principal,  \* browser -> the AuthSession of its session
    form,       \* browser -> the account-settings fields of its session
    url,        \* browser -> the reset link it has open, or 0
    call,       \* browser -> the provider call under way
    copy,       \* browser -> the file as the call of a store has read it
    faults      \* failed writes and crashes so far

stores == <<users, tokens, links, minted>>
sessions == <<principal, form, url>>
authVars == <<users, tokens, links, now, minted, principal, form, url, call, copy, faults>>

UserIds == 1 .. MaxUsers

Hash(p) == [hashOf |-> p]
Verify(h, p) == h.hashOf = p

Account == [email : Emails, password : {Hash(p) : p \in Passwords}, active : BOOLEAN]

\* link stands for the hash of a raw token: the n-th one minted.
Token == [link : Nat \ {0}, user : UserIds \cup {Stranger}, expires : Nat]

\* What a link was minted for and when; whether it was mailed, and how many
\* passwords it has set.
Link == [user : UserIds \cup {Stranger}, at : Nat, mailed : BOOLEAN, uses : Nat]

Principal == [id : UserIds, email : Emails]
\* Wrong: the password hash goes into the session.
AuthSessionWithHash(id, account) ==
    [id |-> id, email |-> account.email, password |-> account.password]

AuthSession(id, account) == [id |-> id, email |-> account.email]

\* The fields, and the user they were seeded for; by nobody when unset.
Form == [email : Emails, for : UserIds]
Unset == [for |-> Stranger]
Seed(p) == [email |-> p.email, for |-> p.id]

\* No call is under way.
Idle == [op |-> "idle"]
AtRest(b) == call[b] = Idle

-----------------------------------------------------------------------------
(* The stores.                                                             *)

EmailTaken(us, email, id) == \E u \in DOMAIN us \ {id} : us[u].email = email

Put(us, id, account) ==
    users' = [u \in DOMAIN us \cup {id} |-> IF u = id THEN account ELSE us[u]]

\* Wrong: the email was looked up when the form was sent.
MayAddUnseen(us, id, account) == id \notin DOMAIN us

\* JsonUserStore.add and JsonUserStore.update, when they do not raise.
MayAdd(us, id, account) == id \notin DOMAIN us /\ ~EmailTaken(us, account.email, id)
MayUpdate(us, id, account) == id \in DOMAIN us /\ ~EmailTaken(us, account.email, id)

\* invalidate_for_user, which does not write when there is nothing to remove.
InvalidateFor(ts, id) ==
    LET remaining == {t \in ts : t.user # id}
    IN  tokens' = IF remaining = ts THEN tokens ELSE remaining

WholeSeconds(t) == 2 * (t \div 2)

-----------------------------------------------------------------------------
(* Clicks on the account panel.                                            *)

\* A callback starts in browser b.
Click(b) ==
    /\ AtRest(b)
    /\ Serial => \A c \in Browsers : AtRest(c)

\* The reset form of an open link takes the place of the rest of the panel.
OnPanel(b) == Click(b) /\ url[b] = 0
SignedIn(b) == OnPanel(b) /\ principal[b] # Guest
SignedOut(b) == OnPanel(b) /\ principal[b] = Guest

\* The method goes on to c, with nothing read yet.
Begin(b, c) ==
    /\ call' = [call EXCEPT ![b] = c]
    /\ copy' = [copy EXCEPT ![b] = NoCopy]

End(b) == Begin(b, Idle)

\* login(); the panel then seeds the fields that are not set.
SignIn(b, p) ==
    /\ principal' = [principal EXCEPT ![b] = p]
    /\ form' = [form EXCEPT ![b] = IF @ = Unset THEN Seed(p) ELSE @]
    /\ UNCHANGED url

Register(b, email, p) ==
    /\ SignedOut(b)
    /\ minted < MaxUsers
    /\ ~EmailTaken(users, email, Stranger)
    /\ minted' = minted + 1
    /\ Begin(b, [op |-> "add", id |-> minted + 1,
                 account |-> [email |-> email, password |-> Hash(p), active |-> TRUE]])
    /\ UNCHANGED <<users, tokens, links, now, sessions, faults>>

Login(b, email, p) ==
    /\ SignedOut(b)
    /\ \E id \in DOMAIN users :
          /\ users[id].email = email
          /\ Verify(users[id].password, p)
          /\ users[id].active
          /\ SignIn(b, AuthSession(id, users[id]))
    /\ End(b)
    /\ UNCHANGED <<stores, now, faults>>

\* Wrong: the account-settings fields stay.
LogoutOnly(b) ==
    /\ SignedIn(b)
    /\ principal' = [principal EXCEPT ![b] = Guest]
    /\ End(b)
    /\ UNCHANGED <<stores, now, form, url, faults>>

Logout(b) ==
    /\ SignedIn(b)
    /\ principal' = [principal EXCEPT ![b] = Guest]
    /\ form' = [form EXCEPT ![b] = Unset]
    /\ End(b)
    /\ UNCHANGED <<stores, now, url, faults>>

\* Save profile, with the email field as seeded or typed over.
UpdateProfile(b, email) ==
    LET id == principal[b].id IN
    /\ SignedIn(b)
    /\ id \in DOMAIN users
    /\ form' = [form EXCEPT ![b].email = email]
    /\ Begin(b, [op |-> "profile", id |-> id,
                 account |-> [users[id] EXCEPT !.email = email]])
    /\ UNCHANGED <<stores, now, principal, url, faults>>

\* Wrong: the email is taken from the session.
ChangePasswordOfSession(b, current, new) ==
    LET id == principal[b].id IN
    /\ SignedIn(b)
    /\ id \in DOMAIN users
    /\ Verify(users[id].password, current)
    /\ Begin(b, [op |-> "password", id |-> id, current |-> current,
                 account |-> [users[id] EXCEPT !.password = Hash(new),
                                               !.email = principal[b].email]])
    /\ UNCHANGED <<stores, now, sessions, faults>>

ChangePassword(b, current, new) ==
    LET id == principal[b].id IN
    /\ SignedIn(b)
    /\ id \in DOMAIN users
    /\ Verify(users[id].password, current)
    /\ Begin(b, [op |-> "password", id |-> id, current |-> current,
                 account |-> [users[id] EXCEPT !.password = Hash(new)]])
    /\ UNCHANGED <<stores, now, sessions, faults>>

\* Wrong: an account that was switched off gets a link, too.
ResetTargetAny(email) ==
    IF \E id \in DOMAIN users : users[id].email = email
    THEN CHOOSE id \in DOMAIN users : users[id].email = email
    ELSE Stranger

\* The account a reset is for: that of the email if it is active.
ResetTarget(email) ==
    IF \E id \in DOMAIN users : users[id].email = email /\ users[id].active
    THEN CHOOSE id \in DOMAIN users : users[id].email = email /\ users[id].active
    ELSE Stranger

\* Bound: no more than MaxLinks links, those being minted included.
RequestReset(b, email) ==
    /\ SignedOut(b)
    /\ Len(links) + Cardinality({c \in Browsers : call[c].op \in {"invalidate", "issue"}})
          < MaxLinks
    /\ Begin(b, [op |-> "invalidate", id |-> ResetTarget(email), at |-> now])
    /\ UNCHANGED <<stores, now, sessions, faults>>

\* Wrong: a link is good at the very second it expires.
ResetPasswordLate(b, new) ==
    /\ Click(b)
    /\ \E t \in tokens :
          /\ t.link = url[b]
          /\ now <= t.expires
          /\ Begin(b, [op |-> "redeem", id |-> t.user, link |-> t.link, new |-> new])
    /\ UNCHANGED <<stores, now, sessions, faults>>

\* Wrong: any token that is good will do.
ResetPasswordAnyToken(b, new) ==
    /\ Click(b)
    /\ url[b] # 0
    /\ \E t \in tokens :
          /\ now < t.expires
          /\ Begin(b, [op |-> "redeem", id |-> t.user, link |-> t.link, new |-> new])
    /\ UNCHANGED <<stores, now, sessions, faults>>

\* Set new password, on the reset form.
ResetPassword(b, new) ==
    /\ Click(b)
    /\ \E t \in tokens :
          /\ t.link = url[b]
          /\ now < t.expires
          /\ Begin(b, [op |-> "redeem", id |-> t.user, link |-> t.link, new |-> new])
    /\ UNCHANGED <<stores, now, sessions, faults>>

-----------------------------------------------------------------------------
(* The rest of a provider call, step by step.  us and ts are what a call   *)
(* of a store has read of its file.                                        *)

UserCalls == {"add", "profile", "password", "renew"}
TokenCalls == {"invalidate", "issue", "retract", "void", "burn"}

\* A call of a store reads its file.
ReadStore(b) ==
    /\ copy[b] = NoCopy
    /\ \/ call[b].op \in UserCalls /\ copy' = [copy EXCEPT ![b] = [users |-> users]]
       \/ call[b].op \in TokenCalls /\ copy' = [copy EXCEPT ![b] = [tokens |-> tokens]]
    /\ UNCHANGED <<stores, now, sessions, call, faults>>

\* register: store.add, and the new user is signed straight in.
AddUser(b, us) ==
    /\ call[b].op = "add"
    /\ IF MayAdd(us, call[b].id, call[b].account)
       THEN /\ Put(us, call[b].id, call[b].account)
            /\ SignIn(b, AuthSession(call[b].id, call[b].account))
       ELSE UNCHANGED <<users, sessions>>
    /\ End(b)
    /\ UNCHANGED <<tokens, links, now, minted, faults>>

\* update_profile: store.update, and the session shows what was saved.
StoreProfile(b, us) ==
    LET p == AuthSession(call[b].id, call[b].account) IN
    /\ call[b].op = "profile"
    /\ IF MayUpdate(us, call[b].id, call[b].account)
       THEN /\ Put(us, call[b].id, call[b].account)
            /\ principal' = [principal EXCEPT ![b] = p]
            /\ form' = [form EXCEPT ![b].email = p.email]
       ELSE UNCHANGED <<users, principal, form>>
    /\ End(b)
    /\ UNCHANGED <<tokens, links, now, minted, url, faults>>

StorePassword(b, us) ==
    /\ call[b].op = "password"
    /\ IF MayUpdate(us, call[b].id, call[b].account)
       THEN Put(us, call[b].id, call[b].account)
       ELSE UNCHANGED users
    /\ End(b)
    /\ UNCHANGED <<tokens, links, now, minted, sessions, faults>>

\* Wrong: the older tokens stay.
InvalidateNone(b, ts) ==
    /\ call[b].op = "invalidate"
    /\ Begin(b, [call[b] EXCEPT !.op = "issue"])
    /\ UNCHANGED <<users, tokens, links, now, minted, sessions, faults>>

\* request_password_reset: the older tokens, the new one, the mail.
InvalidateOlder(b, ts) ==
    /\ call[b].op = "invalidate"
    /\ InvalidateFor(ts, call[b].id)
    /\ Begin(b, [call[b] EXCEPT !.op = "issue"])
    /\ UNCHANGED <<users, links, now, minted, sessions, faults>>

\* For a stranger there is no mail to go out: the token is taken back.
IssueToken(b, ts) ==
    LET k == Len(links) + 1 IN
    /\ call[b].op = "issue"
    /\ links' = Append(links, [user |-> call[b].id, at |-> call[b].at,
                               mailed |-> FALSE, uses |-> 0])
    /\ tokens' = ts \cup {[link |-> k, user |-> call[b].id,
                           expires |-> WholeSeconds(call[b].at + 2 * Ttl)]}
    /\ Begin(b, [op |-> IF call[b].id = Stranger THEN "retract" ELSE "deliver",
                 id |-> call[b].id, link |-> k])
    /\ UNCHANGED <<users, now, minted, sessions, faults>>

\* The mail goes out or the mailer raises.
Deliver(b) ==
    /\ call[b].op = "deliver"
    /\ \/ links' = [links EXCEPT ![call[b].link].mailed = TRUE]
       \/ UNCHANGED links
    /\ End(b)
    /\ UNCHANGED <<users, tokens, now, minted, sessions, faults>>

\* Wrong: the token is left where it is.
TakeNothingBack(b, ts) ==
    /\ call[b].op \in {"retract", "void"}
    /\ End(b)
    /\ UNCHANGED <<users, tokens, links, now, minted, sessions, faults>>

\* The tokens of a stranger, or of an account that is gone, go.
TakeBack(b, ts) ==
    /\ call[b].op \in {"retract", "void"}
    /\ InvalidateFor(ts, call[b].id)
    /\ End(b)
    /\ UNCHANGED <<users, links, now, minted, sessions, faults>>

\* reset_password: the account, its new password, its tokens.
ReadOwner(b) ==
    LET id == call[b].id IN
    /\ call[b].op = "redeem"
    /\ IF id \in DOMAIN users
       THEN Begin(b, [op |-> "renew", id |-> id, link |-> call[b].link,
                      account |-> [users[id] EXCEPT !.password = Hash(call[b].new)]])
       ELSE Begin(b, [op |-> "void", id |-> id, link |-> call[b].link])
    /\ UNCHANGED <<stores, now, sessions, faults>>

RenewPassword(b, us) ==
    /\ call[b].op = "renew"
    /\ IF MayUpdate(us, call[b].id, call[b].account)
       THEN /\ Put(us, call[b].id, call[b].account)
            /\ links' = [links EXCEPT ![call[b].link].uses = @ + 1]
            /\ Begin(b, [op |-> "burn", id |-> call[b].id])
       ELSE End(b) /\ UNCHANGED <<users, links>>
    /\ UNCHANGED <<tokens, now, minted, sessions, faults>>

\* Wrong: only the address bar forgets the link.
BurnLinkOnly(b, ts) ==
    /\ call[b].op = "burn"
    /\ url' = [url EXCEPT ![b] = 0]
    /\ End(b)
    /\ UNCHANGED <<users, tokens, links, now, minted, principal, form, faults>>

\* The tokens go, and the link leaves the address bar.
BurnTokens(b, ts) ==
    /\ call[b].op = "burn"
    /\ InvalidateFor(ts, call[b].id)
    /\ url' = [url EXCEPT ![b] = 0]
    /\ End(b)
    /\ UNCHANGED <<users, links, now, minted, principal, form, faults>>

-----------------------------------------------------------------------------
(* The world around.                                                       *)

\* A page load is a new session, with a mailed link or without.
OpenPage(b, k) ==
    /\ AtRest(b)
    /\ k # 0 => links[k].mailed
    /\ url' = [url EXCEPT ![b] = k]
    /\ principal' = [principal EXCEPT ![b] = Guest]
    /\ form' = [form EXCEPT ![b] = Unset]
    /\ End(b)
    /\ UNCHANGED <<stores, now, faults>>

\* users.json edited by hand, the only way an account is switched off or goes.
EditUsersFile(id) ==
    /\ Serial => \A b \in Browsers : AtRest(b)
    /\ \/ users[id].active /\ users' = [users EXCEPT ![id].active = FALSE]
       \/ users' = [u \in DOMAIN users \ {id} |-> users[u]]
    /\ UNCHANGED <<tokens, links, now, minted, sessions, call, copy, faults>>

\* A step raises what is no AuthError, and the call ends there.
CallFails(b) ==
    /\ ~AtRest(b)
    /\ faults < MaxFaults
    /\ faults' = faults + 1
    /\ End(b)
    /\ UNCHANGED <<stores, now, sessions>>

\* The process dies under its calls; the sessions die with it.
Crash ==
    /\ \E b \in Browsers : ~AtRest(b)
    /\ faults < MaxFaults
    /\ faults' = faults + 1
    /\ call' = [b \in Browsers |-> Idle]
    /\ copy' = [b \in Browsers |-> NoCopy]
    /\ principal' = [b \in Browsers |-> Guest]
    /\ form' = [b \in Browsers |-> Unset]
    /\ UNCHANGED <<stores, now, url>>

Tick ==
    /\ now < MaxNow
    /\ now' = now + 1
    /\ UNCHANGED <<stores, sessions, call, copy, faults>>

-----------------------------------------------------------------------------
AuthInit ==
    /\ users = [u \in {} |-> u]
    /\ tokens = {}
    /\ links = <<>>
    /\ now = 0
    /\ minted = 0
    /\ principal = [b \in Browsers |-> Guest]
    /\ form = [b \in Browsers |-> Unset]
    /\ url = [b \in Browsers |-> 0]
    /\ call = [b \in Browsers |-> Idle]
    /\ copy = [b \in Browsers |-> NoCopy]
    /\ faults = 0

Clicks(b) ==
    \/ \E email \in Emails, p \in Passwords : Register(b, email, p) \/ Login(b, email, p)
    \/ Logout(b)
    \/ \E email \in Emails : UpdateProfile(b, email) \/ RequestReset(b, email)
    \/ \E current, new \in Passwords : ChangePassword(b, current, new)
    \/ \E new \in Passwords : ResetPassword(b, new)

\* A call of a store goes on with what it has read.
UserCall(b, us) ==
    AddUser(b, us) \/ StoreProfile(b, us) \/ StorePassword(b, us) \/ RenewPassword(b, us)

TokenCall(b, ts) ==
    InvalidateOlder(b, ts) \/ IssueToken(b, ts) \/ TakeBack(b, ts) \/ BurnTokens(b, ts)

Proceed(b) ==
    /\ copy[b] # NoCopy
    /\ \/ call[b].op \in UserCalls /\ UserCall(b, copy[b].users)
       \/ call[b].op \in TokenCalls /\ TokenCall(b, copy[b].tokens)

AuthNext ==
    \/ \E b \in Browsers :
          Clicks(b) \/ ReadStore(b) \/ Proceed(b) \/ Deliver(b) \/ ReadOwner(b) \/ CallFails(b)
    \/ \E b \in Browsers, k \in 0 .. Len(links) : OpenPage(b, k)
    \/ \E id \in DOMAIN users : EditUsersFile(id)
    \/ Crash
    \/ Tick

AuthSpec == AuthInit /\ [][AuthNext]_authVars

-----------------------------------------------------------------------------
(* What makes accounts and resets correct.                                 *)

Call ==
    {Idle}
    \cup [op : {"add", "profile"}, id : UserIds, account : Account]
    \cup [op : {"password"}, id : UserIds, current : Passwords, account : Account]
    \cup [op : {"invalidate", "issue"}, id : UserIds \cup {Stranger}, at : Nat]
    \cup [op : {"deliver", "retract", "void"}, id : UserIds \cup {Stranger}, link : Nat \ {0}]
    \cup [op : {"redeem"}, id : UserIds \cup {Stranger}, link : Nat \ {0}, new : Passwords]
    \cup [op : {"renew"}, id : UserIds, link : Nat \ {0}, account : Account]
    \cup [op : {"burn"}, id : UserIds]

UsersOK(us) == DOMAIN us \subseteq UserIds /\ \A id \in DOMAIN us : us[id] \in Account

CopyOK ==
    /\ DOMAIN copy = Browsers
    /\ \A b \in Browsers :
          copy[b] # NoCopy => /\ call[b].op \in UserCalls => UsersOK(copy[b].users)
                              /\ call[b].op \in TokenCalls => copy[b].tokens \subseteq Token

\* The files, the sessions and the calls under way hold what the code keeps
\* in them, and so does what a call of a store has read.
AuthTypeOK ==
    /\ UsersOK(users)
    /\ tokens \subseteq Token
    /\ links \in Seq(Link)
    /\ now \in Nat
    /\ minted \in 0 .. MaxUsers
    /\ principal \in [Browsers -> Principal \cup {Guest}]
    /\ form \in [Browsers -> Form \cup {Unset}]
    /\ url \in [Browsers -> Nat]
    /\ call \in [Browsers -> Call]
    /\ CopyOK
    /\ faults \in 0 .. MaxFaults

\* No two stored accounts share an email, even when two browsers register it
\* or move to it at once, each with a copy of the file that the other's write
\* has overtaken: a file with a duplicate would be refused by every later
\* read, and with it every account.
EmailsUnique ==
    \A u, v \in DOMAIN users : users[u].email = users[v].email => u = v

\* "Requesting a new link invalidates any previous one": a token that can be
\* redeemed is that of the last link minted for its account, after any failed
\* or crashed request.
LatestLinkOnly ==
    \A t \in tokens : \A k \in t.link + 1 .. Len(links) :
       links[k].user # t.user

\* "No junk accumulates": the token written for an unknown email is there
\* only while the request that wrote it runs.
NoStrangersToken ==
    faults = 0 =>
       \A t \in tokens : t.user = Stranger =>
          \E b \in Browsers : call[b].op = "retract" /\ call[b].link = t.link

\* "Single-use ... a link cannot be replayed": no link sets two passwords.
LinkUsedOnce == \A k \in 1 .. Len(links) : links[k].uses <= 1

\* While no step fails in the middle, that is so.
UsedOnceUnlessFaulty == faults = 0 => LinkUsedOnce

\* A link is accepted only by the hour it was minted for, and only for an
\* account that asked for it.
AcceptedInTime ==
    [][\A b \in Browsers :
          AtRest(b) /\ call'[b].op = "redeem"
             => LET l == links[call'[b].link]
                IN  now < l.at + 2 * Ttl /\ l.user = call'[b].id /\ l.mailed]_authVars

\* The password of an account changes only when a session signed in to it
\* asks for that and gives the password it has, or the holder of a link that
\* was mailed for it: no other save writes an old or another account's record
\* over it.
PasswordChangedByOwner ==
    [][\A id \in DOMAIN users \cap DOMAIN users' :
          users'[id].password # users[id].password
             => \E b \in Browsers :
                   \/ /\ call[b].op = "password" /\ principal[b] # Guest
                      /\ principal[b].id = id
                      /\ Verify(users[id].password, call[b].current)
                   \/ call[b].op = "renew" /\ links[call[b].link].user = id
                         /\ links[call[b].link].mailed]_authVars

\* The email of an account changes only to what the account settings of a
\* session signed in to it show: Save profile sends every field as it stands,
\* edited or seeded long ago, and no other save takes an email along.
EmailChangedByOwner ==
    [][\A id \in DOMAIN users \cap DOMAIN users' :
          users'[id].email # users[id].email
             => \E b \in Browsers :
                   /\ call[b].op = "profile"
                   /\ principal[b] # Guest /\ principal[b].id = id
                   /\ form[b].for = id /\ form[b].email = users'[id].email]_authVars

\* The account settings never show the fields of a user who has signed out
\* to the next one, whose save would take them over.
FormIsSignedInUsers ==
    \A b \in Browsers :
       form[b] # Unset => principal[b] # Guest /\ form[b].for = principal[b].id

\* The reset of an account has stored its password and not yet deleted its
\* tokens.
Burning(id) == \E b \in Browsers : call[b].op = "burn" /\ call[b].id = id

LinkOf(t) == [link |-> t.link, user |-> t.user]

\* The links that would set a password, in their hour: those with a token, and
\* the one a request is about to write.
ValidLinks ==
    {LinkOf(t) : t \in {u \in tokens : u.user \in DOMAIN users /\ ~Burning(u.user)}}
    \cup {[link |-> Len(links) + 1, user |-> call[b].id] :
             b \in {c \in Browsers : call[c].op = "issue" /\ call[c].id \in DOMAIN users}}

SpentLinks ==
    {LinkOf(t) : t \in {u \in tokens : u.user \in DOMAIN users /\ Burning(u.user)}}

\* The passwords given as the present ones of an account, for a change.
Offers ==
    {[user |-> call[b].id, current |-> Hash(call[b].current)] :
        b \in {c \in Browsers : call[c].op = "password"}}

\* A method of the provider is one step to the application, whatever reads,
\* writes and mails it is made of and wherever it fails, as long as calls do
\* not overlap: a request takes effect when the older tokens go, a reset when
\* the password is stored, and a failure leaves at most a link that was there.
Provider == INSTANCE PasswordAuthProvider
    WITH Ids <- UserIds, Hashes <- {Hash(p) : p \in Passwords},
         accounts <- users, valid <- ValidLinks, spent <- SpentLinks, offers <- Offers,
         failures <- faults

ImplementsProvider == Provider!ProviderSpec
=============================================================================
