--------------------------- MODULE LocalAuth_proofs ---------------------------
(***************************************************************************)
(* Proofs about LocalAuth, for any browsers, emails, passwords and bounds. *)
(* Whatever calls overlap: the types, unique emails, the account form is   *)
(* the signed-in user's, a link is accepted only in its time and for its   *)
(* account.  While calls do not overlap: only the latest link of an        *)
(* account is live, a stranger's token goes with its request, a link sets  *)
(* one password, passwords and emails change only as their owner asks,     *)
(* and the application sees the methods of PasswordAuthProvider one at a   *)
(* time.                                                                   *)
(***************************************************************************)
EXTENDS LocalAuth, TLAPS
-----------------------------------------------------------------------------
(* Type correctness.                                                       *)

\* A call under way has the fields of its operation.
LEMMA CallFields ==
    ASSUME NEW c \in Call
    PROVE  /\ c.op \in {"add", "profile", "password"}
                 => c.id \in UserIds /\ c.account \in Account
           /\ c.op \in {"invalidate", "issue"}
                 => c = [op |-> c.op, id |-> c.id, at |-> c.at]
                    /\ c.id \in UserIds \cup {Stranger} /\ c.at \in Nat
           /\ c.op = "password" => c.current \in Passwords
           /\ c.op \in {"deliver", "retract", "void"} => c.id \in UserIds \cup {Stranger} /\ c.link \in Nat \ {0}
           /\ c.op = "redeem"
                 => c.id \in UserIds \cup {Stranger} /\ c.link \in Nat \ {0} /\ c.new \in Passwords
           /\ c.op = "renew" => c.id \in UserIds /\ c.link \in Nat \ {0} /\ c.account \in Account
           /\ c.op = "burn" => c.id \in UserIds
BY DEF Call, Idle

\* What a step of a call under way does with what its store call has read.
LEMMA CopyType ==
    ASSUME AuthTypeOK, NEW b \in Browsers, NEW c, Begin(b, c)
    PROVE  CopyOK'
BY DEF AuthTypeOK, CopyOK, Begin

\* What replaces the call of a browser when it is a call.
LEMMA CallType ==
    ASSUME AuthTypeOK, NEW b \in Browsers, NEW c \in Call, Begin(b, c)
    PROVE  call' \in [Browsers -> Call] /\ CopyOK'
BY CopyType DEF AuthTypeOK, Begin

LEMMA RestType ==
    ASSUME AuthTypeOK, NEW b \in Browsers, End(b)
    PROVE  call' \in [Browsers -> Call] /\ CopyOK'
BY CallType DEF End, Idle, Call

LEMMA PutType ==
    ASSUME NEW us, UsersOK(us), NEW id \in UserIds, NEW account \in Account, Put(us, id, account)
    PROVE  UsersOK(users')
BY DEF UsersOK, Put

LEMMA SignInType ==
    ASSUME AuthTypeOK, NEW b \in Browsers, NEW p \in Principal, SignIn(b, p)
    PROVE  /\ principal' \in [Browsers -> Principal \cup {Guest}]
           /\ form' \in [Browsers -> Form \cup {Unset}]
           /\ url' = url
<1>1. Seed(p) \in Form
  BY DEF Seed, Form, Principal
<1> QED BY <1>1 DEF AuthTypeOK, UsersOK, SignIn

LEMMA SessionType ==
    ASSUME NEW id \in UserIds, NEW account \in Account
    PROVE  AuthSession(id, account) \in Principal
BY DEF AuthSession, Principal, Account

\* A change to one link leaves a sequence of links.
LEMMA LinksType ==
    ASSUME AuthTypeOK, NEW k, NEW l, k \in DOMAIN links => l \in Link
    PROVE  [links EXCEPT ![k] = l] \in Seq(Link)
<1>1. links \in Seq(Link)
  BY DEF AuthTypeOK, UsersOK
<1>2. links \in [1 .. Len(links) -> Link] /\ Len(links) \in Nat /\ DOMAIN links = 1 .. Len(links)
  BY <1>1
<1>3. [links EXCEPT ![k] = l] \in [1 .. Len(links) -> Link]
  BY <1>2
<1> QED BY <1>2, <1>3

LEMMA LinkChange ==
    ASSUME AuthTypeOK, NEW k \in DOMAIN links
    PROVE  /\ [links[k] EXCEPT !.mailed = TRUE] \in Link
           /\ [links[k] EXCEPT !.uses = @ + 1] \in Link
<1>1. links[k] \in Link
  BY DEF AuthTypeOK, UsersOK
<1>2. links[k].uses + 1 \in Nat
  BY <1>1 DEF Link
<1> QED BY <1>1, <1>2 DEF Link

LEMMA AuthTypeStep == AuthTypeOK /\ [AuthNext]_authVars => AuthTypeOK'
<1> SUFFICES ASSUME AuthTypeOK, [AuthNext]_authVars PROVE AuthTypeOK'
  OBVIOUS
<1> USE LocalAuthAssumption DEF stores, sessions
<1>1. ASSUME NEW b \in Browsers, NEW email \in Emails, NEW p \in Passwords, Register(b, email, p)
      PROVE AuthTypeOK'
  <2> DEFINE a == [email |-> email, password |-> Hash(p), active |-> TRUE]
             c == [op |-> "add", id |-> minted + 1, account |-> a]
  <2>1. a \in Account
    BY DEF Account
  <2>2. minted + 1 \in UserIds
    BY <1>1 DEF Register, AuthTypeOK, UsersOK, UserIds
  <2>3. c \in Call
    BY <2>1, <2>2 DEF Call
  <2>4. Begin(b, c)
    BY <1>1 DEF Register
  <2>5. call' \in [Browsers -> Call] /\ CopyOK'
    BY <2>3, <2>4, CallType
  <2> HIDE DEF a, c
  <2> QED BY <1>1, <2>2, <2>5 DEF Register, AuthTypeOK, UsersOK, UserIds
<1>2. ASSUME NEW b \in Browsers, NEW email \in Emails, NEW p \in Passwords, Login(b, email, p)
      PROVE AuthTypeOK'
  <2>1. PICK id \in DOMAIN users : SignIn(b, AuthSession(id, users[id]))
    BY <1>2 DEF Login
  <2>2. AuthSession(id, users[id]) \in Principal
    BY SessionType DEF AuthTypeOK, UsersOK
  <2>3. call' \in [Browsers -> Call] /\ CopyOK'
    BY <1>2, RestType DEF Login
  <2> QED BY <1>2, <2>1, <2>2, <2>3, SignInType DEF Login, AuthTypeOK, UsersOK
<1>3. ASSUME NEW b \in Browsers, Logout(b) PROVE AuthTypeOK'
  BY <1>3, RestType DEF Logout, AuthTypeOK, UsersOK
<1>4. ASSUME NEW b \in Browsers, NEW email \in Emails, UpdateProfile(b, email) PROVE AuthTypeOK'
  <2> DEFINE id == principal[b].id
             c == [op |-> "profile", id |-> id, account |-> [users[id] EXCEPT !.email = email]]
  <2>1. id \in UserIds /\ users[id] \in Account
    BY <1>4 DEF UpdateProfile, AuthTypeOK, UsersOK
  <2>2. [users[id] EXCEPT !.email = email] \in Account
    BY <2>1 DEF Account
  <2>3. c \in Call
    BY <2>1, <2>2 DEF Call
  <2>4. Begin(b, c)
    BY <1>4 DEF UpdateProfile
  <2>5. call' \in [Browsers -> Call] /\ CopyOK'
    BY <2>3, <2>4, CallType
  <2>6. form' \in [Browsers -> Form \cup {Unset}]
    <3>1. [form[b] EXCEPT !.email = email] \in Form \cup {Unset}
      BY DEF AuthTypeOK, UsersOK, Form, Unset
    <3> QED BY <1>4, <3>1 DEF UpdateProfile, AuthTypeOK, UsersOK
  <2> HIDE DEF c, id
  <2> QED BY <1>4, <2>5, <2>6 DEF UpdateProfile, AuthTypeOK, UsersOK
<1>5. ASSUME NEW b \in Browsers, NEW email \in Emails, RequestReset(b, email) PROVE AuthTypeOK'
  <2> DEFINE c == [op |-> "invalidate", id |-> ResetTarget(email), at |-> now]
  <2>1. ResetTarget(email) \in UserIds \cup {Stranger}
    BY DEF ResetTarget, AuthTypeOK, UsersOK
  <2>2. c \in Call
    BY <2>1 DEF Call, AuthTypeOK, UsersOK
  <2>3. Begin(b, c)
    BY <1>5 DEF RequestReset
  <2>4. call' \in [Browsers -> Call] /\ CopyOK'
    BY <2>2, <2>3, CallType
  <2> HIDE DEF c
  <2> QED BY <1>5, <2>4 DEF RequestReset, AuthTypeOK, UsersOK
<1>6. ASSUME NEW b \in Browsers, NEW current \in Passwords, NEW new \in Passwords,
             ChangePassword(b, current, new)
      PROVE AuthTypeOK'
  <2> DEFINE id == principal[b].id
             c == [op |-> "password", id |-> id, current |-> current,
                   account |-> [users[id] EXCEPT !.password = Hash(new)]]
  <2>1. id \in UserIds /\ users[id] \in Account
    BY <1>6 DEF ChangePassword, AuthTypeOK, UsersOK
  <2>2. [users[id] EXCEPT !.password = Hash(new)] \in Account
    BY <2>1 DEF Account
  <2>3. c \in Call
    BY <2>1, <2>2 DEF Call
  <2>4. Begin(b, c)
    BY <1>6 DEF ChangePassword
  <2>5. call' \in [Browsers -> Call] /\ CopyOK'
    BY <2>3, <2>4, CallType
  <2> HIDE DEF c, id
  <2> QED BY <1>6, <2>5 DEF ChangePassword, AuthTypeOK, UsersOK
<1>7. ASSUME NEW b \in Browsers, NEW new \in Passwords, ResetPassword(b, new) PROVE AuthTypeOK'
  <2>1. PICK t \in tokens :
          Begin(b, [op |-> "redeem", id |-> t.user, link |-> t.link, new |-> new])
    BY <1>7 DEF ResetPassword
  <2>2. [op |-> "redeem", id |-> t.user, link |-> t.link, new |-> new] \in Call
    BY DEF Call, Token, AuthTypeOK, UsersOK
  <2>3. call' \in [Browsers -> Call] /\ CopyOK'
    BY <2>1, <2>2, CallType
  <2> QED BY <1>7, <2>3 DEF ResetPassword, AuthTypeOK, UsersOK
<1>8. ASSUME NEW b \in Browsers, NEW us, UsersOK(us), AddUser(b, us) PROVE AuthTypeOK'
  <2>1. call[b].id \in UserIds /\ call[b].account \in Account
    BY <1>8, CallFields DEF AddUser, AuthTypeOK, UsersOK
  <2>2. call' \in [Browsers -> Call] /\ CopyOK'
    BY <1>8, RestType DEF AddUser
  <2>3. CASE MayAdd(us, call[b].id, call[b].account)
    BY <1>8, <2>1, <2>2, <2>3, PutType, SessionType, SignInType DEF AddUser, AuthTypeOK, UsersOK
  <2>4. CASE ~MayAdd(us, call[b].id, call[b].account)
    BY <1>8, <2>2, <2>4 DEF AddUser, AuthTypeOK, UsersOK
  <2> QED BY <2>3, <2>4
<1>9. ASSUME NEW b \in Browsers, NEW us, UsersOK(us), StoreProfile(b, us) PROVE AuthTypeOK'
  <2> DEFINE p == AuthSession(call[b].id, call[b].account)
  <2>1. call[b].id \in UserIds /\ call[b].account \in Account
    BY <1>9, CallFields DEF StoreProfile, AuthTypeOK, UsersOK
  <2>2. call' \in [Browsers -> Call] /\ CopyOK'
    BY <1>9, RestType DEF StoreProfile
  <2>3. CASE MayUpdate(us, call[b].id, call[b].account)
    <3>1. Put(us, call[b].id, call[b].account)
      BY <1>9, <2>3 DEF StoreProfile
    <3>2. principal' \in [Browsers -> Principal \cup {Guest}]
      BY <1>9, <2>1, <2>3, SessionType DEF StoreProfile, AuthTypeOK, UsersOK
    <3>3. p.email \in Emails
      BY <2>1 DEF AuthSession, Account
    <3>4. [form[b] EXCEPT !.email = p.email] \in Form \cup {Unset}
      BY <3>3 DEF AuthTypeOK, UsersOK, Form, Unset
    <3>5. form' \in [Browsers -> Form \cup {Unset}]
      BY <1>9, <2>3, <3>4 DEF StoreProfile, AuthTypeOK, UsersOK
    <3> QED BY <1>9, <2>1, <2>2, <3>1, <3>2, <3>5, PutType DEF StoreProfile, AuthTypeOK, UsersOK
  <2>4. CASE ~MayUpdate(us, call[b].id, call[b].account)
    BY <1>9, <2>2, <2>4 DEF StoreProfile, AuthTypeOK, UsersOK
  <2> QED BY <2>3, <2>4
<1>10. ASSUME NEW b \in Browsers, NEW us, UsersOK(us), StorePassword(b, us) PROVE AuthTypeOK'
  <2>1. call[b].id \in UserIds /\ call[b].account \in Account
    BY <1>10, CallFields DEF StorePassword, AuthTypeOK, UsersOK
  <2>2. call' \in [Browsers -> Call] /\ CopyOK'
    BY <1>10, RestType DEF StorePassword
  <2> QED BY <1>10, <2>1, <2>2, PutType DEF StorePassword, AuthTypeOK, UsersOK
<1>11. ASSUME NEW b \in Browsers, NEW ts, ts \subseteq Token, InvalidateOlder(b, ts) PROVE AuthTypeOK'
  <2>1. call[b] \in Call /\ call[b].op = "invalidate"
    BY <1>11 DEF InvalidateOlder, AuthTypeOK, UsersOK
  <2>3. /\ call[b] = [op |-> "invalidate", id |-> call[b].id, at |-> call[b].at]
        /\ call[b].id \in UserIds \cup {Stranger} /\ call[b].at \in Nat
    BY <2>1, CallFields
  <2>4. [call[b] EXCEPT !.op = "issue"] = [op |-> "issue", id |-> call[b].id, at |-> call[b].at]
    BY <2>3
  <2>5. [op |-> "issue", id |-> call[b].id, at |-> call[b].at] \in Call
    BY <2>3 DEF Call
  <2>2. call' \in [Browsers -> Call] /\ CopyOK'
    BY <1>11, <2>4, <2>5, CallType DEF InvalidateOlder
  <2> QED BY <1>11, <2>2 DEF InvalidateOlder, InvalidateFor, AuthTypeOK, UsersOK
<1>12. ASSUME NEW b \in Browsers, NEW ts, ts \subseteq Token, IssueToken(b, ts) PROVE AuthTypeOK'
  <2> DEFINE k == Len(links) + 1
             l == [user |-> call[b].id, at |-> call[b].at, mailed |-> FALSE, uses |-> 0]
             t == [link |-> k, user |-> call[b].id,
                   expires |-> WholeSeconds(call[b].at + 2 * Ttl)]
             c == [op |-> IF call[b].id = Stranger THEN "retract" ELSE "deliver",
                   id |-> call[b].id, link |-> k]
  <2>1. call[b].id \in UserIds \cup {Stranger} /\ call[b].at \in Nat /\ k \in Nat \ {0}
    BY <1>12, CallFields DEF IssueToken, AuthTypeOK, UsersOK
  <2>2. l \in Link
    BY <2>1 DEF Link
  <2>3. t \in Token
    BY <2>1 DEF Token, WholeSeconds
  <2>4. c \in Call
    BY <2>1 DEF Call
  <2>5. Begin(b, c) /\ links' = Append(links, l) /\ tokens' = ts \cup {t}
    BY <1>12 DEF IssueToken
  <2>6. call' \in [Browsers -> Call] /\ CopyOK'
    BY <2>4, <2>5, CallType
  <2> HIDE DEF k, l, t, c
  <2> QED BY <1>12, <2>2, <2>3, <2>5, <2>6 DEF IssueToken, AuthTypeOK, UsersOK
<1>13. ASSUME NEW b \in Browsers, Deliver(b) PROVE AuthTypeOK'
  <2>1. call' \in [Browsers -> Call] /\ CopyOK'
    BY <1>13, RestType DEF Deliver
  <2>2. tokens' \subseteq Token
    BY <1>13 DEF Deliver, AuthTypeOK
  <2>3. links' \in Seq(Link)
    <3>2. call[b].link \in DOMAIN links => [links[call[b].link] EXCEPT !.mailed = TRUE] \in Link
      BY LinkChange
    <3>1. [links EXCEPT ![call[b].link].mailed = TRUE] \in Seq(Link)
      BY <3>2, LinksType
    <3> QED BY <1>13, <3>1 DEF Deliver, AuthTypeOK, UsersOK
  <2> QED BY <1>13, <2>1, <2>2, <2>3 DEF Deliver, AuthTypeOK, UsersOK
<1>14. ASSUME NEW b \in Browsers, ReadOwner(b) PROVE AuthTypeOK'
  <2> DEFINE id == call[b].id
             c == [op |-> "renew", id |-> id, link |-> call[b].link,
                   account |-> [users[id] EXCEPT !.password = Hash(call[b].new)]]
  <2>1. call[b].link \in Nat \ {0} /\ call[b].new \in Passwords
    BY <1>14, CallFields DEF ReadOwner, AuthTypeOK, UsersOK
  <2>2. CASE id \in DOMAIN users
    <3>1. id \in UserIds /\ users[id] \in Account
      BY <2>2 DEF AuthTypeOK, UsersOK
    <3>2. [users[id] EXCEPT !.password = Hash(call[b].new)] \in Account
      BY <2>1, <3>1 DEF Account
    <3>3. c \in Call
      BY <2>1, <3>1, <3>2 DEF Call
    <3>4. Begin(b, c)
      BY <1>14, <2>2 DEF ReadOwner
    <3>5. call' \in [Browsers -> Call] /\ CopyOK'
      BY <3>3, <3>4, CallType
    <3> HIDE DEF c
    <3> QED BY <1>14, <2>2, <3>5 DEF ReadOwner, AuthTypeOK, UsersOK
  <2>3. CASE id \notin DOMAIN users
    <3>1. [op |-> "void", id |-> id, link |-> call[b].link] \in Call
      BY <1>14, <2>1, CallFields DEF ReadOwner, AuthTypeOK, Call
    <3>2. call' \in [Browsers -> Call] /\ CopyOK'
      BY <1>14, <2>3, <3>1, CallType DEF ReadOwner
    <3> QED BY <1>14, <2>3, <3>2 DEF ReadOwner, AuthTypeOK
  <2> QED BY <2>2, <2>3
<1>15. ASSUME NEW b \in Browsers, NEW us, UsersOK(us), RenewPassword(b, us) PROVE AuthTypeOK'
  <2>1. call[b].id \in UserIds /\ call[b].account \in Account
    BY <1>15, CallFields DEF RenewPassword, AuthTypeOK, UsersOK
  <2>2. CASE MayUpdate(us, call[b].id, call[b].account)
    <3>1. [op |-> "burn", id |-> call[b].id] \in Call
      BY <2>1 DEF Call
    <3>2. call' \in [Browsers -> Call] /\ CopyOK'
      BY <1>15, <2>2, <3>1, CallType DEF RenewPassword
    <3>5. call[b].link \in DOMAIN links
             => [links[call[b].link] EXCEPT !.uses = @ + 1] \in Link
      BY LinkChange
    <3>3. [links EXCEPT ![call[b].link].uses = @ + 1] \in Seq(Link)
      BY <3>5, LinksType
    <3>4. links' \in Seq(Link)
      BY <1>15, <2>2, <3>3 DEF RenewPassword
    <3> QED BY <1>15, <2>1, <2>2, <3>2, <3>4, PutType DEF RenewPassword, AuthTypeOK, UsersOK
  <2>3. CASE ~MayUpdate(us, call[b].id, call[b].account)
    BY <1>15, <2>3, RestType DEF RenewPassword, AuthTypeOK, UsersOK
  <2> QED BY <2>2, <2>3
<1>16. ASSUME NEW b \in Browsers, NEW ts, ts \subseteq Token, BurnTokens(b, ts) PROVE AuthTypeOK'
  BY <1>16, RestType DEF BurnTokens, InvalidateFor, AuthTypeOK, UsersOK
<1>23. ASSUME NEW b \in Browsers, NEW ts, ts \subseteq Token, TakeBack(b, ts) PROVE AuthTypeOK'
  BY <1>23, RestType DEF TakeBack, InvalidateFor, AuthTypeOK, UsersOK
<1>24. ASSUME NEW b \in Browsers, ReadStore(b) PROVE AuthTypeOK'
  <2>1. CopyOK'
    BY <1>24 DEF ReadStore, CopyOK, AuthTypeOK, UserCalls, TokenCalls
  <2> QED BY <1>24, <2>1 DEF ReadStore, AuthTypeOK
<1>25. ASSUME NEW b \in Browsers, Proceed(b) PROVE AuthTypeOK'
  <2>1. CASE call[b].op \in UserCalls /\ UserCall(b, copy[b].users)
    <3>1. UsersOK(copy[b].users)
      BY <1>25, <2>1 DEF Proceed, AuthTypeOK, CopyOK
    <3> QED BY <1>8, <1>9, <1>10, <1>15, <2>1, <3>1 DEF UserCall
  <2>2. CASE call[b].op \in TokenCalls /\ TokenCall(b, copy[b].tokens)
    <3>1. copy[b].tokens \subseteq Token
      BY <1>25, <2>2 DEF Proceed, AuthTypeOK, CopyOK
    <3> QED BY <1>11, <1>12, <1>16, <1>23, <2>2, <3>1 DEF TokenCall
  <2> QED BY <1>25, <2>1, <2>2 DEF Proceed
<1>17. ASSUME NEW b \in Browsers, CallFails(b) PROVE AuthTypeOK'
  BY <1>17, RestType DEF CallFails, AuthTypeOK, UsersOK
<1>18. ASSUME NEW b \in Browsers, NEW k \in 0 .. Len(links), OpenPage(b, k) PROVE AuthTypeOK'
  <2>1. k \in Nat
    OBVIOUS
  <2> QED BY <1>18, <2>1, RestType DEF OpenPage, AuthTypeOK, UsersOK
<1>19. ASSUME NEW id \in DOMAIN users, EditUsersFile(id) PROVE AuthTypeOK'
  <2>1. \A u \in DOMAIN users : [users[u] EXCEPT !.active = FALSE] \in Account
    BY DEF AuthTypeOK, UsersOK, Account
  <2>2. DOMAIN users' \subseteq UserIds /\ \A u \in DOMAIN users' : users'[u] \in Account
    BY <1>19, <2>1 DEF EditUsersFile, AuthTypeOK, UsersOK
  <2>3. UNCHANGED <<call, copy>> => CopyOK'
    BY DEF AuthTypeOK, CopyOK
  <2> QED BY <1>19, <2>2, <2>3 DEF EditUsersFile, AuthTypeOK, UsersOK
<1>20. CASE Crash
  <2>1. CopyOK'
    BY <1>20 DEF Crash, CopyOK
  <2> QED BY <1>20, <2>1 DEF Crash, AuthTypeOK, UsersOK, Call
<1>21. CASE Tick
  BY <1>21 DEF Tick, AuthTypeOK, UsersOK, CopyOK
<1>22. CASE UNCHANGED authVars
  BY <1>22 DEF authVars, AuthTypeOK, UsersOK, CopyOK
<1> QED
  BY <1>1, <1>2, <1>3, <1>4, <1>5, <1>6, <1>7, <1>8, <1>9, <1>10, <1>11, <1>12, <1>13,
     <1>14, <1>15, <1>16, <1>17, <1>18, <1>19, <1>20, <1>21, <1>22,
     <1>24, <1>25
     DEF AuthNext, Clicks

\* The files, the sessions and the calls are always well typed.
THEOREM AuthTypeCorrect == AuthSpec => []AuthTypeOK
<1>1. AuthInit => AuthTypeOK
  BY LocalAuthAssumption DEF AuthInit, AuthTypeOK, UsersOK, CopyOK, Call
<1> QED BY <1>1, AuthTypeStep, PTL DEF AuthSpec

-----------------------------------------------------------------------------
(* Emails.                                                                 *)

UniqueIn(us) == \A u, v \in DOMAIN us : us[u].email = us[v].email => u = v

\* Not only the file: what a call of the store has read of it, and will write
\* back with one account changed, has no two accounts with one email.
EmailsInv ==
    /\ UniqueIn(users)
    /\ \A b \in Browsers :
          copy[b] # NoCopy /\ call[b].op \in UserCalls => UniqueIn(copy[b].users)

\* What may be stored under an id takes nobody's email.
LEMMA PutKeepsUnique ==
    ASSUME NEW us, UniqueIn(us), NEW id, NEW account,
           ~EmailTaken(us, account.email, id), Put(us, id, account)
    PROVE  UniqueIn(users')
BY DEF UniqueIn, EmailTaken, Put

\* A step of the call of b, whose file was read before or is read again.
LEMMA EmailsKept ==
    ASSUME AuthTypeOK, EmailsInv, NEW b \in Browsers, NEW c, Begin(b, c), UniqueIn(users')
    PROVE  EmailsInv'
<1>1. copy'[b] = NoCopy /\ \A d \in Browsers \ {b} : copy'[d] = copy[d] /\ call'[d] = call[d]
  BY DEF Begin, AuthTypeOK, CopyOK
<1> QED BY <1>1 DEF EmailsInv

LEMMA EmailsStep == AuthTypeOK /\ EmailsInv /\ [AuthNext]_authVars => EmailsInv'
<1> SUFFICES ASSUME AuthTypeOK, EmailsInv, [AuthNext]_authVars PROVE EmailsInv'
  OBVIOUS
<1> USE DEF stores
<1>1. ASSUME NEW b \in Browsers, NEW c, Begin(b, c), users' = users PROVE EmailsInv'
  BY <1>1, EmailsKept DEF EmailsInv
<1>2. ASSUME NEW b \in Browsers, NEW us, UniqueIn(us), UserCall(b, us) PROVE EmailsInv'
  <2>1. users' = users \/ UniqueIn(users')
    BY <1>2, PutKeepsUnique DEF UserCall, AddUser, StoreProfile, StorePassword, RenewPassword,
                                MayAdd, MayUpdate
  <2>2. \E c : Begin(b, c)
    BY <1>2 DEF UserCall, AddUser, StoreProfile, StorePassword, RenewPassword, End
  <2> QED BY <1>1, <2>1, <2>2, EmailsKept
<1>3. ASSUME NEW b \in Browsers, NEW ts, TokenCall(b, ts) PROVE EmailsInv'
  <2>1. users' = users /\ \E c : Begin(b, c)
    BY <1>3 DEF TokenCall, InvalidateOlder, IssueToken, TakeBack, BurnTokens, End
  <2> QED BY <1>1, <2>1
<1>4. ASSUME NEW b \in Browsers, Proceed(b) PROVE EmailsInv'
  BY <1>2, <1>3, <1>4 DEF Proceed, EmailsInv
<1>5. ASSUME NEW b \in Browsers, ReadStore(b) PROVE EmailsInv'
  <2>1. /\ UNCHANGED <<users, call>> /\ \A d \in Browsers \ {b} : copy'[d] = copy[d]
        /\ call[b].op \in UserCalls => copy'[b] = [users |-> users]
    BY <1>5 DEF ReadStore, AuthTypeOK, CopyOK, UserCalls, TokenCalls
  <2>2. call[b].op \in UserCalls => UniqueIn(copy'[b].users)
    BY <2>1 DEF EmailsInv
  <2> QED BY <2>1, <2>2 DEF EmailsInv
<1>6. ASSUME NEW b \in Browsers, Clicks(b) PROVE EmailsInv'
  <2>1. users' = users
    BY <1>6 DEF Clicks, Register, Login, Logout, UpdateProfile, RequestReset, ChangePassword,
                ResetPassword
  <2>2. \E c : Begin(b, c)
    BY <1>6 DEF Clicks, Register, Login, Logout, UpdateProfile, RequestReset, ChangePassword,
                ResetPassword, End
  <2> QED BY <1>1, <2>1, <2>2
<1>7. ASSUME NEW b \in Browsers, Deliver(b) \/ ReadOwner(b) \/ CallFails(b) PROVE EmailsInv'
  <2>1. users' = users /\ \E c : Begin(b, c)
    BY <1>7 DEF Deliver, ReadOwner, CallFails, End
  <2> QED BY <1>1, <2>1
<1>8. ASSUME NEW b \in Browsers, NEW k \in 0 .. Len(links), OpenPage(b, k) PROVE EmailsInv'
  <2>1. users' = users /\ Begin(b, Idle)
    BY <1>8 DEF OpenPage, End
  <2> QED BY <1>1, <2>1
<1>9. ASSUME NEW id \in DOMAIN users, EditUsersFile(id) PROVE EmailsInv'
  <2>1. \A u \in DOMAIN users : [users[u] EXCEPT !.active = FALSE].email = users[u].email
    BY DEF AuthTypeOK, UsersOK, Account
  <2>2. \A u \in DOMAIN users' : u \in DOMAIN users /\ users'[u].email = users[u].email
    BY <1>9, <2>1 DEF EditUsersFile
  <2>3. UniqueIn(users')
    BY <2>2 DEF EmailsInv, UniqueIn
  <2> QED BY <1>9, <2>3 DEF EditUsersFile, EmailsInv
<1>10. CASE Crash
  BY <1>10 DEF Crash, EmailsInv
<1>11. CASE Tick \/ UNCHANGED authVars
  BY <1>11 DEF Tick, authVars, EmailsInv
<1> QED
  BY <1>4, <1>5, <1>6, <1>7, <1>8, <1>9, <1>10, <1>11 DEF AuthNext

\* Whatever calls overlap, fail or crash, and with whatever copies of the file
\* they go on, no two accounts share an email.
THEOREM AccountsEmailsUnique == AuthSpec => []EmailsUnique
<1>1. AuthInit => EmailsInv
  BY DEF AuthInit, EmailsInv, UniqueIn
<1>2. EmailsInv => EmailsUnique
  BY DEF EmailsInv, UniqueIn, EmailsUnique
<1> QED BY <1>1, <1>2, EmailsStep, AuthTypeCorrect, PTL DEF AuthSpec

-----------------------------------------------------------------------------
(* The account settings.                                                   *)

\* A session shows account fields exactly while someone is signed in, those
\* of that user; and a call that will sign in or save a profile finds the
\* session as it left it.
SettingsOf(b) ==
    /\ principal[b] = Guest <=> form[b] = Unset
    /\ principal[b] # Guest => form[b].for = principal[b].id
    /\ call[b].op = "add" => principal[b] = Guest
    /\ call[b].op = "profile" => principal[b] # Guest /\ principal[b].id = call[b].id

SettingsInv == \A b \in Browsers : SettingsOf(b)

\* Signing in where nobody is signed in seeds the fields for that user.
LEMMA SignInSettings ==
    ASSUME AuthTypeOK, SettingsInv, NEW b \in Browsers, NEW p \in Principal,
           principal[b] = Guest, SignIn(b, p), End(b)
    PROVE  SettingsInv'
<1> USE LocalAuthAssumption
<1>1. p # Guest /\ Seed(p) # Unset /\ Seed(p).for = p.id
  BY DEF Principal, Seed, Unset, UserIds
<1>2. principal'[b] = p /\ form'[b] = Seed(p) /\ call'[b].op = "idle"
  BY DEF SignIn, End, Begin, Idle, SettingsInv, SettingsOf, AuthTypeOK, UsersOK
<1>3. ASSUME NEW c \in Browsers, c # b PROVE SettingsOf(c)'
  BY <1>3 DEF SignIn, End, Idle, Begin, SettingsInv, SettingsOf, AuthTypeOK, UsersOK
<1>4. SettingsOf(b)'
  BY <1>1, <1>2 DEF SettingsOf
<1> QED BY <1>3, <1>4 DEF SettingsInv

\* A step that leaves the sessions alone and starts no call that counts.
LEMMA SameSessions ==
    ASSUME AuthTypeOK, SettingsInv, UNCHANGED <<principal, form>>,
           \A b \in Browsers : call'[b] = call[b] \/ call'[b].op \notin {"add", "profile"}
    PROVE  SettingsInv'
BY DEF SettingsInv, SettingsOf

\* A change of the email field does not touch whose fields they are.
LEMMA FormEmail ==
    ASSUME NEW f \in Form, NEW email \in Emails
    PROVE  [f EXCEPT !.email = email] # Unset /\ [f EXCEPT !.email = email].for = f.for
<1>1. [f EXCEPT !.email = email].for = f.for /\ f.for \in Nat
  BY DEF Form, UserIds
<1> QED BY <1>1, LocalAuthAssumption DEF Unset

LEMMA SettingsStep == AuthTypeOK /\ SettingsInv /\ [AuthNext]_authVars => SettingsInv'
<1> SUFFICES ASSUME AuthTypeOK, SettingsInv, [AuthNext]_authVars PROVE SettingsInv'
  OBVIOUS
<1> USE DEF sessions, stores
<1>1. ASSUME NEW b \in Browsers, NEW email \in Emails, NEW p \in Passwords, Register(b, email, p)
      PROVE SettingsInv'
  BY <1>1 DEF Register, SignedOut, Begin, SettingsInv, SettingsOf, AuthTypeOK, UsersOK
<1>2. ASSUME NEW b \in Browsers, NEW email \in Emails, NEW p \in Passwords, Login(b, email, p)
      PROVE SettingsInv'
  <2>1. PICK id \in DOMAIN users : SignIn(b, AuthSession(id, users[id]))
    BY <1>2 DEF Login
  <2>2. AuthSession(id, users[id]) \in Principal
    BY SessionType DEF AuthTypeOK, UsersOK
  <2> QED BY <1>2, <2>1, <2>2, SignInSettings DEF Login, SignedOut
<1>3. ASSUME NEW b \in Browsers, Logout(b) PROVE SettingsInv'
  BY <1>3 DEF Logout, End, Begin, Idle, SettingsInv, SettingsOf, AuthTypeOK, UsersOK
<1>4. ASSUME NEW b \in Browsers, NEW email \in Emails, UpdateProfile(b, email) PROVE SettingsInv'
  <2>1. principal[b] # Guest /\ form[b] \in Form
    BY <1>4 DEF UpdateProfile, SignedIn, SettingsInv, SettingsOf, AuthTypeOK, UsersOK
  <2>2. form'[b] # Unset /\ form'[b].for = form[b].for
    BY <1>4, <2>1, FormEmail DEF UpdateProfile, AuthTypeOK, UsersOK
  <2>3. call'[b].op = "profile" /\ call'[b].id = principal[b].id /\ principal' = principal
    BY <1>4 DEF UpdateProfile, Begin, AuthTypeOK, UsersOK
  <2>4. SettingsOf(b)'
    BY <2>1, <2>2, <2>3 DEF SettingsInv, SettingsOf
  <2>5. ASSUME NEW c \in Browsers, c # b PROVE SettingsOf(c)'
    BY <1>4, <2>5 DEF UpdateProfile, Begin, SettingsInv, SettingsOf, AuthTypeOK, UsersOK
  <2> QED BY <2>4, <2>5 DEF SettingsInv
<1>5. ASSUME NEW b \in Browsers, NEW email \in Emails, RequestReset(b, email) PROVE SettingsInv'
  <2>1. \A c \in Browsers : call'[c] = call[c] \/ call'[c].op \notin {"add", "profile"}
    BY <1>5 DEF RequestReset, Begin, AuthTypeOK, UsersOK
  <2> QED BY <1>5, <2>1, SameSessions DEF RequestReset
<1>6. ASSUME NEW b \in Browsers, NEW current \in Passwords, NEW new \in Passwords,
             ChangePassword(b, current, new)
      PROVE SettingsInv'
  <2>1. \A c \in Browsers : call'[c] = call[c] \/ call'[c].op \notin {"add", "profile"}
    BY <1>6 DEF ChangePassword, Begin, AuthTypeOK, UsersOK
  <2> QED BY <1>6, <2>1, SameSessions DEF ChangePassword
<1>7. ASSUME NEW b \in Browsers, NEW new \in Passwords, ResetPassword(b, new) PROVE SettingsInv'
  <2>1. PICK t \in tokens :
          Begin(b, [op |-> "redeem", id |-> t.user, link |-> t.link, new |-> new])
    BY <1>7 DEF ResetPassword
  <2>2. \A c \in Browsers : call'[c] = call[c] \/ call'[c].op \notin {"add", "profile"}
    BY <2>1 DEF Begin, AuthTypeOK, UsersOK
  <2> QED BY <1>7, <2>2, SameSessions DEF ResetPassword
<1>8. ASSUME NEW b \in Browsers, NEW us, UsersOK(us), AddUser(b, us) PROVE SettingsInv'
  <2>1. AuthSession(call[b].id, call[b].account) \in Principal
    BY <1>8, CallFields, SessionType DEF AddUser, AuthTypeOK, UsersOK
  <2>2. principal[b] = Guest
    BY <1>8 DEF AddUser, SettingsInv, SettingsOf
  <2>3. CASE MayAdd(us, call[b].id, call[b].account)
    BY <1>8, <2>1, <2>2, <2>3, SignInSettings DEF AddUser
  <2>4. CASE ~MayAdd(us, call[b].id, call[b].account)
    BY <1>8, <2>4, SameSessions DEF AddUser, End, Begin, Idle, AuthTypeOK, UsersOK
  <2> QED BY <2>3, <2>4
<1>9. ASSUME NEW b \in Browsers, NEW us, UsersOK(us), StoreProfile(b, us) PROVE SettingsInv'
  <2> DEFINE p == AuthSession(call[b].id, call[b].account)
  <2>1. CASE MayUpdate(us, call[b].id, call[b].account)
    <3>1. p \in Principal /\ p.id = call[b].id
      BY <1>9, CallFields, SessionType DEF StoreProfile, AuthTypeOK, UsersOK, AuthSession
    <3>2. p # Guest /\ p.email \in Emails
      BY <3>1, LocalAuthAssumption DEF Principal, UserIds
    <3>3. principal[b] # Guest /\ form[b] \in Form /\ principal[b].id = p.id
      BY <1>9, <3>1 DEF StoreProfile, SettingsInv, SettingsOf, AuthTypeOK, UsersOK
    <3>8. form'[b] = [form[b] EXCEPT !.email = p.email]
      BY <1>9, <2>1 DEF StoreProfile, AuthTypeOK, UsersOK
    <3>4. form'[b] # Unset /\ form'[b].for = form[b].for
      <4> HIDE DEF p
      <4> QED BY <3>2, <3>3, <3>8, FormEmail
    <3>5. principal'[b] = p /\ call'[b].op = "idle"
      BY <1>9, <2>1 DEF StoreProfile, End, Begin, Idle, AuthTypeOK, UsersOK
    <3>6. SettingsOf(b)'
      BY <3>2, <3>3, <3>4, <3>5 DEF SettingsInv, SettingsOf
    <3>7. ASSUME NEW c \in Browsers, c # b PROVE SettingsOf(c)'
      BY <1>9, <2>1, <3>7 DEF StoreProfile, End, Idle, Begin, SettingsInv, SettingsOf, AuthTypeOK, UsersOK
    <3> QED BY <3>6, <3>7 DEF SettingsInv
  <2>2. CASE ~MayUpdate(us, call[b].id, call[b].account)
    BY <1>9, <2>2, SameSessions DEF StoreProfile, End, Begin, Idle, AuthTypeOK, UsersOK
  <2> QED BY <2>1, <2>2
<1>10. ASSUME NEW b \in Browsers, NEW us, UsersOK(us), StorePassword(b, us) PROVE SettingsInv'
  BY <1>10, SameSessions DEF StorePassword, End, Begin, Idle, AuthTypeOK, UsersOK
<1>11. ASSUME NEW b \in Browsers, NEW ts, ts \subseteq Token, InvalidateOlder(b, ts) PROVE SettingsInv'
  <2>1. call[b] = [op |-> "invalidate", id |-> call[b].id, at |-> call[b].at]
    BY <1>11, CallFields DEF InvalidateOlder, AuthTypeOK, UsersOK
  <2>2. [call[b] EXCEPT !.op = "issue"].op = "issue"
    BY <2>1
  <2> QED BY <1>11, <2>2, SameSessions DEF InvalidateOlder, Begin, AuthTypeOK, UsersOK
<1>12. ASSUME NEW b \in Browsers, NEW ts, ts \subseteq Token, IssueToken(b, ts) PROVE SettingsInv'
  BY <1>12, SameSessions DEF IssueToken, Begin, AuthTypeOK, UsersOK
<1>13. ASSUME NEW b \in Browsers, Deliver(b) PROVE SettingsInv'
  BY <1>13, SameSessions DEF Deliver, End, Begin, Idle, AuthTypeOK, UsersOK
<1>14. ASSUME NEW b \in Browsers, ReadOwner(b) PROVE SettingsInv'
  <2>1. call'[b].op \in {"renew", "void"} /\ \A c \in Browsers \ {b} : call'[c] = call[c]
    BY <1>14 DEF ReadOwner, Begin, End, Idle, AuthTypeOK, UsersOK
  <2> QED BY <1>14, <2>1, SameSessions DEF ReadOwner
<1>15. ASSUME NEW b \in Browsers, NEW us, UsersOK(us), RenewPassword(b, us) PROVE SettingsInv'
  <2>1. call'[b].op \in {"burn", "idle"} /\ \A c \in Browsers \ {b} : call'[c] = call[c]
    BY <1>15 DEF RenewPassword, Begin, End, Idle, AuthTypeOK, UsersOK
  <2> QED BY <1>15, <2>1, SameSessions DEF RenewPassword
<1>16. ASSUME NEW b \in Browsers, NEW ts, ts \subseteq Token, BurnTokens(b, ts) PROVE SettingsInv'
  BY <1>16, SameSessions DEF BurnTokens, End, Begin, Idle, AuthTypeOK, UsersOK
<1>22. ASSUME NEW b \in Browsers, NEW ts, ts \subseteq Token, TakeBack(b, ts) PROVE SettingsInv'
  BY <1>22, SameSessions DEF TakeBack, End, Idle, Begin, AuthTypeOK
<1>23. ASSUME NEW b \in Browsers, ReadStore(b) PROVE SettingsInv'
  BY <1>23, SameSessions DEF ReadStore
<1>24. ASSUME NEW b \in Browsers, Proceed(b) PROVE SettingsInv'
  <2>1. CASE call[b].op \in UserCalls /\ UserCall(b, copy[b].users)
    <3>1. UsersOK(copy[b].users)
      BY <1>24, <2>1 DEF Proceed, AuthTypeOK, CopyOK
    <3> QED BY <1>8, <1>9, <1>10, <1>15, <2>1, <3>1 DEF UserCall
  <2>2. CASE call[b].op \in TokenCalls /\ TokenCall(b, copy[b].tokens)
    <3>1. copy[b].tokens \subseteq Token
      BY <1>24, <2>2 DEF Proceed, AuthTypeOK, CopyOK
    <3> QED BY <1>11, <1>12, <1>16, <1>22, <2>2, <3>1 DEF TokenCall
  <2> QED BY <1>24, <2>1, <2>2 DEF Proceed
<1>17. ASSUME NEW b \in Browsers, CallFails(b) PROVE SettingsInv'
  BY <1>17, SameSessions DEF CallFails, End, Begin, Idle, AuthTypeOK, UsersOK
<1>18. ASSUME NEW b \in Browsers, NEW k \in 0 .. Len(links), OpenPage(b, k) PROVE SettingsInv'
  BY <1>18 DEF OpenPage, End, Begin, Idle, SettingsInv, SettingsOf, AuthTypeOK, UsersOK
<1>19. ASSUME NEW id \in DOMAIN users, EditUsersFile(id) PROVE SettingsInv'
  BY <1>19, SameSessions DEF EditUsersFile
<1>20. CASE Crash
  BY <1>20 DEF Crash, Idle, SettingsInv, SettingsOf
<1>21. CASE Tick \/ UNCHANGED authVars
  BY <1>21, SameSessions DEF Tick, authVars
<1> QED
  BY <1>1, <1>2, <1>3, <1>4, <1>5, <1>6, <1>7, <1>8, <1>9, <1>10, <1>11, <1>12, <1>13,
     <1>14, <1>15, <1>16, <1>17, <1>18, <1>19, <1>20, <1>21,
     <1>23, <1>24 DEF AuthNext, Clicks

\* The account settings of a session are always the signed-in user's,
\* whatever calls overlap, fail or crash.
THEOREM SettingsAreOwn == AuthSpec => []FormIsSignedInUsers
<1>1. AuthInit => SettingsInv
  BY DEF AuthInit, Idle, SettingsInv, SettingsOf
<1>2. SettingsInv => FormIsSignedInUsers
  BY DEF SettingsInv, SettingsOf, FormIsSignedInUsers
<1> QED BY <1>1, <1>2, SettingsStep, AuthTypeCorrect, PTL DEF AuthSpec

-----------------------------------------------------------------------------
(* One call at a time: a call of a store is one step on its file.          *)

\* No two calls are under way.
OneCall == \A b, c \in Browsers : ~AtRest(b) /\ ~AtRest(c) => b = c

\* What a call of a store has read is what its file still holds.
CopyCurrent ==
    \A b \in Browsers :
       copy[b] # NoCopy => /\ call[b].op \in UserCalls => copy[b].users = users
                           /\ call[b].op \in TokenCalls => copy[b].tokens = tokens

SerialInv == OneCall /\ CopyCurrent

\* The state without the copies, and its steps.
atomicVars == <<users, tokens, links, now, minted, principal, form, url, call, faults>>

AtomicCall(b) == UserCall(b, users) \/ TokenCall(b, tokens) \/ Deliver(b) \/ ReadOwner(b)

AtomicNext ==
    \/ \E b \in Browsers : Clicks(b) \/ AtomicCall(b) \/ CallFails(b)
    \/ \E b \in Browsers, k \in 0 .. Len(links) : OpenPage(b, k)
    \/ \E id \in DOMAIN users : EditUsersFile(id)
    \/ Crash
    \/ Tick

\* What a step does with the calls: one starts when all rest, or the one
\* under way goes on or ends.
LEMMA OneCallStep ==
    ASSUME AuthTypeOK, OneCall, NEW b \in Browsers,
           ~AtRest(b) \/ (\A c \in Browsers : AtRest(c)),
           \A c \in Browsers \ {b} : call'[c] = call[c]
    PROVE  OneCall'
<1>1. \A c \in Browsers \ {b} : AtRest(c)'
  BY DEF OneCall, AtRest
<1> QED BY <1>1 DEF OneCall

\* A call starts, goes on or ends.
LEMMA SerialBegin ==
    ASSUME AuthTypeOK, SerialInv, NEW b \in Browsers, NEW c, Begin(b, c),
           ~AtRest(b) \/ (\A d \in Browsers : AtRest(d))
    PROVE  SerialInv'
<1>1. /\ \A d \in Browsers \ {b} : call'[d] = call[d] /\ copy'[d] = copy[d]
      /\ copy'[b] = NoCopy
  BY DEF Begin, AuthTypeOK, CopyOK
<1>2. OneCall'
  BY <1>1, OneCallStep DEF SerialInv
<1>3. \A d \in Browsers \ {b} : call'[d] = Idle
  BY <1>1 DEF SerialInv, OneCall, AtRest
<1>4. CopyCurrent'
  BY <1>1, <1>3 DEF CopyCurrent, Idle, UserCalls, TokenCalls
<1> QED BY <1>2, <1>4 DEF SerialInv

LEMMA SerialStep ==
    ASSUME Serial, AuthTypeOK, SerialInv, [AuthNext]_authVars
    PROVE  SerialInv'
<1>1. ASSUME NEW b \in Browsers, Clicks(b) PROVE SerialInv'
  <2>1. \A d \in Browsers : AtRest(d)
    BY <1>1 DEF Clicks, Register, Login, Logout, UpdateProfile, RequestReset, ChangePassword,
                ResetPassword, SignedIn, SignedOut, OnPanel, Click
  <2>2. \E c : Begin(b, c)
    BY <1>1 DEF Clicks, Register, Login, Logout, UpdateProfile, RequestReset, ChangePassword,
                ResetPassword, End
  <2> QED BY <2>1, <2>2, SerialBegin
<1>2. ASSUME NEW b \in Browsers, ReadStore(b) PROVE SerialInv'
  <2>1. OneCall'
    BY <1>2 DEF ReadStore, SerialInv, OneCall, AtRest
  <2>2. UNCHANGED <<users, tokens, call>>
    BY <1>2 DEF ReadStore, stores
  <2>3. DOMAIN copy = Browsers
    BY DEF AuthTypeOK, CopyOK
  <2>4. CASE call[b].op \in UserCalls /\ copy' = [copy EXCEPT ![b] = [users |-> users]]
    <3>1. copy'[b].users = users /\ \A d \in Browsers \ {b} : copy'[d] = copy[d]
      BY <2>3, <2>4
    <3>2. CopyCurrent'
      BY <2>2, <2>4, <3>1 DEF SerialInv, CopyCurrent, UserCalls, TokenCalls
    <3> QED BY <2>1, <3>2 DEF SerialInv
  <2>5. CASE call[b].op \in TokenCalls /\ copy' = [copy EXCEPT ![b] = [tokens |-> tokens]]
    <3>1. copy'[b].tokens = tokens /\ \A d \in Browsers \ {b} : copy'[d] = copy[d]
      BY <2>3, <2>5
    <3>2. CopyCurrent'
      BY <2>2, <2>5, <3>1 DEF SerialInv, CopyCurrent, UserCalls, TokenCalls
    <3> QED BY <2>1, <3>2 DEF SerialInv
  <2> QED BY <1>2, <2>4, <2>5 DEF ReadStore
<1>3. ASSUME NEW b \in Browsers, Proceed(b) \/ Deliver(b) \/ ReadOwner(b) \/ CallFails(b)
      PROVE  SerialInv'
  <2>1. ~AtRest(b)
    BY <1>3 DEF Proceed, Deliver, ReadOwner, CallFails, AtRest, Idle, UserCalls, TokenCalls
  <2>2. CASE Proceed(b)
    <3>1. ASSUME NEW us, UserCall(b, us) PROVE \E c : Begin(b, c)
      BY <3>1 DEF UserCall, AddUser, StoreProfile, StorePassword, RenewPassword, End
    <3>2. ASSUME NEW ts, TokenCall(b, ts) PROVE \E c : Begin(b, c)
      BY <3>2 DEF TokenCall, InvalidateOlder, IssueToken, TakeBack, BurnTokens, End
    <3> QED BY <2>1, <2>2, <3>1, <3>2, SerialBegin DEF Proceed
  <2>3. CASE Deliver(b) \/ ReadOwner(b) \/ CallFails(b)
    <3>1. \E c : Begin(b, c)
      BY <2>3 DEF Deliver, ReadOwner, CallFails, End
    <3> QED BY <2>1, <3>1, SerialBegin
  <2> QED BY <1>3, <2>2, <2>3
<1>4. ASSUME NEW b \in Browsers, NEW k \in 0 .. Len(links), OpenPage(b, k) PROVE SerialInv'
  <2>1. /\ \A d \in Browsers \ {b} : call'[d] = call[d] /\ copy'[d] = copy[d]
        /\ call'[b] = Idle /\ copy'[b] = NoCopy
        /\ UNCHANGED <<users, tokens>>
    BY <1>4 DEF OpenPage, End, Begin, AuthTypeOK, CopyOK, stores
  <2>2. OneCall'
    BY <2>1 DEF SerialInv, OneCall, AtRest
  <2>3. CopyCurrent'
    BY <2>1 DEF SerialInv, CopyCurrent
  <2> QED BY <2>2, <2>3 DEF SerialInv
<1>5. ASSUME NEW id \in DOMAIN users, EditUsersFile(id) PROVE SerialInv'
  <2>1. UNCHANGED <<call, copy>> /\ \A d \in Browsers : call[d] = Idle
    BY <1>5 DEF EditUsersFile, AtRest
  <2> QED BY <2>1 DEF SerialInv, OneCall, AtRest, CopyCurrent, Idle, UserCalls, TokenCalls
<1>6. CASE Crash
  <2>1. \A d \in Browsers : call'[d] = Idle /\ copy'[d] = NoCopy
    BY <1>6 DEF Crash
  <2> QED BY <2>1 DEF SerialInv, OneCall, AtRest, CopyCurrent
<1>7. CASE Tick \/ UNCHANGED authVars
  <2>1. UNCHANGED <<users, tokens, call, copy>>
    BY <1>7 DEF Tick, authVars, stores
  <2> QED BY <2>1 DEF SerialInv, OneCall, AtRest, CopyCurrent
<1> QED BY <1>1, <1>2, <1>3, <1>4, <1>5, <1>6, <1>7 DEF AuthNext

\* While calls do not overlap, what a call of a store has read is what its
\* file holds when it writes: each is one step on the file.
THEOREM AtomicSteps == ASSUME Serial PROVE AuthSpec => [][AtomicNext]_atomicVars
<1>1. AuthInit => SerialInv
  BY DEF AuthInit, SerialInv, OneCall, AtRest, CopyCurrent
<1>2. AuthTypeOK /\ SerialInv /\ [AuthNext]_authVars => SerialInv'
  BY SerialStep
<1>3. SerialInv /\ [AuthNext]_authVars => [AtomicNext]_atomicVars
  <2> SUFFICES ASSUME SerialInv, [AuthNext]_authVars PROVE [AtomicNext]_atomicVars
    OBVIOUS
  <2>1. ASSUME NEW b \in Browsers, ReadStore(b) PROVE UNCHANGED atomicVars
    BY <2>1 DEF ReadStore, atomicVars, stores, sessions
  <2>2. ASSUME NEW b \in Browsers, Proceed(b) PROVE AtomicNext
    <3>1. \/ UserCall(b, copy[b].users) /\ copy[b].users = users
          \/ TokenCall(b, copy[b].tokens) /\ copy[b].tokens = tokens
      BY <2>2 DEF Proceed, SerialInv, CopyCurrent
    <3>2. UserCall(b, users) \/ TokenCall(b, tokens)
      BY <3>1
    <3> QED BY <3>2 DEF AtomicNext, AtomicCall
  <2>3. CASE UNCHANGED authVars
    BY <2>3 DEF authVars, atomicVars
  <2> QED BY <2>1, <2>2, <2>3 DEF AuthNext, AtomicNext, AtomicCall
<1> QED BY <1>1, <1>2, <1>3, AuthTypeCorrect, PTL DEF AuthSpec

-----------------------------------------------------------------------------
(* The links minted.                                                       *)

\* Intervals from 1 with the same elements end at the same number.
LEMMA IntervalEnd ==
    ASSUME NEW m \in Nat, NEW n \in Nat, 1 .. m = 1 .. n
    PROVE  m = n
<1>1. (m = 0 \/ m \in 1 .. m) /\ (n = 0 \/ n \in 1 .. n)
  OBVIOUS
<1>2. (m = 0 \/ m <= n) /\ (n = 0 \/ n <= m)
  BY <1>1
<1> QED BY <1>2

LEMMA SameLinkUsers ==
    ASSUME AuthTypeOK, NEW k
    PROVE  /\ links' = [links EXCEPT ![k].mailed = TRUE] =>
                /\ Len(links') = Len(links)
                /\ \A j \in 1 .. Len(links) : links'[j].user = links[j].user
           /\ links' = [links EXCEPT ![k].uses = @ + 1] =>
                /\ Len(links') = Len(links)
                /\ \A j \in 1 .. Len(links) : links'[j].user = links[j].user
<1>1. DOMAIN links = 1 .. Len(links) /\ Len(links) \in Nat
  BY DEF AuthTypeOK, UsersOK
<1>2. \A j \in DOMAIN links : /\ [links[j] EXCEPT !.mailed = TRUE].user = links[j].user
                              /\ [links[j] EXCEPT !.uses = @ + 1].user = links[j].user
  BY DEF AuthTypeOK, UsersOK, Link
<1>3. CASE links' = [links EXCEPT ![k].mailed = TRUE]
  <2>1. links' \in Seq(Link)
    <3>1. k \in DOMAIN links => [links[k] EXCEPT !.mailed = TRUE] \in Link
      BY LinkChange
    <3> QED BY <1>3, <3>1, LinksType
  <2>2. DOMAIN links' = 1 .. Len(links') /\ Len(links') \in Nat /\ DOMAIN links' = DOMAIN links
    BY <1>3, <2>1
  <2>3. Len(links') = Len(links)
    BY <1>1, <2>2, IntervalEnd
  <2>4. \A j \in DOMAIN links : links'[j].user = links[j].user
    BY <1>2, <1>3
  <2> QED BY <1>1, <2>3, <2>4
<1>4. CASE links' = [links EXCEPT ![k].uses = @ + 1]
  <2>1. links' \in Seq(Link)
    <3>1. k \in DOMAIN links => [links[k] EXCEPT !.uses = @ + 1] \in Link
      BY LinkChange
    <3> QED BY <1>4, <3>1, LinksType
  <2>2. DOMAIN links' = 1 .. Len(links') /\ Len(links') \in Nat /\ DOMAIN links' = DOMAIN links
    BY <1>4, <2>1
  <2>3. Len(links') = Len(links)
    BY <1>1, <2>2, IntervalEnd
  <2>4. \A j \in DOMAIN links : links'[j].user = links[j].user
    BY <1>2, <1>4
  <2> QED BY <1>1, <2>3, <2>4
<1> QED BY <1>3, <1>4

-----------------------------------------------------------------------------
(* Reset links.                                                            *)

\* Every token is that of a link minted for its account.
TokensHaveLinks ==
    \A t \in tokens : t.link \in 1 .. Len(links) /\ links[t.link].user = t.user

\* A request that is about to write a token has removed the older ones.
NoneBeforeIssue ==
    \A b \in Browsers : call[b].op = "issue" => \A t \in tokens : t.user # call[b].id

LinksInv == OneCall /\ TokensHaveLinks /\ NoneBeforeIssue /\ LatestLinkOnly

\* Links only change in who may use them and how often; tokens only go.
LEMMA FewerTokens ==
    ASSUME AuthTypeOK, LinksInv, tokens' \subseteq tokens, Len(links') = Len(links),
           \A k \in 1 .. Len(links) : links'[k].user = links[k].user
    PROVE  TokensHaveLinks' /\ LatestLinkOnly'
<1>1. \A t \in tokens' : t \in tokens /\ t.link \in 1 .. Len(links) /\ t.link \in Nat
  BY DEF LinksInv, TokensHaveLinks
<1>2. Len(links) \in Nat
  BY DEF AuthTypeOK, UsersOK
<1> QED BY <1>1, <1>2 DEF LinksInv, TokensHaveLinks, LatestLinkOnly

\* A call under way that leaves the links as they are and adds no token.
LEMMA QuietStep ==
    ASSUME AuthTypeOK, LinksInv, NEW b \in Browsers,
           ~AtRest(b) \/ (\A c \in Browsers : AtRest(c)),
           \A c \in Browsers \ {b} : call'[c] = call[c],
           call'[b].op # "issue", tokens' \subseteq tokens, Len(links') = Len(links),
           \A k \in 1 .. Len(links) : links'[k].user = links[k].user
    PROVE  LinksInv'
<1>1. OneCall'
  BY OneCallStep DEF LinksInv
<1>2. TokensHaveLinks' /\ LatestLinkOnly'
  BY FewerTokens
<1>3. NoneBeforeIssue'
  BY DEF LinksInv, NoneBeforeIssue
<1> QED BY <1>1, <1>2, <1>3 DEF LinksInv

LEMMA LinksStep == Serial /\ AuthTypeOK /\ LinksInv /\ [AtomicNext]_atomicVars => LinksInv'
<1> SUFFICES ASSUME Serial, AuthTypeOK, LinksInv, [AtomicNext]_atomicVars PROVE LinksInv'
  OBVIOUS
<1> USE DEF sessions, stores
<1>1. ASSUME NEW b \in Browsers, Clicks(b) PROVE LinksInv'
  <2>1. \A c \in Browsers : AtRest(c)
    BY <1>1 DEF Clicks, Register, Login, Logout, UpdateProfile, RequestReset, ChangePassword,
                ResetPassword, SignedIn, SignedOut, OnPanel, Click
  <2>2. UNCHANGED <<tokens, links>>
    BY <1>1 DEF Clicks, Register, Login, Logout, UpdateProfile, RequestReset, ChangePassword,
                ResetPassword
  <2> DEFINE Quiet == call'[b].op # "issue" /\ \A c \in Browsers \ {b} : call'[c] = call[c]
  <2>3. Quiet
    <3>1. ASSUME NEW c, c.op # "issue", Begin(b, c) PROVE Quiet
      BY <3>1 DEF Begin, AuthTypeOK, UsersOK
    <3>2. ASSUME End(b) PROVE Quiet
      BY <3>2 DEF End, Begin, Idle, AuthTypeOK, UsersOK
    <3>3. ASSUME NEW email \in Emails, NEW p \in Passwords, Register(b, email, p) PROVE Quiet
      BY <3>1, <3>3 DEF Register
    <3>4. ASSUME NEW email \in Emails, NEW p \in Passwords, Login(b, email, p) PROVE Quiet
      BY <3>2, <3>4 DEF Login
    <3>5. ASSUME Logout(b) PROVE Quiet
      BY <3>2, <3>5 DEF Logout
    <3>6. ASSUME NEW email \in Emails, UpdateProfile(b, email) PROVE Quiet
      BY <3>1, <3>6 DEF UpdateProfile
    <3>7. ASSUME NEW email \in Emails, RequestReset(b, email) PROVE Quiet
      BY <3>1, <3>7 DEF RequestReset
    <3>8. ASSUME NEW current \in Passwords, NEW new \in Passwords, ChangePassword(b, current, new)
          PROVE Quiet
      BY <3>1, <3>8 DEF ChangePassword
    <3>9. ASSUME NEW new \in Passwords, ResetPassword(b, new) PROVE Quiet
      BY <3>1, <3>9 DEF ResetPassword
    <3> QED BY <1>1, <3>3, <3>4, <3>5, <3>6, <3>7, <3>8, <3>9 DEF Clicks
  <2> QED BY <2>1, <2>2, <2>3, QuietStep
<1>2. ASSUME NEW b \in Browsers, AddUser(b, users) \/ StoreProfile(b, users) \/ StorePassword(b, users)
                                 \/ TakeBack(b, tokens) \/ BurnTokens(b, tokens)
      PROVE LinksInv'
  <2>1. ~AtRest(b)
    BY <1>2 DEF AddUser, StoreProfile, StorePassword, TakeBack, BurnTokens, AtRest, Idle
  <2>2. tokens' \subseteq tokens /\ links' = links
    BY <1>2 DEF AddUser, StoreProfile, StorePassword, TakeBack, BurnTokens, InvalidateFor
  <2>3. call'[b].op # "issue" /\ \A c \in Browsers \ {b} : call'[c] = call[c]
    BY <1>2 DEF AddUser, StoreProfile, StorePassword, TakeBack, BurnTokens, End, Begin, Idle, AuthTypeOK, UsersOK
  <2> QED BY <2>1, <2>2, <2>3, QuietStep
<1>3. ASSUME NEW b \in Browsers, InvalidateOlder(b, tokens) PROVE LinksInv'
  <2>1. ~AtRest(b)
    BY <1>3 DEF InvalidateOlder, AtRest, Idle
  <2>2. /\ tokens' \subseteq tokens /\ links' = links
        /\ \A t \in tokens' : t.user # call[b].id
    BY <1>3 DEF InvalidateOlder, InvalidateFor
  <2>3. call[b] = [op |-> "invalidate", id |-> call[b].id, at |-> call[b].at]
    BY <1>3, CallFields DEF InvalidateOlder, AuthTypeOK, UsersOK
  <2>4. [call[b] EXCEPT !.op = "issue"].id = call[b].id
    BY <2>3
  <2>5. call'[b].id = call[b].id /\ \A c \in Browsers \ {b} : call'[c] = call[c]
    BY <1>3, <2>4 DEF InvalidateOlder, Begin, AuthTypeOK, UsersOK
  <2>6. NoneBeforeIssue'
    BY <2>2, <2>5 DEF LinksInv, NoneBeforeIssue
  <2>7. TokensHaveLinks' /\ LatestLinkOnly'
    BY <2>2, FewerTokens
  <2>8. OneCall'
    BY <2>1, <2>5, OneCallStep DEF LinksInv
  <2> QED BY <2>6, <2>7, <2>8 DEF LinksInv
<1>4. ASSUME NEW b \in Browsers, IssueToken(b, tokens) PROVE LinksInv'
  <2> DEFINE k == Len(links) + 1
             l == [user |-> call[b].id, at |-> call[b].at, mailed |-> FALSE, uses |-> 0]
             n == [link |-> k, user |-> call[b].id,
                   expires |-> WholeSeconds(call[b].at + 2 * Ttl)]
  <2>1. ~AtRest(b)
    BY <1>4 DEF IssueToken, AtRest, Idle
  <2>2. links' = Append(links, l) /\ tokens' = tokens \cup {n} /\ l.user = call[b].id
    BY <1>4 DEF IssueToken
  <2>3. call'[b].op \in {"deliver", "retract"} /\ \A c \in Browsers \ {b} : call'[c] = call[c]
    BY <1>4 DEF IssueToken, Begin, AuthTypeOK, UsersOK
  <2>4. \A t \in tokens : t.user # call[b].id /\ t.link \in 1 .. Len(links)
                          /\ links[t.link].user = t.user
    BY <1>4 DEF IssueToken, LinksInv, NoneBeforeIssue, TokensHaveLinks
  <2>5. n.link = k /\ n.user = call[b].id
    OBVIOUS
  <2> HIDE DEF l, n
  <2>6. /\ Len(links) \in Nat /\ Len(links') = k /\ links'[k] = l
        /\ \A j \in 1 .. Len(links) : links'[j] = links[j]
    BY <2>2 DEF AuthTypeOK, UsersOK
  <2>7. TokensHaveLinks'
    BY <2>2, <2>4, <2>5, <2>6 DEF TokensHaveLinks
  <2>8. LatestLinkOnly'
    <3>1. ASSUME NEW t \in tokens, NEW j \in t.link + 1 .. Len(links')
          PROVE links'[j].user # t.user
      <4>1. CASE j = k
        BY <2>2, <2>4, <2>6, <4>1
      <4>2. CASE j # k
        <5>1. t.link \in Nat /\ t.link >= 1
          BY <2>4
        <5>2. j \in t.link + 1 .. Len(links) /\ j \in 1 .. Len(links)
          BY <2>6, <4>2, <5>1
        <5> QED BY <2>6, <5>2 DEF LinksInv, LatestLinkOnly
      <4> QED BY <4>1, <4>2
    <3>2. n.link + 1 .. Len(links') = {}
      BY <2>5, <2>6
    <3> QED BY <2>2, <3>1, <3>2 DEF LatestLinkOnly
  <2>9. NoneBeforeIssue'
    <3>1. \A c \in Browsers : call'[c].op # "issue"
      BY <2>1, <2>3 DEF LinksInv, OneCall, AtRest, Idle
    <3> QED BY <3>1 DEF NoneBeforeIssue
  <2>10. OneCall'
    BY <2>1, <2>3, OneCallStep DEF LinksInv
  <2> QED BY <2>7, <2>8, <2>9, <2>10 DEF LinksInv
<1>5. ASSUME NEW b \in Browsers, Deliver(b) PROVE LinksInv'
  <2>1. ~AtRest(b)
    BY <1>5 DEF Deliver, AtRest, Idle
  <2>2. tokens' \subseteq tokens
    BY <1>5 DEF Deliver
  <2>3. Len(links') = Len(links) /\ \A k \in 1 .. Len(links) : links'[k].user = links[k].user
    <3>1. links' = links \/ links' = [links EXCEPT ![call[b].link].mailed = TRUE]
      BY <1>5 DEF Deliver
    <3> QED BY <3>1, SameLinkUsers
  <2>4. call'[b].op # "issue" /\ \A c \in Browsers \ {b} : call'[c] = call[c]
    BY <1>5 DEF Deliver, End, Begin, Idle, AuthTypeOK, UsersOK
  <2> QED BY <2>1, <2>2, <2>3, <2>4, QuietStep
<1>6. ASSUME NEW b \in Browsers, ReadOwner(b) PROVE LinksInv'
  <2>1. ~AtRest(b)
    BY <1>6 DEF ReadOwner, AtRest, Idle
  <2>2. tokens' \subseteq tokens /\ links' = links
    BY <1>6 DEF ReadOwner
  <2>3. call'[b].op # "issue" /\ \A c \in Browsers \ {b} : call'[c] = call[c]
    BY <1>6 DEF ReadOwner, Begin, End, Idle, AuthTypeOK, UsersOK
  <2> QED BY <2>1, <2>2, <2>3, QuietStep
<1>7. ASSUME NEW b \in Browsers, RenewPassword(b, users) PROVE LinksInv'
  <2>1. ~AtRest(b)
    BY <1>7 DEF RenewPassword, AtRest, Idle
  <2>2. tokens' = tokens
    BY <1>7 DEF RenewPassword
  <2>3. Len(links') = Len(links) /\ \A k \in 1 .. Len(links) : links'[k].user = links[k].user
    <3>1. links' = links \/ links' = [links EXCEPT ![call[b].link].uses = @ + 1]
      BY <1>7 DEF RenewPassword
    <3> QED BY <3>1, SameLinkUsers
  <2>4. call'[b].op # "issue" /\ \A c \in Browsers \ {b} : call'[c] = call[c]
    BY <1>7 DEF RenewPassword, Begin, End, Idle, AuthTypeOK, UsersOK
  <2> QED BY <2>1, <2>2, <2>3, <2>4, QuietStep
<1>8. ASSUME NEW b \in Browsers, CallFails(b) PROVE LinksInv'
  <2>1. call'[b].op # "issue" /\ \A c \in Browsers \ {b} : call'[c] = call[c]
    BY <1>8 DEF CallFails, End, Begin, Idle, AuthTypeOK, UsersOK
  <2>2. ~AtRest(b) /\ UNCHANGED <<tokens, links>>
    BY <1>8 DEF CallFails
  <2> QED BY <2>1, <2>2, QuietStep
<1>9. ASSUME NEW b \in Browsers, NEW k \in 0 .. Len(links), OpenPage(b, k) PROVE LinksInv'
  <2>1. AtRest(b) /\ call' = [call EXCEPT ![b] = Idle] /\ UNCHANGED <<tokens, links>>
    BY <1>9 DEF OpenPage, End, Idle, Begin
  <2>2. call'[b] = Idle /\ \A c \in Browsers \ {b} : call'[c] = call[c]
    BY <2>1 DEF AuthTypeOK, UsersOK
  <2>3. OneCall'
    BY <2>2 DEF LinksInv, OneCall, AtRest
  <2>4. NoneBeforeIssue'
    BY <2>1, <2>2 DEF LinksInv, NoneBeforeIssue, Idle
  <2>5. TokensHaveLinks' /\ LatestLinkOnly'
    BY <2>1, FewerTokens
  <2> QED BY <2>3, <2>4, <2>5 DEF LinksInv
<1>10. CASE Crash
  <2>1. \A b \in Browsers : call'[b] = Idle
    BY <1>10 DEF Crash
  <2>2. OneCall' /\ NoneBeforeIssue'
    BY <2>1 DEF OneCall, AtRest, NoneBeforeIssue, Idle
  <2>3. TokensHaveLinks' /\ LatestLinkOnly'
    BY <1>10, FewerTokens DEF Crash
  <2> QED BY <2>2, <2>3 DEF LinksInv
<1>11. ASSUME UNCHANGED <<tokens, links, call>> PROVE LinksInv'
  BY <1>11 DEF LinksInv, OneCall, AtRest, TokensHaveLinks, NoneBeforeIssue, LatestLinkOnly
<1>12. ASSUME NEW id \in DOMAIN users, EditUsersFile(id) PROVE UNCHANGED <<tokens, links, call>>
  BY <1>12 DEF EditUsersFile
<1>13. CASE Tick \/ UNCHANGED atomicVars
  BY <1>11, <1>13 DEF Tick, atomicVars
<1> QED
  BY <1>1, <1>2, <1>3, <1>4, <1>5, <1>6, <1>7, <1>8, <1>9, <1>10, <1>11, <1>12, <1>13
     DEF AtomicNext, AtomicCall, UserCall, TokenCall

\* While calls do not overlap, only the latest link of an account is live,
\* whatever fails or crashes.
THEOREM OnlyLatestLinkLive == ASSUME Serial PROVE AuthSpec => []LatestLinkOnly
<1>1. AuthInit => LinksInv
  BY DEF AuthInit, LinksInv, OneCall, AtRest, TokensHaveLinks, NoneBeforeIssue, LatestLinkOnly
<1>2. AuthTypeOK /\ LinksInv /\ [AtomicNext]_atomicVars => LinksInv'
  BY LinksStep
<1>3. LinksInv => LatestLinkOnly
  BY DEF LinksInv
<1> QED BY <1>1, <1>2, <1>3, AuthTypeCorrect, AtomicSteps, PTL DEF AuthSpec
-----------------------------------------------------------------------------
(* The way of a link: minted, mailed, opened, redeemed.                    *)

\* A token is good no longer than the link it was minted with.
TokenOfLink(t) ==
    /\ t.link \in 1 .. Len(links)
    /\ links[t.link].user = t.user
    /\ t.expires <= links[t.link].at + 2 * Ttl

\* A call that has a link has one minted for the account it works on, and one
\* that redeems it came by it through the mail.
CallOfLink(b) ==
    /\ call[b].op \in {"deliver", "redeem", "renew"}
          => call[b].link \in 1 .. Len(links) /\ links[call[b].link].user = call[b].id
    /\ call[b].op \in {"redeem", "renew"} => links[call[b].link].mailed
    /\ call[b].op = "retract" => call[b].id = Stranger

UrlOfLink(b) == url[b] # 0 => url[b] \in 1 .. Len(links) /\ links[url[b]].mailed

\* So has what a call of the token store has read.
CopyOfLinks(b) ==
    copy[b] # NoCopy /\ call[b].op \in TokenCalls => \A t \in copy[b].tokens : TokenOfLink(t)

PathInv ==
    /\ \A t \in tokens : TokenOfLink(t)
    /\ \A b \in Browsers : CallOfLink(b) /\ UrlOfLink(b) /\ CopyOfLinks(b)

\* What no step does to a link: change its account or its time, or unmail it.
LinksKept ==
    /\ Len(links) <= Len(links')
    /\ \A j \in 1 .. Len(links) :
          /\ links'[j].user = links[j].user
          /\ links'[j].at = links[j].at
          /\ links[j].mailed => links'[j].mailed

LEMMA LinkMailed ==
    ASSUME AuthTypeOK, NEW k \in 1 .. Len(links), links' = [links EXCEPT ![k].mailed = TRUE]
    PROVE  /\ LinksKept
           /\ Len(links') = Len(links)
           /\ \A j \in 1 .. Len(links) : links'[j].uses = links[j].uses
<1>1. DOMAIN links = 1 .. Len(links) /\ Len(links) \in Nat
  BY DEF AuthTypeOK, UsersOK
<1>2. Len(links') = Len(links)
  BY SameLinkUsers
<1>3. \A j \in DOMAIN links : links[j] \in Link
  BY DEF AuthTypeOK, UsersOK
<1>4. \A j \in DOMAIN links : links'[j] = IF j = k THEN [links[j] EXCEPT !.mailed = TRUE] ELSE links[j]
  BY <1>1
<1> QED BY <1>1, <1>2, <1>3, <1>4 DEF LinksKept, Link

LEMMA LinkUsed ==
    ASSUME AuthTypeOK, NEW k \in 1 .. Len(links), links' = [links EXCEPT ![k].uses = @ + 1]
    PROVE  /\ LinksKept
           /\ Len(links') = Len(links)
           /\ \A j \in 1 .. Len(links) \ {k} : links'[j].uses = links[j].uses
           /\ links'[k].uses = links[k].uses + 1
<1>1. DOMAIN links = 1 .. Len(links) /\ Len(links) \in Nat
  BY DEF AuthTypeOK, UsersOK
<1>2. Len(links') = Len(links)
  BY SameLinkUsers
<1>3. \A j \in DOMAIN links : links[j] \in Link
  BY DEF AuthTypeOK, UsersOK
<1>4. \A j \in DOMAIN links : links'[j] = IF j = k THEN [links[j] EXCEPT !.uses = @ + 1] ELSE links[j]
  BY <1>1
<1> QED BY <1>1, <1>2, <1>3, <1>4 DEF LinksKept, Link

LEMMA LinkMinted ==
    ASSUME AuthTypeOK, NEW l, links' = Append(links, l)
    PROVE  /\ LinksKept
           /\ Len(links') = Len(links) + 1
           /\ links'[Len(links) + 1] = l
           /\ \A j \in 1 .. Len(links) : links'[j] = links[j]
BY DEF AuthTypeOK, UsersOK, LinksKept

LEMMA LinksSame ==
    ASSUME AuthTypeOK, links' = links
    PROVE  LinksKept
BY DEF AuthTypeOK, UsersOK, LinksKept

\* What a step leaves alone stays on its link.
LEMMA PathKept ==
    ASSUME AuthTypeOK, PathInv, LinksKept
    PROVE  /\ \A t : TokenOfLink(t) => TokenOfLink(t)'
           /\ \A c \in Browsers :
                 copy'[c] = NoCopy \/ UNCHANGED <<call[c], copy[c]>> => CopyOfLinks(c)'
           /\ \A c \in Browsers : call'[c] = call[c] => CallOfLink(c)'
           /\ \A c \in Browsers : url'[c] \in {0, url[c]} => UrlOfLink(c)'
<1>1. Len(links) \in Nat /\ Len(links') \in Nat /\ 1 .. Len(links) \subseteq 1 .. Len(links')
  BY DEF AuthTypeOK, UsersOK, LinksKept
<1>2. \A t : TokenOfLink(t) => TokenOfLink(t)'
  BY <1>1 DEF TokenOfLink, LinksKept
<1>5. \A c \in Browsers :
         copy'[c] = NoCopy \/ UNCHANGED <<call[c], copy[c]>> => CopyOfLinks(c)'
  BY <1>2 DEF PathInv, CopyOfLinks
<1>3. \A c \in Browsers : call'[c] = call[c] => CallOfLink(c)'
  BY <1>1 DEF PathInv, CallOfLink, LinksKept
<1>4. \A c \in Browsers : url'[c] \in {0, url[c]} => UrlOfLink(c)'
  BY <1>1 DEF PathInv, UrlOfLink, LinksKept
<1> QED BY <1>2, <1>3, <1>4, <1>5

\* A step of one browser that ends its call, or takes it where no link is.
LEMMA PathStep ==
    ASSUME AuthTypeOK, PathInv, LinksKept, NEW b \in Browsers,
           \A c \in Browsers \ {b} : UNCHANGED <<call[c], copy[c]>>, copy'[b] = NoCopy,
           CallOfLink(b)', \A t \in tokens' : TokenOfLink(t),
           \A c \in Browsers : url'[c] \in {0, url[c]}
    PROVE  PathInv'
<1>1. \A t \in tokens' : TokenOfLink(t)'
  BY PathKept
<1>2. \A c \in Browsers : CallOfLink(c)' /\ UrlOfLink(c)' /\ CopyOfLinks(c)'
  BY PathKept
<1> QED BY <1>1, <1>2 DEF PathInv

LEMMA PathIsKept == AuthTypeOK /\ PathInv /\ [AuthNext]_authVars => PathInv'
<1> SUFFICES ASSUME AuthTypeOK, PathInv, [AuthNext]_authVars PROVE PathInv'
  OBVIOUS
<1> USE DEF sessions, stores
<1> DEFINE NoLink == {"add", "profile", "password", "invalidate", "issue", "burn", "void", "idle"}
           Elsewhere(b) == /\ copy'[b] = NoCopy
                           /\ \A c \in Browsers \ {b} : UNCHANGED <<call[c], copy[c]>>
<1>1. ASSUME NEW b \in Browsers, NEW c, Begin(b, c) PROVE call'[b] = c /\ Elsewhere(b)
  BY <1>1 DEF Begin, AuthTypeOK, CopyOK
<1>2. ASSUME NEW b \in Browsers, End(b)
      PROVE call'[b].op \in {"idle"} /\ Elsewhere(b)
  BY <1>1, <1>2 DEF End, Idle
<1>3. ASSUME NEW b \in Browsers, call'[b].op \in NoLink PROVE CallOfLink(b)'
  BY <1>3 DEF CallOfLink
<1>4. ASSUME NEW b \in Browsers, Elsewhere(b), call'[b].op \in NoLink,
             UNCHANGED <<links, url>>, \A t \in tokens' : TokenOfLink(t)
      PROVE PathInv'
  BY <1>3, <1>4, LinksSame, PathStep
<1>0. \A t \in tokens : TokenOfLink(t)
  BY DEF PathInv
<1> HIDE DEF Elsewhere
<1>5. ASSUME NEW b \in Browsers, NEW email \in Emails, NEW p \in Passwords,
             Register(b, email, p) \/ Login(b, email, p)
      PROVE PathInv'
  <2>1. call'[b].op \in NoLink /\ Elsewhere(b)
    BY <1>1, <1>2, <1>5 DEF Register, Login
  <2>2. UNCHANGED <<links, url, tokens>>
    BY <1>5 DEF Register, Login, SignIn
  <2> QED BY <1>0, <1>4, <2>1, <2>2
<1>6. ASSUME NEW b \in Browsers, Logout(b) PROVE PathInv'
  BY <1>0, <1>2, <1>4, <1>6 DEF Logout
<1>7. ASSUME NEW b \in Browsers, NEW email \in Emails,
             UpdateProfile(b, email) \/ RequestReset(b, email)
      PROVE PathInv'
  <2>1. call'[b].op \in NoLink /\ Elsewhere(b)
    BY <1>1, <1>7 DEF UpdateProfile, RequestReset
  <2>2. UNCHANGED <<links, url, tokens>>
    BY <1>7 DEF UpdateProfile, RequestReset
  <2> QED BY <1>0, <1>4, <2>1, <2>2
<1>8. ASSUME NEW b \in Browsers, NEW current \in Passwords, NEW new \in Passwords,
             ChangePassword(b, current, new)
      PROVE PathInv'
  BY <1>0, <1>1, <1>4, <1>8 DEF ChangePassword
<1>9. ASSUME NEW b \in Browsers, NEW new \in Passwords, ResetPassword(b, new) PROVE PathInv'
  <2>1. PICK t \in tokens :
          /\ t.link = url[b]
          /\ Begin(b, [op |-> "redeem", id |-> t.user, link |-> t.link, new |-> new])
    BY <1>9 DEF ResetPassword
  <2>2. TokenOfLink(t) /\ UrlOfLink(b) /\ t.link # 0
    BY DEF PathInv, TokenOfLink
  <2>3. UNCHANGED <<links, url, tokens>>
    BY <1>9 DEF ResetPassword
  <2>4. CallOfLink(b)'
    BY <1>1, <2>1, <2>2, <2>3 DEF CallOfLink, TokenOfLink, UrlOfLink
  <2> QED BY <1>0, <1>1, <2>1, <2>3, <2>4, LinksSame, PathStep DEF Elsewhere
<1>10. ASSUME NEW b \in Browsers, NEW us,
             AddUser(b, us) \/ StorePassword(b, us) \/ StoreProfile(b, us)
      PROVE PathInv'
  <2>1. call'[b].op \in NoLink /\ Elsewhere(b)
    BY <1>2, <1>10 DEF AddUser, StorePassword, StoreProfile
  <2>2. UNCHANGED <<links, url, tokens>>
    BY <1>10 DEF AddUser, StorePassword, StoreProfile, SignIn
  <2> QED BY <1>0, <1>4, <2>1, <2>2
<1>11. ASSUME NEW b \in Browsers, NEW ts, \A t \in ts : TokenOfLink(t), InvalidateOlder(b, ts) PROVE PathInv'
  <2>1. call[b] = [op |-> "invalidate", id |-> call[b].id, at |-> call[b].at]
    BY <1>11, CallFields DEF InvalidateOlder, AuthTypeOK, UsersOK
  <2>2. [call[b] EXCEPT !.op = "issue"].op = "issue"
    BY <2>1
  <2> QED BY <1>0, <1>1, <1>4, <1>11, <2>2 DEF InvalidateOlder, InvalidateFor
<1>12. ASSUME NEW b \in Browsers, NEW ts, \A t \in ts : TokenOfLink(t), IssueToken(b, ts) PROVE PathInv'
  <2> DEFINE k == Len(links) + 1
             l == [user |-> call[b].id, at |-> call[b].at, mailed |-> FALSE, uses |-> 0]
             n == [link |-> k, user |-> call[b].id,
                   expires |-> WholeSeconds(call[b].at + 2 * Ttl)]
             c == [op |-> IF call[b].id = Stranger THEN "retract" ELSE "deliver",
                   id |-> call[b].id, link |-> k]
  <2>1. links' = Append(links, l) /\ tokens' = ts \cup {n} /\ UNCHANGED url /\ Begin(b, c)
    BY <1>12 DEF IssueToken
  <2>2. LinksKept /\ Len(links') = k /\ links'[k] = l /\ k \in 1 .. Len(links')
    BY <2>1, LinkMinted DEF AuthTypeOK, UsersOK
  <2>3. ASSUME NEW t, t = n PROVE TokenOfLink(t)'
    <3>1. call[b].at \in Nat
      BY <1>12, CallFields DEF IssueToken, AuthTypeOK, UsersOK
    <3>2. WholeSeconds(call[b].at + 2 * Ttl) <= call[b].at + 2 * Ttl
      BY <3>1, LocalAuthAssumption DEF WholeSeconds
    <3> QED BY <2>2, <2>3, <3>2 DEF TokenOfLink
  <2>4. CallOfLink(b)'
    BY <1>1, <2>1, <2>2 DEF CallOfLink
  <2>5. \A t \in tokens' : TokenOfLink(t)'
    <3> HIDE DEF n
    <3> QED BY <1>12, <2>1, <2>2, <2>3, PathKept
  <2>6. \A d \in Browsers : CallOfLink(d)' /\ UrlOfLink(d)' /\ CopyOfLinks(d)'
    BY <1>1, <2>1, <2>2, <2>4, PathKept DEF Elsewhere
  <2> QED BY <2>5, <2>6 DEF PathInv
<1>13. ASSUME NEW b \in Browsers, Deliver(b) PROVE PathInv'
  <2>1. CallOfLink(b)' /\ Elsewhere(b)
    BY <1>2, <1>3, <1>13 DEF Deliver
  <2>2. LinksKept
    <3>1. call[b].link \in 1 .. Len(links)
      BY <1>13 DEF Deliver, PathInv, CallOfLink
    <3> QED BY <1>13, <3>1, LinkMailed, LinksSame DEF Deliver
  <2>3. tokens' = tokens /\ UNCHANGED url
    BY <1>13 DEF Deliver
  <2> QED BY <1>0, <2>1, <2>2, <2>3, PathStep DEF Elsewhere
<1>14. ASSUME NEW b \in Browsers, ReadOwner(b) PROVE PathInv'
  <2>1. UNCHANGED <<links, url, tokens>>
    BY <1>14 DEF ReadOwner
  <2>2. CASE call[b].id \in DOMAIN users
    <3>1. call'[b].op = "renew" /\ call'[b].id = call[b].id /\ call'[b].link = call[b].link
          /\ Elsewhere(b)
      BY <1>1, <1>14, <2>2 DEF ReadOwner
    <3>2. CallOfLink(b)'
      BY <1>14, <2>1, <3>1 DEF ReadOwner, PathInv, CallOfLink
    <3> QED BY <1>0, <2>1, <3>1, <3>2, LinksSame, PathStep DEF Elsewhere
  <2>3. CASE call[b].id \notin DOMAIN users
    <3>1. call'[b].op = "void" /\ Elsewhere(b)
      BY <1>1, <1>14, <2>3 DEF ReadOwner
    <3> QED BY <1>0, <1>4, <2>1, <3>1
  <2> QED BY <2>2, <2>3
<1>15. ASSUME NEW b \in Browsers, NEW us, RenewPassword(b, us) PROVE PathInv'
  <2>1. call'[b].op \in NoLink /\ Elsewhere(b) /\ UNCHANGED <<url, tokens>>
    BY <1>1, <1>2, <1>15 DEF RenewPassword
  <2>2. LinksKept
    <3>1. call[b].link \in 1 .. Len(links)
      BY <1>15 DEF RenewPassword, PathInv, CallOfLink
    <3> QED BY <1>15, <3>1, LinkUsed, LinksSame DEF RenewPassword
  <2> QED BY <1>0, <1>3, <2>1, <2>2, PathStep DEF Elsewhere
<1>16. ASSUME NEW b \in Browsers, NEW ts, \A t \in ts : TokenOfLink(t), BurnTokens(b, ts) PROVE PathInv'
  <2>1. url' = [url EXCEPT ![b] = 0] /\ links' = links /\ (\A t \in tokens' : TokenOfLink(t))
    BY <1>0, <1>16 DEF BurnTokens, InvalidateFor
  <2>2. \A c \in Browsers : url'[c] \in {0, url[c]}
    BY <2>1 DEF AuthTypeOK, UsersOK
  <2>3. call'[b].op \in NoLink /\ Elsewhere(b)
    BY <1>2, <1>16 DEF BurnTokens
  <2> QED BY <1>3, <2>1, <2>2, <2>3, LinksSame, PathStep DEF Elsewhere
<1>23. ASSUME NEW b \in Browsers, NEW ts, \A t \in ts : TokenOfLink(t), TakeBack(b, ts)
       PROVE PathInv'
  <2>1. UNCHANGED <<links, url>> /\ (\A t \in tokens' : TokenOfLink(t))
    BY <1>0, <1>23 DEF TakeBack, InvalidateFor
  <2> QED BY <1>2, <1>4, <1>23, <2>1 DEF TakeBack
<1>24. ASSUME NEW b \in Browsers, ReadStore(b) PROVE PathInv'
  <2>1. UNCHANGED <<links, url, tokens, call>> /\ \A c \in Browsers \ {b} : copy'[c] = copy[c]
    BY <1>24 DEF ReadStore, AuthTypeOK, CopyOK
  <2>2. call[b].op \in TokenCalls => copy'[b] = [tokens |-> tokens]
    BY <1>24 DEF ReadStore, UserCalls, TokenCalls, AuthTypeOK, CopyOK
  <2>3. CopyOfLinks(b)'
    BY <1>0, <2>1, <2>2, LinksSame, PathKept DEF CopyOfLinks
  <2> QED BY <1>0, <2>1, <2>3, LinksSame, PathKept DEF PathInv
<1>25. ASSUME NEW b \in Browsers, Proceed(b) PROVE PathInv'
  <2>1. CASE UserCall(b, copy[b].users)
    BY <1>10, <1>15, <2>1 DEF UserCall
  <2>2. CASE call[b].op \in TokenCalls /\ TokenCall(b, copy[b].tokens)
    <3>1. \A t \in copy[b].tokens : TokenOfLink(t)
      BY <1>25, <2>2 DEF Proceed, PathInv, CopyOfLinks
    <3> QED BY <1>11, <1>12, <1>16, <1>23, <2>2, <3>1 DEF TokenCall
  <2> QED BY <1>25, <2>1, <2>2 DEF Proceed
<1>17. ASSUME NEW b \in Browsers, CallFails(b) PROVE PathInv'
  BY <1>0, <1>2, <1>4, <1>17 DEF CallFails
<1>18. ASSUME NEW b \in Browsers, NEW k \in 0 .. Len(links), OpenPage(b, k) PROVE PathInv'
  <2>1. /\ url' = [url EXCEPT ![b] = k] /\ UNCHANGED <<links, tokens>>
        /\ k # 0 => links[k].mailed
    BY <1>18 DEF OpenPage
  <2>2. call'[b].op \in NoLink /\ Elsewhere(b)
    BY <1>2, <1>18 DEF OpenPage
  <2>3. url'[b] = k /\ \A c \in Browsers \ {b} : url'[c] = url[c]
    BY <2>1 DEF AuthTypeOK, UsersOK
  <2>4. UrlOfLink(b)'
    BY <2>1, <2>3 DEF UrlOfLink, AuthTypeOK, UsersOK
  <2>5. \A t \in tokens' : TokenOfLink(t)'
    BY <1>0, <2>1, LinksSame, PathKept
  <2>6. \A c \in Browsers : CallOfLink(c)' /\ UrlOfLink(c)' /\ CopyOfLinks(c)'
    BY <1>3, <2>1, <2>2, <2>3, <2>4, LinksSame, PathKept DEF Elsewhere
  <2> QED BY <2>5, <2>6 DEF PathInv
<1>19. CASE Crash
  <2>1. \A b \in Browsers : call'[b].op = "idle" /\ copy'[b] = NoCopy
    BY <1>19 DEF Crash, Idle
  <2>2. UNCHANGED <<links, tokens, url>>
    BY <1>19 DEF Crash
  <2>3. \A t \in tokens' : TokenOfLink(t)'
    BY <1>0, <2>2, LinksSame, PathKept
  <2>4. \A b \in Browsers : CallOfLink(b)' /\ UrlOfLink(b)' /\ CopyOfLinks(b)'
    BY <1>3, <2>1, <2>2, LinksSame, PathKept
  <2> QED BY <2>3, <2>4 DEF PathInv
<1>20. ASSUME UNCHANGED <<links, tokens, url, call, copy>> PROVE PathInv'
  BY <1>20 DEF PathInv, TokenOfLink, CallOfLink, UrlOfLink, CopyOfLinks
<1>21. ASSUME NEW id \in DOMAIN users, EditUsersFile(id) PROVE PathInv'
  BY <1>20, <1>21 DEF EditUsersFile
<1>22. CASE Tick \/ UNCHANGED authVars
  BY <1>20, <1>22 DEF Tick, authVars
<1> QED
  BY <1>5, <1>6, <1>7, <1>8, <1>9, <1>10, <1>11, <1>12, <1>13, <1>14, <1>15, <1>16, <1>17,
     <1>18, <1>19, <1>21, <1>22, <1>24, <1>25 DEF AuthNext, Clicks

LEMMA PathHolds == AuthSpec => []PathInv
<1>1. AuthInit => PathInv
  BY DEF AuthInit, PathInv, CallOfLink, UrlOfLink, CopyOfLinks, Idle
<1> QED BY <1>1, PathIsKept, AuthTypeCorrect, PTL DEF AuthSpec

\* A link is accepted only in its time, by the account it was minted and
\* mailed for, whatever calls overlap, fail or crash.
THEOREM LinksAcceptedInTime == AuthSpec => AcceptedInTime
<1> DEFINE Accept ==
      \A b \in Browsers :
         AtRest(b) /\ call'[b].op = "redeem"
            => LET l == links[call'[b].link]
               IN  now < l.at + 2 * Ttl /\ l.user = call'[b].id /\ l.mailed
<1>1. AuthTypeOK /\ PathInv /\ [AuthNext]_authVars => Accept
  <2> SUFFICES ASSUME AuthTypeOK, PathInv, [AuthNext]_authVars,
                      NEW b \in Browsers, AtRest(b), call'[b].op = "redeem"
               PROVE LET l == links[call'[b].link]
                     IN  now < l.at + 2 * Ttl /\ l.user = call'[b].id /\ l.mailed
    OBVIOUS
  <2>1. call[b].op \in {"idle"} /\ call'[b] # call[b]
    BY DEF AtRest, Idle
  <2>2. PICK new \in Passwords : ResetPassword(b, new)
    <3>1. ASSUME NEW c \in Browsers, Proceed(c) \/ Deliver(c) \/ ReadOwner(c) \/ ReadStore(c)
          PROVE call'[b] = call[b]
      <4>1. call[c] # Idle => call'[b] = call[b] \/ b = c
        BY <3>1 DEF Proceed, UserCall, TokenCall, AddUser, StoreProfile, StorePassword,
           RenewPassword, InvalidateOlder, IssueToken, TakeBack, BurnTokens, Deliver, ReadOwner,
           ReadStore, Begin, End, AuthTypeOK
      <4>2. CASE ReadStore(c)
        BY <4>2 DEF ReadStore
      <4>3. CASE Proceed(c) \/ Deliver(c) \/ ReadOwner(c)
        <5>1. call[c].op # "idle"
          BY <4>3 DEF Proceed, UserCalls, TokenCalls, Deliver, ReadOwner
        <5> QED BY <2>1, <4>1, <5>1 DEF Idle
      <4> QED BY <3>1, <4>2, <4>3
    <3>2. ASSUME NEW c \in Browsers, NEW k, CallFails(c) \/ OpenPage(c, k)
          PROVE call'[b] \in {call[b], Idle}
      BY <3>2 DEF CallFails, OpenPage, End, Idle, Begin, AuthTypeOK, UsersOK
    <3>8. ASSUME NEW c \in Browsers, CallFails(c)
          PROVE call'[b] \in {call[b], Idle}
      BY <3>8 DEF CallFails, End, Idle, Begin, AuthTypeOK, UsersOK
    <3>3. ASSUME NEW id, Crash \/ Tick \/ EditUsersFile(id) \/ UNCHANGED authVars
          PROVE call'[b] \in {call[b], Idle}
      BY <3>3 DEF Crash, Tick, EditUsersFile, authVars
    <3>4. ASSUME NEW c \in Browsers, NEW email \in Emails, NEW p \in Passwords,
                 Register(c, email, p) \/ Login(c, email, p) \/ Logout(c)
                 \/ UpdateProfile(c, email) \/ RequestReset(c, email)
          PROVE call'[b] = call[b] \/ call'[b].op \in {"add", "idle", "profile", "invalidate"}
      BY <3>4 DEF Register, Login, Logout, UpdateProfile, RequestReset, Begin, End, Idle, AuthTypeOK, UsersOK
    <3>5. ASSUME NEW c \in Browsers, NEW p \in Passwords, NEW new \in Passwords,
                 ChangePassword(c, p, new)
          PROVE call'[b] = call[b] \/ call'[b].op = "password"
      BY <3>5 DEF ChangePassword, Begin, AuthTypeOK, UsersOK
    <3>6. ASSUME NEW c \in Browsers, c # b, NEW new \in Passwords, ResetPassword(c, new)
          PROVE call'[b] = call[b]
      BY <3>6 DEF ResetPassword, Begin, AuthTypeOK, UsersOK
    <3>9. ASSUME NEW c \in Browsers, NEW email \in Emails,
                 UpdateProfile(c, email) \/ RequestReset(c, email)
          PROVE call'[b] = call[b] \/ call'[b].op \in {"profile", "invalidate"}
      BY <3>9 DEF UpdateProfile, RequestReset, Begin, AuthTypeOK, UsersOK
    <3>10. ASSUME NEW c \in Browsers, Logout(c)
          PROVE call'[b] = call[b] \/ call'[b].op = "idle"
      BY <3>10 DEF Logout, End, Begin, Idle, AuthTypeOK, UsersOK
    <3>7. Idle.op # "redeem"
      BY DEF Idle
    <3> QED
      BY <2>1, <3>1, <3>2, <3>3, <3>4, <3>5, <3>6, <3>7, <3>8, <3>9, <3>10 DEF AuthNext, Clicks
  <2>3. PICK t \in tokens :
          /\ t.link = url[b] /\ now < t.expires
          /\ Begin(b, [op |-> "redeem", id |-> t.user, link |-> t.link, new |-> new])
    BY <2>2 DEF ResetPassword
  <2>4. call'[b].id = t.user /\ call'[b].link = t.link
    BY <2>3 DEF Begin, AuthTypeOK, UsersOK
  <2>5. TokenOfLink(t) /\ UrlOfLink(b) /\ t \in Token
    BY DEF PathInv, AuthTypeOK, UsersOK
  <2>7. links[t.link] \in Link /\ t.link # 0
    BY <2>5 DEF TokenOfLink, AuthTypeOK, UsersOK
  <2>8. t.expires \in Nat /\ links[t.link].at \in Nat
    BY <2>5, <2>7 DEF Token, Link
  <2>6. now \in Nat /\ 2 * Ttl \in Nat
    BY LocalAuthAssumption DEF AuthTypeOK, UsersOK
  <2> QED BY <2>3, <2>4, <2>5, <2>6, <2>7, <2>8 DEF TokenOfLink, UrlOfLink
<1>2. AuthTypeOK /\ PathInv /\ [AuthNext]_authVars => [Accept]_authVars
  BY <1>1
<1> QED BY <1>2, AuthTypeCorrect, PathHolds, PTL DEF AuthSpec, AcceptedInTime

-----------------------------------------------------------------------------
(* Tokens for unknown emails.                                              *)

\* A browser that takes no token back does not end the request a stranger's
\* token waits for.
LEMMA StrangersKept ==
    ASSUME NoStrangersToken, NEW b \in Browsers, call[b].op # "retract",
           \A c \in Browsers \ {b} : call'[c] = call[c],
           tokens' \subseteq tokens, faults' = faults
    PROVE  NoStrangersToken'
BY DEF NoStrangersToken

LEMMA StrangersStep ==
    AuthTypeOK /\ PathInv /\ NoStrangersToken /\ [AtomicNext]_atomicVars => NoStrangersToken'
<1> SUFFICES ASSUME AuthTypeOK, PathInv, NoStrangersToken, [AtomicNext]_atomicVars
             PROVE NoStrangersToken'
  OBVIOUS
<1> USE DEF sessions, stores
<1>1. ASSUME NEW b \in Browsers, Clicks(b) PROVE NoStrangersToken'
  <2>1. AtRest(b) /\ tokens' = tokens /\ faults' = faults
    BY <1>1 DEF Clicks, Register, Login, Logout, UpdateProfile, RequestReset, ChangePassword,
                ResetPassword, SignedIn, SignedOut, OnPanel, Click
  <2>2. \A c \in Browsers \ {b} : call'[c] = call[c]
    BY <1>1 DEF Clicks, Register, Login, Logout, UpdateProfile, RequestReset, ChangePassword,
                ResetPassword, Begin, End, Idle, AuthTypeOK, UsersOK
  <2> QED BY <2>1, <2>2, StrangersKept DEF AtRest, Idle
<1>2. ASSUME NEW b \in Browsers,
             AddUser(b, users) \/ StoreProfile(b, users) \/ StorePassword(b, users) \/ RenewPassword(b, users)
             \/ InvalidateOlder(b, tokens) \/ BurnTokens(b, tokens) \/ Deliver(b) \/ ReadOwner(b)
      PROVE NoStrangersToken'
  <2>1. call[b].op # "retract" /\ tokens' \subseteq tokens /\ faults' = faults
    BY <1>2 DEF AddUser, StoreProfile, StorePassword, BurnTokens, InvalidateOlder, ReadOwner,
                RenewPassword, Deliver, InvalidateFor
  <2>2. \A c \in Browsers \ {b} : call'[c] = call[c]
    BY <1>2 DEF AddUser, StoreProfile, StorePassword, BurnTokens, InvalidateOlder, ReadOwner,
                RenewPassword, Deliver, Begin, End, Idle, AuthTypeOK, UsersOK
  <2> QED BY <2>1, <2>2, StrangersKept
<1>3. ASSUME NEW b \in Browsers, IssueToken(b, tokens) PROVE NoStrangersToken'
  <2> DEFINE k == Len(links) + 1
             n == [link |-> k, user |-> call[b].id,
                   expires |-> WholeSeconds(call[b].at + 2 * Ttl)]
             c == [op |-> IF call[b].id = Stranger THEN "retract" ELSE "deliver",
                   id |-> call[b].id, link |-> k]
  <2>1. call[b].op # "retract" /\ tokens' = tokens \cup {n} /\ faults' = faults
    BY <1>3 DEF IssueToken
  <2>2. call'[b] = c /\ \A d \in Browsers \ {b} : call'[d] = call[d]
    BY <1>3 DEF IssueToken, Begin, AuthTypeOK, UsersOK
  <2>3. n.link = c.link /\ (n.user = Stranger => c.op = "retract")
    OBVIOUS
  <2> HIDE DEF n, c
  <2> QED BY <2>1, <2>2, <2>3 DEF NoStrangersToken
<1>4. ASSUME NEW b \in Browsers, TakeBack(b, tokens) PROVE NoStrangersToken'
  <2>1. faults' = faults /\ tokens' = {t \in tokens : t.user # call[b].id}
    BY <1>4 DEF TakeBack, InvalidateFor
  <2>2. \A c \in Browsers \ {b} : call'[c] = call[c]
    BY <1>4 DEF TakeBack, End, Idle, Begin, AuthTypeOK
  <2>3. CASE call[b].op = "retract"
    <3>1. call[b].id = Stranger
      BY <2>3 DEF PathInv, CallOfLink
    <3> QED BY <2>1, <3>1 DEF NoStrangersToken
  <2> QED BY <2>1, <2>2, <2>3, StrangersKept
<1>5. ASSUME faults' = faults + 1 PROVE NoStrangersToken'
  BY <1>5 DEF AuthTypeOK, UsersOK, NoStrangersToken
<1>6. ASSUME NEW b \in Browsers, NEW k \in 0 .. Len(links), OpenPage(b, k)
      PROVE NoStrangersToken'
  <2>1. call[b].op # "retract" /\ tokens' = tokens /\ faults' = faults
    BY <1>6 DEF OpenPage, AtRest, Idle
  <2>2. \A c \in Browsers \ {b} : call'[c] = call[c]
    BY <1>6 DEF OpenPage, End, Idle, Begin, AuthTypeOK, UsersOK
  <2> QED BY <2>1, <2>2, StrangersKept
<1>7. ASSUME NEW id, EditUsersFile(id) \/ Tick \/ UNCHANGED atomicVars PROVE NoStrangersToken'
  <2>1. UNCHANGED <<tokens, call, faults>>
    BY <1>7 DEF EditUsersFile, Tick, atomicVars
  <2> QED BY <2>1 DEF NoStrangersToken
<1> QED
  BY <1>1, <1>2, <1>3, <1>4, <1>5, <1>6, <1>7
     DEF AtomicNext, AtomicCall, UserCall, TokenCall, CallFails, Crash

\* Unless a step failed or the process died, the token written for an unknown
\* email does not outlive the request that wrote it, while calls do not overlap (a
\* call of the token store that read it earlier would write it back).
THEOREM StrangersLeaveNothing == ASSUME Serial PROVE AuthSpec => []NoStrangersToken
<1>1. AuthInit => NoStrangersToken
  BY DEF AuthInit, NoStrangersToken
<1> QED BY <1>1, StrangersStep, AuthTypeCorrect, PathHolds, AtomicSteps, PTL DEF AuthSpec

-----------------------------------------------------------------------------
(* Single use, while calls do not overlap.                                 *)

\* A link that has set a password has no token, or one about to be burnt; a
\* call that is about to redeem a link is the first.
UsesInv ==
    faults = 0 =>
       /\ LinkUsedOnce
       /\ \A t \in tokens :
             \/ links[t.link].uses = 0
             \/ \E b \in Browsers : call[b].op = "burn" /\ call[b].id = t.user
       /\ \A b \in Browsers :
             call[b].op \in {"redeem", "renew"} => links[call[b].link].uses = 0

\* A step that redeems nothing and burns nothing.
LEMMA UsesKept ==
    ASSUME AuthTypeOK, PathInv, UsesInv, NEW b \in Browsers, faults' = faults,
           call[b].op # "burn", \A c \in Browsers \ {b} : call'[c] = call[c],
           call'[b].op \in {"redeem", "renew"}
              => /\ call'[b].link \in 1 .. Len(links)
                 /\ faults = 0 => links[call'[b].link].uses = 0,
           tokens' \subseteq tokens, Len(links') = Len(links),
           \A j \in 1 .. Len(links) : links'[j].uses = links[j].uses
    PROVE  UsesInv'
<1> SUFFICES ASSUME faults = 0 PROVE UsesInv'
  BY DEF UsesInv
<1>1. LinkUsedOnce'
  BY DEF UsesInv, LinkUsedOnce
<1>2. \A t \in tokens' :
         \/ links'[t.link].uses = 0
         \/ \E c \in Browsers : call'[c].op = "burn" /\ call'[c].id = t.user
  BY DEF UsesInv, PathInv, TokenOfLink
<1>3. \A c \in Browsers :
         call'[c].op \in {"redeem", "renew"} => links'[call'[c].link].uses = 0
  BY DEF UsesInv, PathInv, CallOfLink
<1> QED BY <1>1, <1>2, <1>3 DEF UsesInv

LEMMA UsesStep ==
    AuthTypeOK /\ LinksInv /\ PathInv /\ UsesInv /\ [AtomicNext]_atomicVars /\ Serial => UsesInv'
<1> SUFFICES ASSUME AuthTypeOK, LinksInv, PathInv, UsesInv, [AtomicNext]_atomicVars, Serial
             PROVE UsesInv'
  OBVIOUS
<1> USE DEF sessions, stores
<1> DEFINE Elsewhere(b) == \A c \in Browsers \ {b} : call'[c] = call[c]
<1>1. ASSUME NEW b \in Browsers, NEW email, NEW p, NEW q,
             Register(b, email, p) \/ Login(b, email, p) \/ Logout(b) \/ UpdateProfile(b, email)
             \/ RequestReset(b, email) \/ ChangePassword(b, p, q)
      PROVE UsesInv'
  <2>1. AtRest(b) /\ UNCHANGED <<tokens, links, faults>>
    BY <1>1 DEF Register, Login, Logout, UpdateProfile, RequestReset, ChangePassword,
                SignedIn, SignedOut, OnPanel, Click
  <2>2. Elsewhere(b) /\ call'[b].op \notin {"redeem", "renew"}
    BY <1>1 DEF Register, Login, Logout, UpdateProfile, RequestReset, ChangePassword,
                Begin, End, Idle, AuthTypeOK, UsersOK
  <2> QED BY <2>1, <2>2, UsesKept DEF AtRest, Idle
<1>2. ASSUME NEW b \in Browsers, NEW new \in Passwords, ResetPassword(b, new) PROVE UsesInv'
  <2>1. PICK t \in tokens :
          Begin(b, [op |-> "redeem", id |-> t.user, link |-> t.link, new |-> new])
    BY <1>2 DEF ResetPassword
  <2>2. UNCHANGED <<tokens, links, faults>> /\ \A c \in Browsers : AtRest(c)
    BY <1>2 DEF ResetPassword, Click
  <2>3. \A c \in Browsers : call[c].op # "burn"
    BY <2>2 DEF AtRest, Idle
  <2>4. call'[b].link = t.link /\ Elsewhere(b)
    BY <2>1 DEF Begin, AuthTypeOK, UsersOK
  <2>5. faults = 0 => links[t.link].uses = 0
    BY <2>3 DEF UsesInv
  <2>6. t.link \in 1 .. Len(links)
    BY DEF PathInv, TokenOfLink
  <2> QED BY <2>2, <2>3, <2>4, <2>5, <2>6, UsesKept
<1>3. ASSUME NEW b \in Browsers,
             AddUser(b, users) \/ StoreProfile(b, users) \/ StorePassword(b, users)
             \/ InvalidateOlder(b, tokens) \/ TakeBack(b, tokens)
      PROVE UsesInv'
  <2>1. call[b].op # "burn" /\ tokens' \subseteq tokens /\ UNCHANGED <<links, faults>>
    BY <1>3 DEF AddUser, StoreProfile, StorePassword, InvalidateOlder, TakeBack,
                InvalidateFor
  <2>2. call[b].op = "invalidate" => [call[b] EXCEPT !.op = "issue"].op = "issue"
    <3>1. call[b].op = "invalidate"
             => call[b] = [op |-> "invalidate", id |-> call[b].id, at |-> call[b].at]
      BY CallFields DEF AuthTypeOK, UsersOK
    <3> QED BY <3>1
  <2>3. Elsewhere(b) /\ call'[b].op \notin {"redeem", "renew"}
    <3>1. CASE InvalidateOlder(b, tokens)
      BY <2>2, <3>1 DEF InvalidateOlder, Begin, AuthTypeOK, UsersOK
    <3>2. CASE End(b)
      BY <3>2 DEF End, Begin, Idle, AuthTypeOK, UsersOK
    <3> QED BY <1>3, <3>1, <3>2 DEF AddUser, StoreProfile, StorePassword, TakeBack
  <2> QED BY <2>1, <2>3, UsesKept
<1>4. ASSUME NEW b \in Browsers, IssueToken(b, tokens) PROVE UsesInv'
  <2> DEFINE k == Len(links) + 1
             l == [user |-> call[b].id, at |-> call[b].at, mailed |-> FALSE, uses |-> 0]
             n == [link |-> k, user |-> call[b].id,
                   expires |-> WholeSeconds(call[b].at + 2 * Ttl)]
  <2>1. links' = Append(links, l) /\ tokens' = tokens \cup {n} /\ faults' = faults
        /\ call[b].op = "issue"
    BY <1>4 DEF IssueToken
  <2>2. call'[b].op \in {"deliver", "retract"} /\ Elsewhere(b)
    BY <1>4 DEF IssueToken, Begin, AuthTypeOK, UsersOK
  <2>3. l.uses = 0 /\ n.link = k
    OBVIOUS
  <2> HIDE DEF l, n
  <2>4. /\ Len(links') = k /\ links'[k].uses = 0 /\ Len(links) \in Nat
        /\ \A j \in 1 .. Len(links) : links'[j] = links[j]
    BY <2>1, <2>3, LinkMinted DEF AuthTypeOK, UsersOK
  <2> SUFFICES ASSUME faults = 0 PROVE UsesInv'
    BY <2>1 DEF UsesInv
  <2>5. LinkUsedOnce'
    BY <2>4 DEF UsesInv, LinkUsedOnce
  <2>6. \A t \in tokens' :
           \/ links'[t.link].uses = 0
           \/ \E c \in Browsers : call'[c].op = "burn" /\ call'[c].id = t.user
    BY <2>1, <2>2, <2>3, <2>4 DEF UsesInv, PathInv, TokenOfLink
  <2>7. \A c \in Browsers :
           call'[c].op \in {"redeem", "renew"} => links'[call'[c].link].uses = 0
    BY <2>2, <2>4 DEF UsesInv, PathInv, CallOfLink
  <2> QED BY <2>5, <2>6, <2>7 DEF UsesInv
<1>5. ASSUME NEW b \in Browsers, Deliver(b) PROVE UsesInv'
  <2>1. call[b].op # "burn" /\ tokens' \subseteq tokens /\ faults' = faults
    BY <1>5 DEF Deliver
  <2>2. Elsewhere(b) /\ call'[b].op \notin {"redeem", "renew"}
    BY <1>5 DEF Deliver, End, Begin, Idle, AuthTypeOK, UsersOK
  <2>3. Len(links') = Len(links) /\ \A j \in 1 .. Len(links) : links'[j].uses = links[j].uses
    <3>1. call[b].link \in 1 .. Len(links)
      BY <1>5 DEF Deliver, PathInv, CallOfLink
    <3>2. CASE links' = links
      BY <3>2
    <3> QED BY <1>5, <3>1, <3>2, LinkMailed DEF Deliver
  <2> QED BY <2>1, <2>2, <2>3, UsesKept
<1>6. ASSUME NEW b \in Browsers, ReadOwner(b) PROVE UsesInv'
  <2>1. /\ call[b].op = "redeem" /\ tokens' \subseteq tokens /\ UNCHANGED <<links, faults>>
        /\ call[b].link \in 1 .. Len(links)
    BY <1>6 DEF ReadOwner, PathInv, CallOfLink
  <2>2. Elsewhere(b) /\ (call'[b].op \in {"redeem", "renew"} => call'[b].link = call[b].link)
    BY <1>6 DEF ReadOwner, Begin, End, Idle, AuthTypeOK, UsersOK
  <2>3. faults = 0 => links[call[b].link].uses = 0
    BY <2>1 DEF UsesInv
  <2> QED BY <2>1, <2>2, <2>3, UsesKept
<1>7. ASSUME NEW b \in Browsers, RenewPassword(b, users) PROVE UsesInv'
  <2> DEFINE k == call[b].link
  <2>1. /\ call[b].op = "renew" /\ UNCHANGED <<tokens, faults>>
        /\ k \in 1 .. Len(links) /\ links[k].user = call[b].id
    BY <1>7 DEF RenewPassword, PathInv, CallOfLink
  <2>2. CASE MayUpdate(users, call[b].id, call[b].account)
    <3>1. links' = [links EXCEPT ![k].uses = @ + 1] /\ Begin(b, [op |-> "burn", id |-> call[b].id])
      BY <1>7, <2>2 DEF RenewPassword
    <3>2. /\ Len(links') = Len(links) /\ links'[k].uses = links[k].uses + 1
          /\ \A j \in 1 .. Len(links) \ {k} : links'[j].uses = links[j].uses
      BY <2>1, <3>1, LinkUsed
    <3>3. call'[b].op = "burn" /\ call'[b].id = call[b].id /\ Elsewhere(b)
      BY <3>1 DEF Begin, AuthTypeOK, UsersOK
    <3>4. \A c \in Browsers \ {b} : AtRest(c)
      BY <2>1 DEF LinksInv, OneCall, AtRest, Idle
    <3> HIDE DEF k
    <3> SUFFICES ASSUME faults = 0 PROVE UsesInv'
      BY <2>1 DEF UsesInv
    <3>5. links[k].uses = 0 /\ links'[k].uses = 1
      BY <2>1, <3>2 DEF UsesInv, k
    <3>6. LinkUsedOnce'
      BY <3>2, <3>5 DEF UsesInv, LinkUsedOnce
    <3>7. ASSUME NEW t \in tokens'
          PROVE \/ links'[t.link].uses = 0
                \/ \E c \in Browsers : call'[c].op = "burn" /\ call'[c].id = t.user
      <4>1. t \in tokens /\ t.link \in 1 .. Len(links) /\ links[t.link].user = t.user
        BY <2>1 DEF PathInv, TokenOfLink
      <4>2. CASE t.link = k
        BY <2>1, <3>3, <4>1, <4>2
      <4>3. CASE t.link # k
        <5>1. \A c \in Browsers : call[c].op # "burn"
          BY <2>1, <3>4 DEF AtRest, Idle
        <5> QED BY <3>2, <4>1, <4>3, <5>1 DEF UsesInv
      <4> QED BY <4>2, <4>3
    <3>8. \A c \in Browsers : call'[c].op \notin {"redeem", "renew"}
      BY <3>3, <3>4 DEF AtRest, Idle
    <3> QED BY <3>6, <3>7, <3>8 DEF UsesInv
  <2>3. CASE ~MayUpdate(users, call[b].id, call[b].account)
    <3>1. UNCHANGED links /\ call'[b].op = "idle" /\ Elsewhere(b)
      BY <1>7, <2>3 DEF RenewPassword, End, Begin, Idle, AuthTypeOK, UsersOK
    <3> QED BY <2>1, <3>1, UsesKept
  <2> QED BY <2>2, <2>3
<1>8. ASSUME NEW b \in Browsers, BurnTokens(b, tokens) PROVE UsesInv'
  <2>1. /\ UNCHANGED <<links, faults>> /\ tokens' = {t \in tokens : t.user # call[b].id}
        /\ call'[b].op = "idle" /\ Elsewhere(b)
    BY <1>8 DEF BurnTokens, InvalidateFor, End, Begin, Idle, AuthTypeOK, UsersOK
  <2> QED BY <2>1 DEF UsesInv, LinkUsedOnce
<1>9. ASSUME faults' = faults + 1 PROVE UsesInv'
  BY <1>9 DEF AuthTypeOK, UsersOK, UsesInv
<1>10. ASSUME NEW b \in Browsers, NEW k \in 0 .. Len(links), OpenPage(b, k) PROVE UsesInv'
  <2>1. AtRest(b) /\ UNCHANGED <<tokens, links, faults>>
    BY <1>10 DEF OpenPage
  <2>2. Elsewhere(b) /\ call'[b].op = "idle"
    BY <1>10 DEF OpenPage, End, Begin, Idle, AuthTypeOK, UsersOK
  <2> QED BY <2>1, <2>2, UsesKept DEF AtRest, Idle
<1>11. ASSUME NEW id, EditUsersFile(id) \/ Tick \/ UNCHANGED atomicVars PROVE UsesInv'
  <2>1. UNCHANGED <<tokens, call, faults, links>>
    BY <1>11 DEF EditUsersFile, Tick, atomicVars
  <2> QED BY <2>1 DEF UsesInv, LinkUsedOnce
<1>12. ASSUME NEW b \in Browsers, Clicks(b) PROVE UsesInv'
  BY <1>1, <1>2, <1>12 DEF Clicks
<1> QED
  BY <1>3, <1>4, <1>5, <1>6, <1>7, <1>8, <1>9, <1>10, <1>11, <1>12
     DEF AtomicNext, AtomicCall, UserCall, TokenCall, CallFails, Crash

\* While calls do not overlap and no step has failed, no link sets two
\* passwords.
THEOREM LinksSetOnePassword == ASSUME Serial PROVE AuthSpec => []UsedOnceUnlessFaulty
<1>1. AuthInit => LinksInv /\ UsesInv
  BY DEF AuthInit, LinksInv, OneCall, AtRest, TokensHaveLinks, NoneBeforeIssue, LatestLinkOnly,
         UsesInv, LinkUsedOnce, Idle
<1>2. AuthTypeOK /\ LinksInv /\ [AtomicNext]_atomicVars => LinksInv'
  BY LinksStep
<1>3. AuthTypeOK /\ LinksInv /\ PathInv /\ UsesInv /\ [AtomicNext]_atomicVars => UsesInv'
  BY UsesStep
<1>4. UsesInv => UsedOnceUnlessFaulty
  BY DEF UsesInv, UsedOnceUnlessFaulty
<1> QED BY <1>1, <1>2, <1>3, <1>4, AuthTypeCorrect, PathHolds, AtomicSteps, PTL DEF AuthSpec

-----------------------------------------------------------------------------
(* Whose passwords and emails change, while calls do not overlap.          *)

\* What a save is about to write: a profile keeps the stored password and has
\* the email that the form shows; a password is that of the session's user,
\* whose present one was given, and it and a reset keep the stored email.
SaveOf(b) ==
    /\ call[b].op = "profile"
          => /\ form[b].email = call[b].account.email
             /\ call[b].id \in DOMAIN users
                   => users[call[b].id].password = call[b].account.password
    /\ call[b].op = "password"
          => /\ principal[b] # Guest /\ principal[b].id = call[b].id
             /\ call[b].id \in DOMAIN users
                   => Verify(users[call[b].id].password, call[b].current)
    /\ call[b].op \in {"password", "renew"}
          => (call[b].id \in DOMAIN users
                 => users[call[b].id].email = call[b].account.email)

SavesInv == \A b \in Browsers : SaveOf(b)

\* A step of one browser that begins no save.
LEMMA SavesKept ==
    ASSUME SavesInv, NEW b \in Browsers,
           \A c \in Browsers \ {b} : UNCHANGED <<call[c], principal[c], form[c]>>,
           call'[b].op \notin {"profile", "password", "renew"},
           users' = users \/ \A c \in Browsers \ {b} : AtRest(c)
    PROVE  SavesInv'
BY DEF SavesInv, SaveOf, AtRest, Idle

LEMMA SavesStep ==
    Serial /\ AuthTypeOK /\ SettingsInv /\ LinksInv /\ SavesInv /\ [AtomicNext]_atomicVars
       => SavesInv'
<1> SUFFICES ASSUME Serial, AuthTypeOK, SettingsInv, LinksInv, SavesInv, [AtomicNext]_atomicVars
             PROVE SavesInv'
  OBVIOUS
<1> USE DEF sessions, stores
<1> DEFINE Elsewhere(b) ==
             \A c \in Browsers \ {b} : UNCHANGED <<call[c], principal[c], form[c]>>
<1>1. ASSUME NEW b \in Browsers, NEW email, NEW p,
             Register(b, email, p) \/ Login(b, email, p) \/ Logout(b) \/ RequestReset(b, email)
             \/ ResetPassword(b, p)
      PROVE SavesInv'
  <2>1. users' = users
    BY <1>1 DEF Register, Login, Logout, RequestReset, ResetPassword
  <2>2. Elsewhere(b)
    BY <1>1 DEF Register, Login, SignIn, Logout, RequestReset, ResetPassword, Begin, End, Idle, AuthTypeOK, UsersOK
  <2>3. call'[b].op \notin {"profile", "password", "renew"}
    BY <1>1 DEF Register, Login, Logout, RequestReset, ResetPassword, Begin, End, Idle, AuthTypeOK, UsersOK
  <2> QED BY <2>1, <2>2, <2>3, SavesKept
<1>2. ASSUME NEW b \in Browsers, NEW email \in Emails, UpdateProfile(b, email) PROVE SavesInv'
  <2> DEFINE id == principal[b].id
             account == [users[id] EXCEPT !.email = email]
  <2>1. id \in DOMAIN users /\ UNCHANGED <<users, principal>>
        /\ Begin(b, [op |-> "profile", id |-> id, account |-> account])
    BY <1>2 DEF UpdateProfile
  <2>2. account.password = users[id].password
    BY <2>1 DEF AuthTypeOK, UsersOK, Account
  <2> HIDE DEF account, id
  <2>3. /\ call'[b].op = "profile" /\ call'[b].id = id /\ call'[b].account = account
        /\ \A c \in Browsers \ {b} : call'[c] = call[c]
    BY <2>1 DEF Begin, AuthTypeOK, UsersOK
  <2>4. form'[b].email = email /\ \A c \in Browsers \ {b} : form'[c] = form[c]
    <3>1. principal[b] # Guest /\ form[b] \in Form
      BY <1>2 DEF UpdateProfile, SignedIn, SettingsInv, SettingsOf, AuthTypeOK, UsersOK
    <3> QED BY <1>2, <3>1 DEF UpdateProfile, AuthTypeOK, UsersOK, Form
  <2>5. account.email = email
    BY <2>1 DEF account, id, AuthTypeOK, UsersOK, Account
  <2> QED BY <2>1, <2>2, <2>3, <2>4, <2>5 DEF SavesInv, SaveOf
<1>3. ASSUME NEW b \in Browsers, NEW p, NEW new, ChangePassword(b, p, new) PROVE SavesInv'
  <2>1. /\ principal[b] # Guest /\ UNCHANGED <<users, principal>>
        /\ call'[b].op = "password" /\ call'[b].id = principal[b].id
        /\ call'[b].current = p /\ Verify(users[principal[b].id].password, p)
        /\ call'[b].account = [users[principal[b].id] EXCEPT !.password = Hash(new)]
        /\ UNCHANGED form /\ \A c \in Browsers \ {b} : call'[c] = call[c]
    BY <1>3 DEF ChangePassword, SignedIn, Begin, AuthTypeOK, UsersOK
  <2>2. \A u \in DOMAIN users :
           [users[u] EXCEPT !.password = Hash(new)].email = users[u].email
    BY DEF AuthTypeOK, UsersOK, Account
  <2> DEFINE id == principal[b].id
             account == [users[id] EXCEPT !.password = Hash(new)]
  <2>3. id \in DOMAIN users => account.email = users[id].email
    BY <2>2
  <2>4. call'[b].id = id /\ call'[b].account = account
    BY <2>1
  <2> HIDE DEF account, id
  <2>5. SaveOf(b)'
    BY <2>1, <2>3, <2>4 DEF SaveOf, Verify, id
  <2>6. ASSUME NEW c \in Browsers \ {b} PROVE SaveOf(c)'
    BY <2>1 DEF SavesInv, SaveOf, Verify
  <2> QED BY <2>5, <2>6 DEF SavesInv
<1>11. ASSUME NEW b \in Browsers, ReadOwner(b) PROVE SavesInv'
  <2>1. users' = users /\ UNCHANGED <<principal, form>> /\ call[b].op = "redeem"
    BY <1>11 DEF ReadOwner
  <2>2. CASE call[b].id \in DOMAIN users
    <3>1. /\ call'[b].op = "renew" /\ call'[b].id = call[b].id
          /\ call'[b].account = [users[call[b].id] EXCEPT !.password = Hash(call[b].new)]
          /\ \A c \in Browsers \ {b} : call'[c] = call[c]
      BY <1>11, <2>2 DEF ReadOwner, Begin, AuthTypeOK, UsersOK
    <3>2. [users[call[b].id] EXCEPT !.password = Hash(call[b].new)].email = users[call[b].id].email
      BY <2>2 DEF AuthTypeOK, UsersOK, Account
    <3> QED BY <2>1, <3>1, <3>2 DEF SavesInv, SaveOf
  <2>3. CASE call[b].id \notin DOMAIN users
    <3>1. call'[b].op = "void" /\ \A c \in Browsers \ {b} : call'[c] = call[c]
      BY <1>11, <2>3 DEF ReadOwner, End, Begin, Idle, AuthTypeOK, UsersOK
    <3> QED BY <2>1, <3>1, SavesKept
  <2> QED BY <2>2, <2>3
<1>4. ASSUME NEW b \in Browsers, AtomicCall(b), ~ReadOwner(b) PROVE SavesInv'
  <2>1. ~AtRest(b)
    BY <1>4 DEF AtomicCall, UserCall, TokenCall, TakeBack, AddUser, StoreProfile, StorePassword, InvalidateOlder, IssueToken, Deliver,
                ReadOwner, RenewPassword, BurnTokens, AtRest, Idle
  <2>2. \A c \in Browsers \ {b} : AtRest(c)
    BY <2>1 DEF LinksInv, OneCall
  <2>3. \A c \in Browsers \ {b} : call'[c] = call[c]
    BY <1>4 DEF AtomicCall, UserCall, TokenCall, TakeBack, AddUser, StoreProfile, StorePassword, InvalidateOlder, IssueToken, Deliver,
                ReadOwner, RenewPassword, BurnTokens, Begin, End, Idle, AuthTypeOK, UsersOK
  <2>4. \A c \in Browsers \ {b} : UNCHANGED <<principal[c], form[c]>>
    BY <1>4 DEF AtomicCall, UserCall, TokenCall, TakeBack, AddUser, StoreProfile, StorePassword, InvalidateOlder, IssueToken, Deliver,
                ReadOwner, RenewPassword, BurnTokens, SignIn, AuthTypeOK, UsersOK
  <2>5. call'[b].op \notin {"profile", "password", "renew"}
    <3>1. CASE End(b)
      BY <3>1 DEF End, Begin, Idle, AuthTypeOK, UsersOK
    <3>2. CASE InvalidateOlder(b, tokens)
      <4>1. call[b] = [op |-> "invalidate", id |-> call[b].id, at |-> call[b].at]
        BY <3>2, CallFields DEF InvalidateOlder, AuthTypeOK, UsersOK
      <4>2. [call[b] EXCEPT !.op = "issue"].op = "issue"
        BY <4>1
      <4> QED BY <3>2, <4>2 DEF InvalidateOlder, Begin, AuthTypeOK, UsersOK
    <3>3. CASE IssueToken(b, tokens) \/ RenewPassword(b, users)
      BY <3>1, <3>3 DEF IssueToken, RenewPassword, Begin, AuthTypeOK, UsersOK
    <3> QED BY <1>4, <3>1, <3>2, <3>3 DEF AtomicCall, UserCall, TokenCall, TakeBack, AddUser, StoreProfile, StorePassword, Deliver,
                BurnTokens
  <2> QED BY <2>2, <2>3, <2>4, <2>5, SavesKept
<1>5. ASSUME NEW b \in Browsers, NEW k, CallFails(b) \/ OpenPage(b, k) PROVE SavesInv'
  <2>1. users' = users /\ Elsewhere(b)
    BY <1>5 DEF CallFails, OpenPage, End, Idle, Begin, AuthTypeOK, UsersOK
  <2>2. call'[b].op \notin {"profile", "password", "renew"}
    BY <1>5 DEF CallFails, OpenPage, End, Begin, Idle, AuthTypeOK, UsersOK
  <2> QED BY <2>1, <2>2, SavesKept
<1>6. ASSUME NEW b \in Browsers, CallFails(b) PROVE SavesInv'
  <2>1. users' = users /\ Elsewhere(b)
    BY <1>6 DEF CallFails, End, Idle, Begin, AuthTypeOK, UsersOK
  <2>2. call'[b].op \notin {"profile", "password", "renew"}
    BY <1>6 DEF CallFails, End, Begin, Idle, AuthTypeOK, UsersOK
  <2> QED BY <2>1, <2>2, SavesKept
<1>7. ASSUME NEW id, EditUsersFile(id) PROVE SavesInv'
  BY <1>7 DEF EditUsersFile, AtRest, Idle, SavesInv, SaveOf
<1>8. CASE Crash
  BY <1>8 DEF Crash, Idle, SavesInv, SaveOf
<1>9. CASE Tick \/ UNCHANGED atomicVars
  BY <1>9 DEF Tick, atomicVars, SavesInv, SaveOf
<1>10. ASSUME NEW b \in Browsers, Clicks(b) PROVE SavesInv'
  BY <1>1, <1>2, <1>3, <1>10 DEF Clicks
<1> QED
  BY <1>4, <1>5, <1>6, <1>7, <1>8, <1>9, <1>10, <1>11 DEF AtomicNext

LEMMA SavesHold == ASSUME Serial PROVE AuthSpec => []SavesInv
<1>1. AuthInit => SettingsInv /\ LinksInv /\ SavesInv
  BY DEF AuthInit, SettingsInv, SettingsOf, LinksInv, OneCall, AtRest, TokensHaveLinks,
         NoneBeforeIssue, LatestLinkOnly, SavesInv, SaveOf, Idle
<1>2. AuthTypeOK /\ SettingsInv /\ [AuthNext]_authVars => SettingsInv'
  BY SettingsStep
<1>3. AuthTypeOK /\ LinksInv /\ [AtomicNext]_atomicVars => LinksInv'
  BY LinksStep
<1>4. AuthTypeOK /\ SettingsInv /\ LinksInv /\ SavesInv /\ [AtomicNext]_atomicVars => SavesInv'
  BY SavesStep
<1> QED BY <1>1, <1>2, <1>3, <1>4, AuthTypeCorrect, AtomicSteps, PTL DEF AuthSpec

\* While calls do not overlap, no save changes the password of an account but
\* the owner's own, given the password it has, or that of the holder of a
\* mailed link.
THEOREM OwnersChangePasswords == ASSUME Serial PROVE AuthSpec => PasswordChangedByOwner
<1> DEFINE Owner ==
      \A id \in DOMAIN users \cap DOMAIN users' :
         users'[id].password # users[id].password
            => \E b \in Browsers :
                  \/ /\ call[b].op = "password" /\ principal[b] # Guest
                     /\ principal[b].id = id
                     /\ Verify(users[id].password, call[b].current)
                  \/ call[b].op = "renew" /\ links[call[b].link].user = id
                        /\ links[call[b].link].mailed
<1>1. AuthTypeOK /\ PathInv /\ SavesInv /\ [AtomicNext]_atomicVars => Owner
  <2> SUFFICES ASSUME AuthTypeOK, PathInv, SavesInv, [AtomicNext]_atomicVars,
                      NEW id \in DOMAIN users \cap DOMAIN users',
                      users'[id].password # users[id].password
               PROVE \E b \in Browsers :
                        \/ /\ call[b].op = "password" /\ principal[b] # Guest
                           /\ principal[b].id = id
                           /\ Verify(users[id].password, call[b].current)
                        \/ call[b].op = "renew" /\ links[call[b].link].user = id
                              /\ links[call[b].link].mailed
    OBVIOUS
  <2> USE DEF sessions, stores
  <2>1. users' # users
    OBVIOUS
  <2>2. ASSUME NEW b \in Browsers, AddUser(b, users) PROVE FALSE
    BY <2>2 DEF AddUser, MayAdd, Put
  <2>3. ASSUME NEW b \in Browsers, StoreProfile(b, users) PROVE FALSE
    <3>1. Put(users, call[b].id, call[b].account) /\ call[b].op = "profile"
      BY <2>1, <2>3 DEF StoreProfile
    <3>2. call[b].id = id
      BY <3>1 DEF Put
    <3> QED BY <3>1, <3>2 DEF SavesInv, SaveOf, Put
  <2>4. ASSUME NEW b \in Browsers, StorePassword(b, users)
        PROVE /\ call[b].op = "password" /\ principal[b] # Guest
              /\ principal[b].id = id
              /\ Verify(users[id].password, call[b].current)
    <3>1. Put(users, call[b].id, call[b].account) /\ call[b].op = "password"
      BY <2>1, <2>4 DEF StorePassword
    <3>2. call[b].id = id
      BY <3>1 DEF Put
    <3> QED BY <3>1, <3>2 DEF SavesInv, SaveOf
  <2>5. ASSUME NEW b \in Browsers, RenewPassword(b, users)
        PROVE /\ call[b].op = "renew" /\ links[call[b].link].user = id
              /\ links[call[b].link].mailed
    <3>1. Put(users, call[b].id, call[b].account) /\ call[b].op = "renew"
      BY <2>1, <2>5 DEF RenewPassword
    <3>2. call[b].id = id
      BY <3>1 DEF Put
    <3> QED BY <3>1, <3>2 DEF PathInv, CallOfLink
  <2>6. ASSUME NEW u \in DOMAIN users, EditUsersFile(u) PROVE FALSE
    <3>1. \A v \in DOMAIN users : [users[v] EXCEPT !.active = FALSE].password = users[v].password
      BY DEF AuthTypeOK, UsersOK, Account
    <3> QED BY <2>6, <3>1 DEF EditUsersFile
  <2>7. ASSUME NEW b \in Browsers, Clicks(b) PROVE FALSE
    BY <2>1, <2>7 DEF Clicks, Register, Login, Logout, UpdateProfile, RequestReset, ChangePassword,
                ResetPassword
  <2>8. ASSUME NEW b \in Browsers,
               TokenCall(b, tokens) \/ Deliver(b) \/ ReadOwner(b)
        PROVE FALSE
    BY <2>1, <2>8 DEF TokenCall, InvalidateOlder, IssueToken, TakeBack, Deliver, ReadOwner,
                BurnTokens
  <2>9. ASSUME NEW b \in Browsers, NEW k, OpenPage(b, k) PROVE FALSE
    BY <2>1, <2>9 DEF OpenPage
  <2>10. ASSUME NEW b \in Browsers, CallFails(b) PROVE FALSE
    BY <2>1, <2>10 DEF CallFails
  <2>11. CASE Crash \/ Tick \/ UNCHANGED atomicVars
    BY <2>1, <2>11 DEF Crash, Tick, atomicVars
  <2>12. ASSUME NEW b \in Browsers, AtomicCall(b)
         PROVE \E d \in Browsers :
                 \/ /\ call[d].op = "password" /\ principal[d] # Guest
                    /\ principal[d].id = id
                    /\ Verify(users[id].password, call[d].current)
                 \/ call[d].op = "renew" /\ links[call[d].link].user = id
                       /\ links[call[d].link].mailed
    BY <2>2, <2>3, <2>4, <2>5, <2>8, <2>12 DEF AtomicCall, UserCall
  <2> QED BY <2>6, <2>7, <2>9, <2>10, <2>11, <2>12 DEF AtomicNext
<1>5. AuthTypeOK /\ PathInv /\ SavesInv /\ [AtomicNext]_atomicVars => [Owner]_authVars
  BY <1>1 DEF atomicVars, authVars
<1> QED
  BY <1>5, AuthTypeCorrect, PathHolds, SavesHold, AtomicSteps, PTL DEF AuthSpec, PasswordChangedByOwner

\* While calls do not overlap, the email of an account changes only to what
\* the account settings of a session signed in to it show.
THEOREM OwnersChangeEmails == ASSUME Serial PROVE AuthSpec => EmailChangedByOwner
<1> DEFINE Shown ==
      \A id \in DOMAIN users \cap DOMAIN users' :
         users'[id].email # users[id].email
            => \E b \in Browsers :
                  /\ call[b].op = "profile"
                  /\ principal[b] # Guest /\ principal[b].id = id
                  /\ form[b].for = id /\ form[b].email = users'[id].email
<1>1. AuthTypeOK /\ SettingsInv /\ SavesInv /\ [AtomicNext]_atomicVars => Shown
  <2> SUFFICES ASSUME AuthTypeOK, SettingsInv, SavesInv, [AtomicNext]_atomicVars,
                      NEW id \in DOMAIN users \cap DOMAIN users',
                      users'[id].email # users[id].email
               PROVE \E b \in Browsers :
                        /\ call[b].op = "profile"
                        /\ principal[b] # Guest /\ principal[b].id = id
                        /\ form[b].for = id /\ form[b].email = users'[id].email
    OBVIOUS
  <2> USE DEF sessions, stores
  <2>1. users' # users
    OBVIOUS
  <2>2. ASSUME NEW b \in Browsers, AddUser(b, users) PROVE FALSE
    BY <2>2 DEF AddUser, MayAdd, Put
  <2>3. ASSUME NEW b \in Browsers, StoreProfile(b, users)
        PROVE /\ call[b].op = "profile"
              /\ principal[b] # Guest /\ principal[b].id = id
              /\ form[b].for = id /\ form[b].email = users'[id].email
    <3>1. Put(users, call[b].id, call[b].account) /\ call[b].op = "profile"
      BY <2>1, <2>3 DEF StoreProfile
    <3>2. call[b].id = id /\ users'[id] = call[b].account
      BY <3>1 DEF Put
    <3> QED BY <3>1, <3>2 DEF SavesInv, SaveOf, SettingsInv, SettingsOf
  <2>4. ASSUME NEW b \in Browsers, StorePassword(b, users) \/ RenewPassword(b, users) PROVE FALSE
    <3>1. Put(users, call[b].id, call[b].account) /\ call[b].op \in {"password", "renew"}
      BY <2>1, <2>4 DEF StorePassword, RenewPassword
    <3>2. call[b].id = id /\ users'[id] = call[b].account
      BY <3>1 DEF Put
    <3> QED BY <3>1, <3>2 DEF SavesInv, SaveOf
  <2>6. ASSUME NEW u \in DOMAIN users, EditUsersFile(u) PROVE FALSE
    <3>1. \A v \in DOMAIN users : [users[v] EXCEPT !.active = FALSE].email = users[v].email
      BY DEF AuthTypeOK, UsersOK, Account
    <3> QED BY <2>6, <3>1 DEF EditUsersFile
  <2>7. ASSUME NEW b \in Browsers, Clicks(b) PROVE FALSE
    BY <2>1, <2>7 DEF Clicks, Register, Login, Logout, UpdateProfile, RequestReset, ChangePassword,
                ResetPassword
  <2>8. ASSUME NEW b \in Browsers,
               TokenCall(b, tokens) \/ Deliver(b) \/ ReadOwner(b)
        PROVE FALSE
    BY <2>1, <2>8 DEF TokenCall, InvalidateOlder, IssueToken, TakeBack, Deliver, ReadOwner,
                BurnTokens
  <2>9. ASSUME NEW b \in Browsers, NEW k, OpenPage(b, k) PROVE FALSE
    BY <2>1, <2>9 DEF OpenPage
  <2>10. ASSUME NEW b \in Browsers, CallFails(b) PROVE FALSE
    BY <2>1, <2>10 DEF CallFails
  <2>11. CASE Crash \/ Tick \/ UNCHANGED atomicVars
    BY <2>1, <2>11 DEF Crash, Tick, atomicVars
  <2> QED
    BY <2>2, <2>3, <2>4, <2>6, <2>7, <2>8, <2>9, <2>10, <2>11 DEF AtomicNext, AtomicCall,
       UserCall
<1>2. AuthInit => SettingsInv
  BY DEF AuthInit, Idle, SettingsInv, SettingsOf
<1>3. AuthTypeOK /\ SettingsInv /\ [AuthNext]_authVars => SettingsInv'
  BY SettingsStep
<1>4. AuthTypeOK /\ SettingsInv /\ SavesInv /\ [AtomicNext]_atomicVars => [Shown]_authVars
  BY <1>1
<1> QED
  BY <1>2, <1>3, <1>4, AuthTypeCorrect, SavesHold, AtomicSteps, PTL DEF AuthSpec, EmailChangedByOwner

-----------------------------------------------------------------------------
(* The provider is atomic to the application, while calls do not overlap.  *)

\* What a call under way relies on still holds when it goes on.
CallReady(b) ==
    /\ call[b].op = "add"
          => /\ call[b].id \in 1 .. minted
             /\ call[b].account.active
             /\ \A t \in tokens : t.user # call[b].id
    /\ call[b].op = "profile" /\ call[b].id \in DOMAIN users
          => call[b].account = [users[call[b].id] EXCEPT !.email = call[b].account.email]
    /\ call[b].op \in {"password", "renew"} /\ call[b].id \in DOMAIN users
          => call[b].account = [users[call[b].id] EXCEPT !.password = call[b].account.password]
    /\ call[b].op = "password" => call[b].id \in DOMAIN users
    /\ call[b].op = "invalidate" /\ call[b].id # Stranger
          => call[b].id \in DOMAIN users /\ users[call[b].id].active
    /\ call[b].op = "issue" => call[b].id \in (1 .. minted) \cup {Stranger}
    /\ call[b].op \in {"retract", "void"} => call[b].id \notin DOMAIN users
    /\ call[b].op \in {"redeem", "renew"}
          => \E t \in tokens : t.link = call[b].link /\ t.user = call[b].id
    /\ call[b].op = "burn"
          => call[b].id \in DOMAIN users /\ \E t \in tokens : t.user = call[b].id

\* User ids are handed out one after the other.
IdsMinted ==
    /\ DOMAIN users \subseteq 1 .. minted
    /\ \A t \in tokens : t.user \in (1 .. minted) \cup {Stranger}

ReadyInv == IdsMinted /\ \A b \in Browsers : CallReady(b)

\* A call that rests relies on nothing.
LEMMA RestReadyNext ==
    ASSUME NEW b \in Browsers, AtRest(b)'
    PROVE  CallReady(b)'
BY DEF AtRest, Idle, CallReady

\* A step of one browser, under way or the first, that disturbs no other call.
LEMMA ReadyKept ==
    ASSUME LinksInv, NEW b \in Browsers,
           ~AtRest(b) \/ (\A c \in Browsers : AtRest(c)),
           \A c \in Browsers \ {b} : call'[c] = call[c],
           CallReady(b)', IdsMinted'
    PROVE  ReadyInv'
<1>1. \A c \in Browsers \ {b} : AtRest(c)
  BY DEF LinksInv, OneCall
<1>2. \A c \in Browsers \ {b} : AtRest(c)'
  BY <1>1 DEF AtRest
<1> QED BY <1>2, RestReadyNext DEF ReadyInv

LEMMA ReadyStep ==
    Serial /\ AuthTypeOK /\ LinksInv /\ ReadyInv /\ [AtomicNext]_atomicVars => ReadyInv'
<1> SUFFICES ASSUME Serial, AuthTypeOK, LinksInv, ReadyInv, [AtomicNext]_atomicVars
             PROVE ReadyInv'
  OBVIOUS
<1> USE DEF sessions, stores
<1> DEFINE Elsewhere(b) == \A c \in Browsers \ {b} : call'[c] = call[c]
<1>1. /\ call \in [Browsers -> Call] /\ IdsMinted /\ minted \in Nat
      /\ \A b \in Browsers : CallReady(b)
      /\ \A u \in DOMAIN users : users[u] \in Account
      /\ \A t \in tokens : t \in Token
  BY DEF AuthTypeOK, UsersOK, ReadyInv
<1>2. ASSUME NEW b \in Browsers, Clicks(b) PROVE ReadyInv'
  <2>1. /\ \A c \in Browsers : AtRest(c)
        /\ UNCHANGED <<users, tokens>>
    BY <1>2 DEF Clicks, Register, Login, Logout, UpdateProfile, RequestReset, ChangePassword,
                ResetPassword, SignedIn, SignedOut, OnPanel, Click
  <2>2. minted <= minted' /\ minted' \in Nat
    <3>1. minted' = minted \/ minted' = minted + 1
      BY <1>2 DEF Clicks, Register, Login, Logout, UpdateProfile, RequestReset,
                  ChangePassword, ResetPassword
    <3> QED BY <1>1, <3>1
  <2>3. IdsMinted'
    BY <1>1, <2>1, <2>2 DEF IdsMinted
  <2>4. Elsewhere(b) /\ CallReady(b)'
    <3>1. ASSUME End(b) PROVE Elsewhere(b) /\ CallReady(b)'
      BY <1>1, <3>1 DEF End, Begin, Idle, CallReady
    <3>2. ASSUME NEW email \in Emails, NEW p \in Passwords, Register(b, email, p)
          PROVE Elsewhere(b) /\ CallReady(b)'
      <4> DEFINE account == [email |-> email, password |-> Hash(p), active |-> TRUE]
      <4>1. /\ Elsewhere(b) /\ call'[b].op = "add" /\ call'[b].id = minted + 1
            /\ call'[b].account = account /\ minted' = minted + 1
        BY <1>1, <3>2 DEF Register, Begin
      <4>2. account.active
        OBVIOUS
      <4>3. \A t \in tokens : t.user # minted + 1
        BY <1>1, LocalAuthAssumption DEF IdsMinted
      <4> HIDE DEF account
      <4> QED BY <1>1, <2>1, <4>1, <4>2, <4>3 DEF CallReady
    <3>3. ASSUME NEW email \in Emails, UpdateProfile(b, email)
          PROVE Elsewhere(b) /\ CallReady(b)'
      <4> DEFINE id == principal[b].id
                 account == [users[id] EXCEPT !.email = email]
      <4>1. /\ Elsewhere(b) /\ call'[b].op = "profile" /\ call'[b].id = id
            /\ call'[b].account = account /\ id \in DOMAIN users
        BY <1>1, <3>3 DEF UpdateProfile, Begin
      <4>2. account = [users[id] EXCEPT !.email = account.email]
        BY <1>1, <4>1 DEF Account
      <4> HIDE DEF account, id
      <4> QED BY <2>1, <4>1, <4>2 DEF CallReady
    <3>4. ASSUME NEW p \in Passwords, NEW new \in Passwords, ChangePassword(b, p, new)
          PROVE Elsewhere(b) /\ CallReady(b)'
      <4> DEFINE id == principal[b].id
                 account == [users[id] EXCEPT !.password = Hash(new)]
      <4>1. /\ Elsewhere(b) /\ call'[b].op = "password" /\ call'[b].id = id
            /\ call'[b].account = account /\ id \in DOMAIN users
        BY <1>1, <3>4 DEF ChangePassword, Begin
      <4>2. account = [users[id] EXCEPT !.password = account.password]
        BY <1>1, <4>1 DEF Account
      <4> HIDE DEF account, id
      <4> QED BY <2>1, <4>1, <4>2 DEF CallReady
    <3>5. ASSUME NEW email \in Emails, RequestReset(b, email)
          PROVE Elsewhere(b) /\ CallReady(b)'
      <4> DEFINE id == ResetTarget(email)
      <4>1. /\ Elsewhere(b) /\ call'[b].op = "invalidate" /\ call'[b].id = id
        BY <1>1, <3>5 DEF RequestReset, Begin
      <4>2. id # Stranger => id \in DOMAIN users /\ users[id].active
        BY DEF ResetTarget
      <4> HIDE DEF id
      <4> QED BY <2>1, <4>1, <4>2 DEF CallReady
    <3>6. ASSUME NEW new \in Passwords, ResetPassword(b, new)
          PROVE Elsewhere(b) /\ CallReady(b)'
      <4>1. PICK t \in tokens :
               Begin(b, [op |-> "redeem", id |-> t.user, link |-> t.link, new |-> new])
        BY <3>6 DEF ResetPassword
      <4>2. /\ Elsewhere(b) /\ call'[b].op = "redeem"
            /\ call'[b].id = t.user /\ call'[b].link = t.link
        BY <1>1, <4>1 DEF Begin
      <4> QED BY <2>1, <4>2 DEF CallReady
    <3>7. ASSUME NEW email \in Emails, NEW p \in Passwords, Login(b, email, p)
          PROVE Elsewhere(b) /\ CallReady(b)'
      BY <3>1, <3>7 DEF Login
    <3>8. ASSUME Logout(b) PROVE Elsewhere(b) /\ CallReady(b)'
      BY <3>1, <3>8 DEF Logout
    <3> HIDE DEF Elsewhere
    <3> QED BY <1>2, <3>2, <3>3, <3>4, <3>5, <3>6, <3>7, <3>8 DEF Clicks
  <2> QED BY <2>1, <2>3, <2>4, ReadyKept
<1>3. ASSUME NEW b \in Browsers, AddUser(b, users) \/ StoreProfile(b, users) \/ StorePassword(b, users)
      PROVE ReadyInv'
  <2>1. ~AtRest(b) /\ tokens' = tokens /\ minted' = minted
    BY <1>3 DEF AddUser, StoreProfile, StorePassword, AtRest, Idle
  <2>2. Elsewhere(b) /\ AtRest(b)'
    BY <1>1, <1>3 DEF AddUser, StoreProfile, StorePassword, End, Idle, Begin, AtRest
  <2>3. DOMAIN users' \subseteq DOMAIN users \cup {call[b].id}
    BY <1>3 DEF AddUser, StoreProfile, StorePassword, Put
  <2>4. DOMAIN users' \subseteq 1 .. minted
    <3>1. CASE AddUser(b, users)
      BY <1>1, <2>3, <3>1 DEF AddUser, CallReady, IdsMinted
    <3>2. CASE StoreProfile(b, users) \/ StorePassword(b, users)
      <4>1. DOMAIN users' = DOMAIN users
        BY <3>2 DEF StoreProfile, StorePassword, Put, MayUpdate
      <4> QED BY <1>1, <4>1 DEF IdsMinted
    <3> QED BY <1>3, <3>1, <3>2
  <2>5. IdsMinted'
    BY <1>1, <2>1, <2>4 DEF IdsMinted
  <2> QED BY <2>1, <2>2, <2>5, ReadyKept, RestReadyNext
<1>4. ASSUME NEW b \in Browsers, Deliver(b) \/ TakeBack(b, tokens) \/ BurnTokens(b, tokens)
      PROVE ReadyInv'
  <2>1. ~AtRest(b) /\ tokens' \subseteq tokens /\ minted' = minted /\ users' = users
    BY <1>4 DEF Deliver, TakeBack, BurnTokens, InvalidateFor, AtRest, Idle
  <2>2. Elsewhere(b) /\ AtRest(b)'
    BY <1>1, <1>4 DEF Deliver, TakeBack, BurnTokens, End, Idle, Begin, AtRest
  <2>3. IdsMinted'
    BY <1>1, <2>1 DEF IdsMinted
  <2> QED BY <2>1, <2>2, <2>3, ReadyKept, RestReadyNext
<1>5. ASSUME NEW b \in Browsers, InvalidateOlder(b, tokens) PROVE ReadyInv'
  <2>1. /\ ~AtRest(b) /\ call[b].op = "invalidate"
        /\ tokens' \subseteq tokens /\ minted' = minted /\ users' = users
    BY <1>5 DEF InvalidateOlder, InvalidateFor, AtRest, Idle
  <2>2. IdsMinted'
    BY <1>1, <2>1 DEF IdsMinted
  <2>3. call[b] = [op |-> "invalidate", id |-> call[b].id, at |-> call[b].at]
    BY <1>1, <2>1, CallFields
  <2>4. LET c == [call[b] EXCEPT !.op = "issue"] IN c.op = "issue" /\ c.id = call[b].id
    BY <2>3
  <2>5. call'[b].op = "issue" /\ call'[b].id = call[b].id /\ Elsewhere(b)
    BY <1>1, <1>5, <2>4 DEF InvalidateOlder, Begin
  <2>6. call[b].id \in (1 .. minted) \cup {Stranger}
    BY <1>1, <2>1 DEF CallReady, IdsMinted
  <2>7. CallReady(b)'
    BY <2>1, <2>5, <2>6 DEF CallReady
  <2> QED BY <2>1, <2>2, <2>5, <2>7, ReadyKept
<1>6. ASSUME NEW b \in Browsers, IssueToken(b, tokens) PROVE ReadyInv'
  <2> DEFINE k == Len(links) + 1
             n == [link |-> k, user |-> call[b].id,
                   expires |-> WholeSeconds(call[b].at + 2 * Ttl)]
             op == IF call[b].id = Stranger THEN "retract" ELSE "deliver"
  <2>1. /\ ~AtRest(b) /\ call[b].op = "issue" /\ tokens' = tokens \cup {n}
        /\ minted' = minted /\ users' = users
        /\ Begin(b, [op |-> op, id |-> call[b].id, link |-> k])
    BY <1>6 DEF IssueToken, AtRest, Idle
  <2>2. /\ n.user = call[b].id /\ op \in {"retract", "deliver"}
        /\ op = "retract" => call[b].id = Stranger
    OBVIOUS
  <2>5. Stranger \notin DOMAIN users
    BY LocalAuthAssumption DEF AuthTypeOK, UsersOK, UserIds
  <2> HIDE DEF n, k, op
  <2>3. IdsMinted'
    BY <1>1, <2>1, <2>2 DEF IdsMinted, CallReady
  <2>6. call'[b].op = op /\ call'[b].id = call[b].id /\ Elsewhere(b)
    BY <1>1, <2>1 DEF Begin
  <2>4. Elsewhere(b) /\ CallReady(b)'
    BY <2>1, <2>2, <2>5, <2>6 DEF CallReady
  <2> QED BY <2>1, <2>3, <2>4, ReadyKept
<1>7. ASSUME NEW b \in Browsers, ReadOwner(b) PROVE ReadyInv'
  <2> DEFINE id == call[b].id
  <2>1. /\ ~AtRest(b) /\ call[b].op = "redeem" /\ users' = users /\ minted' = minted
        /\ tokens' \subseteq tokens
    BY <1>7 DEF ReadOwner, AtRest, Idle
  <2>2. IdsMinted'
    BY <1>1, <2>1 DEF IdsMinted
  <2>3. CASE id \in DOMAIN users
    <3> DEFINE account == [users[id] EXCEPT !.password = Hash(call[b].new)]
    <3>1. /\ call'[b].op = "renew" /\ call'[b].id = id /\ call'[b].link = call[b].link
          /\ call'[b].account = account /\ Elsewhere(b) /\ tokens' = tokens
      BY <1>1, <1>7, <2>3 DEF ReadOwner, Begin
    <3>2. account = [users[id] EXCEPT !.password = account.password]
      BY <1>1, <2>3 DEF Account
    <3>3. \E t \in tokens : t.link = call[b].link /\ t.user = id
      BY <1>1, <2>1 DEF CallReady
    <3> HIDE DEF account, id
    <3>4. CallReady(b)'
      BY <2>1, <3>1, <3>2, <3>3 DEF CallReady
    <3> QED BY <2>1, <2>2, <3>1, <3>4, ReadyKept
  <2>4. CASE id \notin DOMAIN users
    <3>1. Elsewhere(b) /\ call'[b].op = "void" /\ call'[b].id = id
      BY <1>1, <1>7, <2>4 DEF ReadOwner, Begin
    <3>2. CallReady(b)'
      BY <2>1, <2>4, <3>1 DEF CallReady
    <3> QED BY <2>1, <2>2, <3>1, <3>2, ReadyKept
  <2> QED BY <2>3, <2>4
<1>8. ASSUME NEW b \in Browsers, RenewPassword(b, users) PROVE ReadyInv'
  <2> DEFINE id == call[b].id
  <2>1. /\ ~AtRest(b) /\ call[b].op = "renew" /\ minted' = minted /\ tokens' = tokens
    BY <1>8 DEF RenewPassword, AtRest, Idle
  <2>2. CASE MayUpdate(users, id, call[b].account)
    <3>1. /\ call'[b].op = "burn" /\ call'[b].id = id /\ Elsewhere(b)
          /\ DOMAIN users' = DOMAIN users /\ id \in DOMAIN users
      BY <1>1, <1>8, <2>2 DEF RenewPassword, Begin, Put, MayUpdate
    <3>2. IdsMinted'
      BY <1>1, <2>1, <3>1 DEF IdsMinted
    <3>3. \E t \in tokens : t.user = id
      BY <1>1, <2>1 DEF CallReady
    <3> HIDE DEF id
    <3>4. CallReady(b)'
      BY <2>1, <3>1, <3>3 DEF CallReady
    <3> QED BY <2>1, <3>1, <3>2, <3>4, ReadyKept
  <2>3. CASE ~MayUpdate(users, id, call[b].account)
    <3>1. Elsewhere(b) /\ AtRest(b)' /\ users' = users
      BY <1>1, <1>8, <2>3 DEF RenewPassword, End, Idle, Begin, AtRest
    <3>2. IdsMinted'
      BY <1>1, <2>1, <3>1 DEF IdsMinted
    <3> QED BY <2>1, <3>1, <3>2, ReadyKept, RestReadyNext
  <2> QED BY <2>2, <2>3
<1>9. ASSUME NEW b \in Browsers, NEW k, OpenPage(b, k) \/ CallFails(b) PROVE ReadyInv'
  <2>1. UNCHANGED <<users, tokens, minted>> /\ Elsewhere(b) /\ AtRest(b)'
    BY <1>1, <1>9 DEF OpenPage, CallFails, End, Idle, Begin, AtRest
  <2>2. \A c \in Browsers \ {b} : CallReady(c)'
    BY <1>1, <2>1 DEF CallReady
  <2> QED BY <1>1, <2>1, <2>2, RestReadyNext DEF ReadyInv, IdsMinted
<1>10. ASSUME NEW id \in DOMAIN users, EditUsersFile(id) PROVE ReadyInv'
  <2>1. /\ \A c \in Browsers : AtRest(c)'
        /\ DOMAIN users' \subseteq DOMAIN users /\ UNCHANGED <<tokens, minted>>
    BY <1>10 DEF EditUsersFile, AtRest
  <2> QED BY <1>1, <2>1, RestReadyNext DEF ReadyInv, IdsMinted
<1>11. CASE Crash
  <2>1. (\A c \in Browsers : AtRest(c)') /\ UNCHANGED <<users, tokens, minted>>
    BY <1>11 DEF Crash, AtRest
  <2> QED BY <1>1, <2>1, RestReadyNext DEF ReadyInv, IdsMinted
<1>12. CASE Tick \/ UNCHANGED atomicVars
  BY <1>12 DEF Tick, atomicVars, ReadyInv, IdsMinted, CallReady
<1>13. ASSUME NEW b \in Browsers, NEW k \in 0 .. Len(links), OpenPage(b, k) PROVE ReadyInv'
  BY <1>9, <1>13
<1> QED
  BY <1>2, <1>3, <1>4, <1>5, <1>6, <1>7, <1>8, <1>9, <1>10, <1>11, <1>12, <1>13
     DEF AtomicNext, AtomicCall, UserCall, TokenCall

THEOREM CallsStayReady == ASSUME Serial PROVE AuthSpec => []ReadyInv
<1>1. AuthInit => LinksInv /\ ReadyInv
  BY DEF AuthInit, LinksInv, OneCall, AtRest, TokensHaveLinks, NoneBeforeIssue, LatestLinkOnly,
         ReadyInv, IdsMinted, CallReady, Idle
<1>2. AuthTypeOK /\ LinksInv /\ [AtomicNext]_atomicVars => LinksInv'
  BY LinksStep
<1>3. AuthTypeOK /\ LinksInv /\ ReadyInv /\ [AtomicNext]_atomicVars => ReadyInv'
  BY ReadyStep
<1> QED BY <1>1, <1>2, <1>3, AuthTypeCorrect, AtomicSteps, PTL DEF AuthSpec

\* What ValidLinks and SpentLinks have in them, before and after a step.
LEMMA LinkMembers ==
    /\ \A l : l \in ValidLinks <=>
          \/ \E t \in tokens : t.user \in DOMAIN users /\ ~Burning(t.user) /\ l = LinkOf(t)
          \/ \E b \in Browsers : /\ call[b].op = "issue" /\ call[b].id \in DOMAIN users
                                 /\ l = [link |-> Len(links) + 1, user |-> call[b].id]
    /\ \A l : l \in SpentLinks <=>
          \E t \in tokens : t.user \in DOMAIN users /\ Burning(t.user) /\ l = LinkOf(t)
BY DEF ValidLinks, SpentLinks

LEMMA LinkMembersNext ==
    /\ \A l : l \in ValidLinks' <=>
          \/ \E t \in tokens' : t.user \in DOMAIN users' /\ ~Burning(t.user)' /\ l = LinkOf(t)
          \/ \E b \in Browsers : /\ call'[b].op = "issue" /\ call'[b].id \in DOMAIN users'
                                 /\ l = [link |-> Len(links') + 1, user |-> call'[b].id]
    /\ \A l : l \in SpentLinks' <=>
          \E t \in tokens' : t.user \in DOMAIN users' /\ Burning(t.user)' /\ l = LinkOf(t)
BY DEF ValidLinks, SpentLinks, LinkOf

LEMMA LinkFields ==
    ASSUME NEW t
    PROVE  LinkOf(t).link = t.link /\ LinkOf(t).user = t.user
BY DEF LinkOf

\* Where no reset is about to delete tokens, none is spent.
LEMMA NoneSpent ==
    /\ (\A b \in Browsers : call[b].op # "burn") => SpentLinks = {}
    /\ (\A b \in Browsers : call'[b].op # "burn") => SpentLinks' = {}
<1>1. (\A b \in Browsers : call[b].op # "burn") => \A id : ~Burning(id)
  BY DEF Burning
<1>2. (\A b \in Browsers : call'[b].op # "burn") => \A id : ~Burning(id)'
  BY DEF Burning
<1>3. (\A b \in Browsers : call[b].op # "burn") => \A l : l \notin SpentLinks
  BY <1>1, LinkMembers
<1>4. (\A b \in Browsers : call'[b].op # "burn") => \A l : l \notin SpentLinks'
  BY <1>2, LinkMembersNext
<1> QED BY <1>3, <1>4

\* A step that begins and ends nothing the provider's links depend on.
LEMMA LinksUndisturbed ==
    ASSUME \A t \in tokens : t.user \in DOMAIN users' <=> t.user \in DOMAIN users,
           \A t \in tokens : t.user \in DOMAIN users => t \in tokens',
           \A t \in tokens' : t.user \in DOMAIN users' => t \in tokens,
           Len(links') = Len(links),
           \A b \in Browsers :
              \/ call'[b] = call[b] /\ (call[b].op # "issue" \/ users' = users)
              \/ call[b].op \notin {"issue", "burn"} /\ call'[b].op \notin {"issue", "burn"}
    PROVE  ValidLinks' = ValidLinks /\ SpentLinks' = SpentLinks
<1>1. \A id : Burning(id)' <=> Burning(id)
  BY DEF Burning
<1>2. \A l : l \in SpentLinks' <=> l \in SpentLinks
  BY <1>1, LinkMembers, LinkMembersNext
<1>3. \A l : (\E b \in Browsers : /\ call'[b].op = "issue" /\ call'[b].id \in DOMAIN users'
                                 /\ l = [link |-> Len(links') + 1, user |-> call'[b].id])
         <=> (\E b \in Browsers : /\ call[b].op = "issue" /\ call[b].id \in DOMAIN users
                                  /\ l = [link |-> Len(links) + 1, user |-> call[b].id])
  OBVIOUS
<1>4. \A l : (\E t \in tokens' : t.user \in DOMAIN users' /\ ~Burning(t.user)' /\ l = LinkOf(t))
         <=> (\E t \in tokens : t.user \in DOMAIN users /\ ~Burning(t.user) /\ l = LinkOf(t))
  BY <1>1
<1>5. \A l : l \in ValidLinks' <=> l \in ValidLinks
  BY <1>3, <1>4, LinkMembers, LinkMembersNext
<1> QED BY <1>2, <1>5

\* What Offers has in it, before and after a step.
LEMMA OfferMembers ==
    /\ \A o : o \in Offers <=>
          \E b \in Browsers : /\ call[b].op = "password"
                             /\ o = [user |-> call[b].id, current |-> Hash(call[b].current)]
    /\ \A o : o \in Offers' <=>
          \E b \in Browsers : /\ call'[b].op = "password"
                             /\ o = [user |-> call'[b].id, current |-> Hash(call'[b].current)]
BY DEF Offers, Hash

\* A step that begins and ends no change of a password.
LEMMA OffersKept ==
    ASSUME \A b \in Browsers :
              call'[b] = call[b] \/ (call[b].op # "password" /\ call'[b].op # "password")
    PROVE  Offers' = Offers
<1>1. \A o : o \in Offers' <=> o \in Offers
  BY OfferMembers
<1> QED BY <1>1

LEMMA NoOffers ==
    ASSUME \A b \in Browsers : AtRest(b)'
    PROVE  Offers' = {}
<1>1. \A o : o \notin Offers'
  BY OfferMembers DEF AtRest, Idle
<1> QED BY <1>1

\* The account that Put stores, when it is there already.
LEMMA PutChanges ==
    ASSUME NEW id \in DOMAIN users, NEW account, Put(users, id, account), AuthTypeOK
    PROVE  users' = [users EXCEPT ![id] = account]
BY DEF Put, AuthTypeOK, UsersOK

ProviderInv == AuthTypeOK /\ EmailsUnique /\ LinksInv /\ SavesInv /\ ReadyInv

\* The links there are when the one call under way neither issues nor burns.
LEMMA PlainLinks ==
    ASSUME LinksInv, NEW b \in Browsers, ~AtRest(b), call[b].op \notin {"issue", "burn"}
    PROVE  /\ \A c \in Browsers : call[c].op \notin {"issue", "burn"}
           /\ SpentLinks = {}
           /\ \A l : l \in ValidLinks <=>
                 \E t \in tokens : t.user \in DOMAIN users /\ l = LinkOf(t)
<1>1. \A c \in Browsers : call[c].op \notin {"issue", "burn"}
  BY DEF LinksInv, OneCall, AtRest, Idle
<1>2. \A id : ~Burning(id)
  BY <1>1 DEF Burning
<1> QED BY <1>1, <1>2, NoneSpent, LinkMembers

\* While the one call under way rests the next moment, the links are the
\* tokens of the accounts there are.
LEMMA RestingLinks ==
    ASSUME \A c \in Browsers : AtRest(c)'
    PROVE  /\ SpentLinks' = {}
           /\ \A l : l \in ValidLinks' <=>
                 \E t \in tokens' : t.user \in DOMAIN users' /\ l = LinkOf(t)
<1>1. \A c \in Browsers : call'[c].op \notin {"issue", "burn"}
  BY DEF AtRest, Idle
<1>2. \A id : ~Burning(id)'
  BY <1>1 DEF Burning
<1> QED BY <1>1, <1>2, NoneSpent, LinkMembersNext

\* The one call under way ends or dies: all rest.
LEMMA RestAfter ==
    ASSUME LinksInv, NEW b \in Browsers, ~AtRest(b), AtRest(b)',
           \A c \in Browsers \ {b} : call'[c] = call[c]
    PROVE  \A c \in Browsers : AtRest(c)'
BY DEF LinksInv, OneCall, AtRest

\* A call that dies where it is takes no step of the provider with it.
LEMMA CallDies ==
    ASSUME ProviderInv, NEW b \in Browsers, ~AtRest(b),
           \A c \in Browsers : AtRest(c)',
           UNCHANGED <<users, tokens, links>>, faults' = faults + 1
    PROVE  Provider!Failure
<1> DEFINE id == call[b].id
           IsLink(l, t) == t.user \in DOMAIN users /\ l = LinkOf(t)
<1>0. Offers' \subseteq Offers
  BY NoOffers
<1>1. SpentLinks' = {} /\ \A l : l \in ValidLinks' <=> \E t \in tokens : IsLink(l, t)
  BY RestingLinks
<1>2. \A c \in Browsers \ {b} : AtRest(c) /\ call[c].op \notin {"issue", "burn"}
  BY DEF ProviderInv, LinksInv, OneCall, AtRest, Idle
<1>3. CASE call[b].op \notin {"issue", "burn"}
  <2>1. \A l : l \in ValidLinks' <=> l \in ValidLinks
    BY <1>1, <1>3, PlainLinks DEF ProviderInv
  <2> QED BY <1>0, <1>1, <2>1 DEF Provider!Failure
<1>4. CASE call[b].op = "issue"
  <2> DEFINE n == [link |-> Len(links) + 1, user |-> id]
  <2>1. \A u : ~Burning(u)
    BY <1>2, <1>4 DEF Burning
  <2>2. \A l : l \in ValidLinks <=>
           (\E t \in tokens : IsLink(l, t)) \/ (id \in DOMAIN users /\ l = n)
    BY <1>2, <1>4, <2>1, LinkMembers
  <2>3. CASE id \notin DOMAIN users
    <3>1. \A l : l \in ValidLinks' <=> l \in ValidLinks
      BY <1>1, <2>2, <2>3
    <3> QED BY <1>0, <1>1, <3>1 DEF Provider!Failure
  <2>4. CASE id \in DOMAIN users
    <3>1. \A t \in tokens : LinkOf(t).user # id
      BY <1>4, LinkFields DEF ProviderInv, LinksInv, NoneBeforeIssue
    <3>2. n.user = id
      OBVIOUS
    <3>3. \A l : l \in ValidLinks' <=> l \in ValidLinks /\ l.user # id
      BY <1>1, <2>2, <3>1, <3>2
    <3>4. ValidLinks' = ValidLinks \ Provider!LinksOf(id)
      BY <3>3 DEF Provider!LinksOf
    <3> QED BY <1>0, <1>1, <2>4, <3>4 DEF Provider!Failure
  <2> QED BY <2>3, <2>4
<1>5. CASE call[b].op = "burn"
  <2>1. \A c \in Browsers : call[c].op # "issue"
    BY <1>2, <1>5
  <2>2. \A l : l \in ValidLinks' <=> l \in ValidLinks \/ l \in SpentLinks
    BY <1>1, <2>1, LinkMembers
  <2>3. ValidLinks' = ValidLinks \cup SpentLinks
    BY <2>2
  <2> QED BY <1>0, <1>1, <2>3 DEF Provider!Failure
<1> QED BY <1>3, <1>4, <1>5

\* The steps of a call that store an account.
LEMMA AddUserRegisters ==
    ASSUME ProviderInv, NEW b \in Browsers, AddUser(b, users)
    PROVE  [Provider!ProviderNext]_(Provider!providerVars)
<1> DEFINE id == call[b].id
           account == call[b].account
<1>1. /\ ~AtRest(b) /\ call[b].op = "add" /\ UNCHANGED <<tokens, links, faults>>
      /\ call' = [call EXCEPT ![b] = Idle] /\ call \in [Browsers -> Call]
  BY DEF AddUser, AtRest, Idle, End, Begin, ProviderInv, AuthTypeOK, UsersOK
<1>2. id \in UserIds /\ account \in Account /\ account.active /\ \A t \in tokens : t.user # id
  BY <1>1, CallFields DEF ProviderInv, ReadyInv, CallReady
<1>3. \A c \in Browsers : AtRest(c)'
  BY <1>1, RestAfter DEF AtRest, ProviderInv
<1>9. Offers' = Offers
  BY <1>1, OffersKept DEF Idle
<1>4. /\ SpentLinks = {} /\ SpentLinks' = {}
      /\ Offers' = Offers
      /\ \A l : l \in ValidLinks <=> \E t \in tokens : t.user \in DOMAIN users /\ l = LinkOf(t)
      /\ \A l : l \in ValidLinks' <=> \E t \in tokens : t.user \in DOMAIN users' /\ l = LinkOf(t)
  BY <1>1, <1>3, <1>9, PlainLinks, RestingLinks DEF ProviderInv
<1>5. CASE ~MayAdd(users, id, account)
  <2>1. users' = users
    BY <1>5 DEF AddUser
  <2>2. ValidLinks' = ValidLinks
    BY <1>4, <2>1
  <2> QED BY <1>1, <1>4, <2>1, <2>2 DEF Provider!providerVars
<1>6. CASE MayAdd(users, id, account)
  <2>1. /\ id \notin DOMAIN users /\ ~Provider!Taken(account.email, id)
        /\ users' = [u \in DOMAIN users \cup {id} |-> IF u = id THEN account ELSE users[u]]
    BY <1>6 DEF AddUser, MayAdd, EmailTaken, Put, Provider!Taken
  <2>2. \A t \in tokens : t.user \in DOMAIN users' <=> t.user \in DOMAIN users
    BY <1>2, <2>1
  <2>3. ValidLinks' = ValidLinks
    BY <1>4, <2>2
  <2>4. Provider!LinksOf(id) = {}
    BY <1>2, <1>4, LinkFields DEF Provider!LinksOf
  <2>5. /\ account = [email |-> account.email, password |-> account.password, active |-> TRUE]
        /\ account.email \in Emails /\ account.password \in {Hash(p) : p \in Passwords}
    BY <1>2 DEF Account
  <2>6. Provider!Register(id, account.email, account.password)
    BY <1>1, <1>4, <2>1, <2>3, <2>4, <2>5 DEF Provider!Register, Provider!Free
  <2> QED BY <1>2, <2>5, <2>6 DEF Provider!ProviderNext
<1> QED BY <1>5, <1>6

LEMMA StoreProfileUpdates ==
    ASSUME ProviderInv, NEW b \in Browsers, StoreProfile(b, users)
    PROVE  [Provider!ProviderNext]_(Provider!providerVars)
<1> DEFINE id == call[b].id
           account == call[b].account
<1>1. /\ ~AtRest(b) /\ call[b].op = "profile" /\ UNCHANGED <<tokens, links, faults>>
      /\ call' = [call EXCEPT ![b] = Idle] /\ call \in [Browsers -> Call]
  BY DEF StoreProfile, AtRest, Idle, End, Begin, ProviderInv, AuthTypeOK, UsersOK
<1>2. id \in UserIds /\ account \in Account
  BY <1>1, CallFields
<1>3. \A c \in Browsers : AtRest(c)'
  BY <1>1, RestAfter DEF AtRest, ProviderInv
<1>9. Offers' = Offers
  BY <1>1, OffersKept DEF Idle
<1>4. /\ SpentLinks = {} /\ SpentLinks' = {}
      /\ Offers' = Offers
      /\ \A l : l \in ValidLinks <=> \E t \in tokens : t.user \in DOMAIN users /\ l = LinkOf(t)
      /\ \A l : l \in ValidLinks' <=> \E t \in tokens : t.user \in DOMAIN users' /\ l = LinkOf(t)
  BY <1>1, <1>3, <1>9, PlainLinks, RestingLinks DEF ProviderInv
<1>5. DOMAIN users' = DOMAIN users
  BY DEF StoreProfile, MayUpdate, Put
<1>6. ValidLinks' = ValidLinks
  BY <1>4, <1>5
<1>7. CASE ~MayUpdate(users, id, account)
  <2>1. users' = users
    BY <1>7 DEF StoreProfile
  <2> QED BY <1>1, <1>4, <1>6, <2>1 DEF Provider!providerVars
<1>8. CASE MayUpdate(users, id, account)
  <2>1. id \in DOMAIN users /\ ~Provider!Taken(account.email, id) /\ Put(users, id, account)
    BY <1>8 DEF StoreProfile, MayUpdate, EmailTaken, Provider!Taken
  <2>2. users' = [users EXCEPT ![id] = account]
    BY <2>1, PutChanges DEF ProviderInv
  <2>3. account = [users[id] EXCEPT !.email = account.email]
    BY <1>1, <2>1 DEF ProviderInv, ReadyInv, CallReady
  <2>4. users' = [users EXCEPT ![id].email = account.email]
    BY <2>2, <2>3
  <2>5. Provider!UpdateProfile(id, account.email)
    BY <1>1, <1>4, <1>6, <2>1, <2>4 DEF Provider!UpdateProfile, Provider!Free
  <2> QED BY <1>2, <2>5 DEF Provider!ProviderNext, Account
<1> QED BY <1>7, <1>8

\* Nothing keeps a password from being stored: the account is there still,
\* and nobody else has its email.
LEMMA StorePasswordChanges ==
    ASSUME ProviderInv, NEW b \in Browsers, StorePassword(b, users)
    PROVE  [Provider!ProviderNext]_(Provider!providerVars)
<1> DEFINE id == call[b].id
           account == call[b].account
           o == [user |-> id, current |-> Hash(call[b].current)]
<1>1. /\ ~AtRest(b) /\ call[b].op = "password" /\ UNCHANGED <<tokens, links, faults>>
      /\ call' = [call EXCEPT ![b] = Idle] /\ call \in [Browsers -> Call]
  BY DEF StorePassword, AtRest, Idle, End, Begin, ProviderInv, AuthTypeOK
<1>2. id \in UserIds /\ account \in Account /\ call[b].current \in Passwords
  BY <1>1, CallFields
<1>3. \A c \in Browsers : AtRest(c)'
  BY <1>1, RestAfter DEF AtRest, ProviderInv
<1>4. /\ SpentLinks = {} /\ SpentLinks' = {}
      /\ \A l : l \in ValidLinks <=> \E t \in tokens : t.user \in DOMAIN users /\ l = LinkOf(t)
      /\ \A l : l \in ValidLinks' <=> \E t \in tokens : t.user \in DOMAIN users' /\ l = LinkOf(t)
  BY <1>1, <1>3, PlainLinks, RestingLinks DEF ProviderInv
<1>5. /\ id \in DOMAIN users /\ users[id].email = account.email
      /\ Verify(users[id].password, call[b].current)
      /\ account = [users[id] EXCEPT !.password = account.password]
  BY <1>1 DEF ProviderInv, ReadyInv, CallReady, SavesInv, SaveOf
<1>6. MayUpdate(users, id, account)
  BY <1>5 DEF MayUpdate, EmailTaken, ProviderInv, EmailsUnique
<1>7. DOMAIN users' = DOMAIN users /\ Put(users, id, account)
  BY <1>6 DEF StorePassword, MayUpdate, Put
<1>8. ValidLinks' = ValidLinks
  BY <1>4, <1>7
<1>9. users' = [users EXCEPT ![id] = account]
  BY <1>5, <1>7, PutChanges DEF ProviderInv
<1>10. users' = [users EXCEPT ![o.user].password = account.password]
  BY <1>5, <1>9
<1>11. Offers = {o} /\ Offers' = {}
  <2>1. \A c \in Browsers \ {b} : call[c].op # "password"
    BY <1>1 DEF ProviderInv, LinksInv, OneCall, AtRest, Idle
  <2>2. \A x : x \in Offers <=> x = o
    BY <1>1, <2>1, OfferMembers
  <2> QED BY <1>3, <2>2, NoOffers
<1>12. users[o.user].password = o.current
  <2>1. users[id].password \in {Hash(p) : p \in Passwords}
    BY <1>5 DEF ProviderInv, AuthTypeOK, UsersOK, Account
  <2>2. PICK p \in Passwords : users[id].password = Hash(p)
    BY <2>1
  <2>3. Hash(p).hashOf = p
    BY DEF Hash
  <2> QED BY <1>5, <2>2, <2>3 DEF Verify
<1>13. o.user \in DOMAIN users /\ Offers' = Offers \ {o} /\ o \in Offers
  BY <1>5, <1>11
<1> HIDE DEF o
<1>14. Provider!ChangePassword(o, account.password)
  BY <1>1, <1>4, <1>8, <1>10, <1>12, <1>13 DEF Provider!ChangePassword, Provider!Free
<1>15. account.password \in {Hash(p) : p \in Passwords}
  BY <1>2 DEF Account
<1> QED BY <1>13, <1>14, <1>15 DEF Provider!ProviderNext

\* A request takes effect when the older tokens go.
LEMMA InvalidateOlderRequests ==
    ASSUME ProviderInv, NEW b \in Browsers, InvalidateOlder(b, tokens)
    PROVE  [Provider!ProviderNext]_(Provider!providerVars)
<1> DEFINE id == call[b].id
           n == [link |-> Len(links) + 1, user |-> id]
<1>1. /\ ~AtRest(b) /\ call[b].op = "invalidate" /\ UNCHANGED <<users, links, faults>>
      /\ tokens' = {t \in tokens : t.user # id}
      /\ call' = [call EXCEPT ![b] = [call[b] EXCEPT !.op = "issue"]]
      /\ call \in [Browsers -> Call]
  BY DEF InvalidateOlder, InvalidateFor, AtRest, Idle, Begin, ProviderInv, AuthTypeOK, UsersOK
<1>2. call[b] = [op |-> "invalidate", id |-> id, at |-> call[b].at]
  BY <1>1, CallFields
<1>3. [call[b] EXCEPT !.op = "issue"] = [op |-> "issue", id |-> id, at |-> call[b].at]
  BY <1>2
<1>4. call'[b] = [op |-> "issue", id |-> id, at |-> call[b].at]
  BY <1>1, <1>3
<1>5. \A c \in Browsers \ {b} : call'[c] = call[c] /\ call[c].op \notin {"issue", "burn"}
  BY <1>1 DEF ProviderInv, LinksInv, OneCall, AtRest, Idle
<1>6. call'[b].op = "issue" /\ call'[b].id = id
  BY <1>4
<1>7. \A c \in Browsers : call'[c].op # "burn"
  BY <1>5, <1>6
<1>8. /\ SpentLinks = {} /\ SpentLinks' = {}
      /\ \A l : l \in ValidLinks <=> \E t \in tokens : t.user \in DOMAIN users /\ l = LinkOf(t)
  BY <1>1, <1>7, PlainLinks, NoneSpent DEF ProviderInv
<1>13. Offers' = Offers
  BY <1>1, <1>5, <1>6, OffersKept
<1>9. \A u : ~Burning(u)'
  BY <1>7 DEF Burning
<1>10. \A l : l \in ValidLinks' <=>
          \/ \E t \in tokens' : t.user \in DOMAIN users /\ l = LinkOf(t)
          \/ id \in DOMAIN users /\ l = n
  BY <1>1, <1>5, <1>6, <1>9, LinkMembersNext
<1>11. CASE id = Stranger
  <2>1. id \notin DOMAIN users
    BY <1>11, LocalAuthAssumption DEF ProviderInv, AuthTypeOK, UsersOK, UserIds
  <2>2. \A l : l \in ValidLinks' <=> l \in ValidLinks
    BY <1>1, <1>8, <1>10, <2>1
  <2>3. ValidLinks' = ValidLinks
    BY <2>2
  <2> QED BY <1>1, <1>8, <1>13, <2>3 DEF Provider!providerVars
<1>12. CASE id # Stranger
  <2>1. id \in DOMAIN users /\ users[id].active
    BY <1>1, <1>12 DEF ProviderInv, ReadyInv, CallReady
  <2>2. n.user = id /\ n.link = Len(links) + 1
    OBVIOUS
  <2>3. \A t \in tokens : LinkOf(t).link # Len(links) + 1 /\ LinkOf(t).user = t.user
    <3>1. \A t \in tokens : t.link \in 1 .. Len(links) /\ Len(links) \in Nat
      BY DEF ProviderInv, AuthTypeOK, UsersOK, LinksInv, TokensHaveLinks
    <3> QED BY <3>1, LinkFields
  <2> HIDE DEF n
  <2>4. n \notin ValidLinks /\ n \in ValidLinks'
    BY <1>8, <1>10, <2>1, <2>2, <2>3
  <2>5. \A l : l \in ValidLinks' <=> (l \in ValidLinks /\ l.user # id) \/ l = n
    BY <1>1, <1>8, <1>10, <2>1, <2>3
  <2>6. ValidLinks' = (ValidLinks \ Provider!LinksOf(n.user)) \cup {n}
    BY <2>2, <2>5 DEF Provider!LinksOf
  <2>7. Provider!RequestReset(n)
    BY <1>1, <1>8, <1>13, <2>1, <2>2, <2>4, <2>6 DEF Provider!RequestReset, Provider!Free
  <2> QED BY <2>4, <2>7 DEF Provider!ProviderNext
<1> QED BY <1>11, <1>12

\* The token takes the place of the link it was announced as.
LEMMA IssueTokenStutters ==
    ASSUME ProviderInv, NEW b \in Browsers, IssueToken(b, tokens)
    PROVE  UNCHANGED Provider!providerVars
<1> DEFINE id == call[b].id
           k == Len(links) + 1
           n == [link |-> k, user |-> id]
           op == IF id = Stranger THEN "retract" ELSE "deliver"
           token == [link |-> k, user |-> id, expires |-> WholeSeconds(call[b].at + 2 * Ttl)]
<1>1. /\ ~AtRest(b) /\ call[b].op = "issue" /\ UNCHANGED <<users, faults>>
      /\ tokens' = tokens \cup {token}
      /\ call' = [call EXCEPT ![b] = [op |-> op, id |-> id, link |-> k]]
      /\ call \in [Browsers -> Call]
  BY DEF IssueToken, AtRest, Idle, Begin, ProviderInv, AuthTypeOK, UsersOK
<1>2. LinkOf(token) = n /\ token.user = id
  BY DEF LinkOf
<1>3. \A c \in Browsers \ {b} : call'[c] = call[c] /\ call[c].op \notin {"issue", "burn"}
  BY <1>1 DEF ProviderInv, LinksInv, OneCall, AtRest, Idle
<1>4. call'[b].op \in {"deliver", "retract"}
  BY <1>1
<1>5. /\ \A c \in Browsers : call[c].op # "burn"
      /\ \A c \in Browsers : call'[c].op \notin {"issue", "burn"}
  BY <1>1, <1>3, <1>4
<1>6. \A u : ~Burning(u) /\ ~Burning(u)'
  BY <1>5 DEF Burning
<1> HIDE DEF token
<1>7. \A l : l \in ValidLinks <=>
         \/ \E t \in tokens : t.user \in DOMAIN users /\ l = LinkOf(t)
         \/ id \in DOMAIN users /\ l = n
  BY <1>1, <1>3, <1>6, LinkMembers
<1>8. \A l : l \in ValidLinks' <=> \E t \in tokens' : t.user \in DOMAIN users /\ l = LinkOf(t)
  BY <1>1, <1>5, <1>6, LinkMembersNext
<1>9. \A l : l \in ValidLinks' <=> l \in ValidLinks
  BY <1>1, <1>2, <1>7, <1>8
<1>10. ValidLinks' = ValidLinks
  BY <1>9
<1>11. Offers' = Offers
  BY <1>1, <1>3, <1>4, OffersKept
<1> QED BY <1>1, <1>5, <1>10, <1>11, NoneSpent DEF Provider!providerVars

\* What is done about the mail, or about the tokens of no account, is nothing
\* to the provider.
LEMMA AftermathStutters ==
    ASSUME ProviderInv, NEW b \in Browsers, Deliver(b) \/ TakeBack(b, tokens)
    PROVE  UNCHANGED Provider!providerVars
<1>1. /\ call[b].op \in {"deliver", "retract", "void"} /\ UNCHANGED <<users, faults>>
      /\ call' = [call EXCEPT ![b] = Idle] /\ call \in [Browsers -> Call]
  BY DEF Deliver, TakeBack, End, Idle, Begin, ProviderInv, AuthTypeOK
<1>2. Len(links') = Len(links)
  <2>1. links' = links \/ links' = [links EXCEPT ![call[b].link].mailed = TRUE]
    BY DEF Deliver, TakeBack
  <2> QED BY <2>1, SameLinkUsers DEF ProviderInv
<1>3. tokens' \subseteq tokens /\ \A t \in tokens : t.user \in DOMAIN users => t \in tokens'
  BY DEF Deliver, TakeBack, InvalidateFor, ProviderInv, ReadyInv, CallReady
<1>4. \A c \in Browsers :
         \/ call'[c] = call[c]
         \/ /\ call[c].op \notin {"issue", "burn", "password"}
            /\ call'[c].op \notin {"issue", "burn", "password"}
  BY <1>1 DEF Idle
<1>5. ValidLinks' = ValidLinks /\ SpentLinks' = SpentLinks
  BY <1>1, <1>2, <1>3, <1>4, LinksUndisturbed
<1>6. Offers' = Offers
  BY <1>4, OffersKept
<1> QED BY <1>1, <1>5, <1>6 DEF Provider!providerVars

LEMMA ReadOwnerStutters ==
    ASSUME ProviderInv, NEW b \in Browsers, ReadOwner(b)
    PROVE  UNCHANGED Provider!providerVars
<1>1. /\ call[b].op = "redeem" /\ call \in [Browsers -> Call]
      /\ UNCHANGED <<users, tokens, links, faults>>
  BY DEF ReadOwner, ProviderInv, AuthTypeOK, stores
<1>3. /\ \A c \in Browsers \ {b} : call'[c] = call[c]
      /\ call'[b].op \in {"renew", "void"}
  BY <1>1 DEF ReadOwner, Begin
<1>4. \A c \in Browsers :
         \/ call'[c] = call[c]
         \/ /\ call[c].op \notin {"issue", "burn", "password"}
            /\ call'[c].op \notin {"issue", "burn", "password"}
  BY <1>1, <1>3
<1>5. ValidLinks' = ValidLinks /\ SpentLinks' = SpentLinks
  BY <1>1, <1>4, LinksUndisturbed
<1>6. Offers' = Offers
  BY <1>4, OffersKept
<1> QED BY <1>1, <1>5, <1>6 DEF Provider!providerVars

\* A reset takes effect when the password is stored.
LEMMA RenewPasswordResets ==
    ASSUME ProviderInv, NEW b \in Browsers, RenewPassword(b, users)
    PROVE  [Provider!ProviderNext]_(Provider!providerVars)
<1> DEFINE id == call[b].id
           account == call[b].account
<1>1. /\ ~AtRest(b) /\ call[b].op = "renew" /\ UNCHANGED <<tokens, faults>>
      /\ call \in [Browsers -> Call]
  BY DEF RenewPassword, AtRest, Idle, ProviderInv, AuthTypeOK, UsersOK
<1>2. id \in UserIds /\ account \in Account
  BY <1>1, CallFields
<1>3. /\ SpentLinks = {}
      /\ \A l : l \in ValidLinks <=> \E t \in tokens : t.user \in DOMAIN users /\ l = LinkOf(t)
  BY <1>1, PlainLinks DEF ProviderInv
<1>4. CASE ~MayUpdate(users, id, account)
  <2>1. users' = users /\ call' = [call EXCEPT ![b] = Idle]
    BY <1>4 DEF RenewPassword, End, Idle, Begin
  <2>2. \A c \in Browsers : AtRest(c)'
    BY <1>1, <2>1, RestAfter DEF AtRest, ProviderInv
  <2>3. SpentLinks' = {} /\ \A l : l \in ValidLinks' <=> l \in ValidLinks
    BY <1>1, <1>3, <2>1, <2>2, RestingLinks
  <2>4. ValidLinks' = ValidLinks
    BY <2>3
  <2>5. Offers' = Offers
    BY <1>1, <2>1, OffersKept DEF Idle
  <2> QED BY <1>1, <1>3, <2>1, <2>3, <2>4, <2>5 DEF Provider!providerVars
<1>5. CASE MayUpdate(users, id, account)
  <2>1. /\ id \in DOMAIN users /\ Put(users, id, account) /\ DOMAIN users' = DOMAIN users
        /\ call' = [call EXCEPT ![b] = [op |-> "burn", id |-> id]]
    BY <1>5 DEF RenewPassword, MayUpdate, Put, Begin
  <2>2. users' = [users EXCEPT ![id] = account]
    BY <2>1, PutChanges DEF ProviderInv
  <2>3. account = [users[id] EXCEPT !.password = account.password]
    BY <1>1, <2>1 DEF ProviderInv, ReadyInv, CallReady
  <2>4. users' = [users EXCEPT ![id].password = account.password]
    BY <2>2, <2>3
  <2>5. call'[b].op = "burn" /\ call'[b].id = id
    BY <1>1, <2>1
  <2>6. \A c \in Browsers \ {b} : call'[c] = call[c] /\ call[c].op \notin {"issue", "burn"}
    BY <1>1, <2>1 DEF ProviderInv, LinksInv, OneCall, AtRest, Idle
  <2>7. \A u : Burning(u)' <=> u = id
    BY <2>5, <2>6 DEF Burning
  <2>8. \A c \in Browsers : call'[c].op # "issue"
    BY <2>5, <2>6
  <2>9. \A t \in tokens : LinkOf(t).user = t.user
    BY LinkFields
  <2>10. \A l : l \in ValidLinks' <=> l \in ValidLinks /\ l.user # id
    BY <1>1, <1>3, <2>1, <2>7, <2>8, <2>9, LinkMembersNext
  <2>11. \A l : l \in SpentLinks' <=> l \in ValidLinks /\ l.user = id
    BY <1>1, <1>3, <2>1, <2>7, <2>9, LinkMembersNext
  <2>12. PICK t \in tokens : t.user = id
    BY <1>1 DEF ProviderInv, ReadyInv, CallReady
  <2> DEFINE l == LinkOf(t)
  <2>13. l \in ValidLinks /\ l.user = id
    BY <1>3, <2>1, <2>9, <2>12
  <2> HIDE DEF l
  <2>14. /\ ValidLinks' = ValidLinks \ Provider!LinksOf(l.user)
         /\ SpentLinks' = Provider!LinksOf(l.user)
    BY <2>10, <2>11, <2>13 DEF Provider!LinksOf
  <2>15. users' = [users EXCEPT ![l.user].password = account.password]
    BY <2>4, <2>13
  <2>17. Offers' = Offers
    BY <1>1, <2>5, <2>6, OffersKept
  <2>16. Provider!ResetPassword(l, account.password)
    BY <1>1, <1>3, <2>1, <2>13, <2>14, <2>15, <2>17 DEF Provider!ResetPassword, Provider!Free
  <2> QED BY <1>2, <2>13, <2>16 DEF Provider!ProviderNext, Account
<1> QED BY <1>4, <1>5

LEMMA BurnTokensForgets ==
    ASSUME ProviderInv, NEW b \in Browsers, BurnTokens(b, tokens)
    PROVE  [Provider!ProviderNext]_(Provider!providerVars)
<1> DEFINE id == call[b].id
<1>1. /\ ~AtRest(b) /\ call[b].op = "burn" /\ UNCHANGED <<users, links, faults>>
      /\ tokens' = {t \in tokens : t.user # id}
      /\ call' = [call EXCEPT ![b] = Idle] /\ call \in [Browsers -> Call]
  BY DEF BurnTokens, InvalidateFor, AtRest, Idle, End, Begin, ProviderInv, AuthTypeOK, UsersOK
<1>2. \A c \in Browsers : AtRest(c)'
  BY <1>1, RestAfter DEF AtRest, ProviderInv
<1>3. \A c \in Browsers \ {b} : call[c].op \notin {"issue", "burn"}
  BY <1>1 DEF ProviderInv, LinksInv, OneCall, AtRest, Idle
<1>4. \A u : Burning(u) <=> u = id
  BY <1>1, <1>3 DEF Burning
<1>5. \A c \in Browsers : call[c].op # "issue"
  BY <1>1, <1>3
<1>6. \A l : l \in ValidLinks' <=> l \in ValidLinks
  BY <1>1, <1>2, <1>4, <1>5, RestingLinks, LinkMembers
<1>7. ValidLinks' = ValidLinks /\ SpentLinks' = {}
  BY <1>2, <1>6, RestingLinks
<1>8. PICK t \in tokens : t.user = id /\ id \in DOMAIN users
  BY <1>1 DEF ProviderInv, ReadyInv, CallReady
<1>9. LinkOf(t) \in SpentLinks
  BY <1>4, <1>8, LinkMembers
<1>11. Offers' = Offers
  BY <1>1, OffersKept DEF Idle
<1>10. Provider!Forget
  BY <1>1, <1>7, <1>9, <1>11 DEF Provider!Forget, Provider!Free
<1> QED BY <1>10 DEF Provider!ProviderNext

\* A click begins a call, or signs in or out, before the provider does a thing;
\* one that is to change a password offers the present one.
LEMMA ClicksOffer ==
    ASSUME Serial, ProviderInv, NEW b \in Browsers, Clicks(b)
    PROVE  [Provider!ProviderNext]_(Provider!providerVars)
<1> USE DEF stores
<1>1. call \in [Browsers -> Call]
  BY DEF ProviderInv, AuthTypeOK
<1>2. UNCHANGED <<users, tokens, links, faults>> /\ \A c \in Browsers : AtRest(c)
  BY DEF Clicks, Register, Login, Logout, UpdateProfile, RequestReset, ChangePassword,
         ResetPassword, SignedIn, SignedOut, OnPanel, Click
<1> DEFINE Starts(ops) == /\ call'[b].op \in ops
                          /\ \A c \in Browsers \ {b} : call'[c] = call[c]
           Quiet == {"add", "profile", "invalidate", "redeem", "idle"}
<1>3. ASSUME Starts(Quiet \cup {"password"}) PROVE ValidLinks' = ValidLinks /\ SpentLinks' = SpentLinks
  <2>1. \A c \in Browsers :
           \/ call'[c] = call[c]
           \/ call[c].op \notin {"issue", "burn"} /\ call'[c].op \notin {"issue", "burn"}
    BY <1>2, <1>3 DEF AtRest, Idle
  <2> QED BY <1>2, <2>1, LinksUndisturbed
<1>4. ASSUME Starts(Quiet) PROVE UNCHANGED Provider!providerVars
  <2>1. Offers' = Offers
    BY <1>2, <1>4, OffersKept DEF AtRest, Idle
  <2> QED BY <1>2, <1>3, <1>4, <2>1 DEF Provider!providerVars
<1>5. ASSUME NEW current \in Passwords, NEW new \in Passwords, ChangePassword(b, current, new)
      PROVE  Provider!ProviderNext
  <2> DEFINE o == [user |-> call'[b].id, current |-> Hash(call'[b].current)]
  <2>1. Starts({"password"})
    BY <1>1, <1>5 DEF ChangePassword, Begin
  <2>2. \A c \in Browsers : call[c].op \notin {"burn", "password"}
    BY <1>2 DEF AtRest, Idle
  <2>3. \A x : x \in Offers' <=> x = o
    BY <2>1, <2>2, OfferMembers
  <2>4. Offers = {}
    <3>1. \A x : x \notin Offers
      BY <2>2, OfferMembers
    <3> QED BY <3>1
  <2>5. Offers' = Offers \cup {o} /\ o \in Offers'
    BY <2>3, <2>4
  <2> HIDE DEF o
  <2>6. Provider!Offer(o)
    BY <1>2, <1>3, <2>1, <2>2, <2>5, NoneSpent DEF Provider!Offer, Provider!Free
  <2> QED BY <2>5, <2>6 DEF Provider!ProviderNext
<1>6. Clicks(b) => Starts(Quiet) \/ \E current, new \in Passwords : ChangePassword(b, current, new)
  <2>1. Idle.op = "idle"
    BY DEF Idle
  <2>2. ASSUME NEW email \in Emails, NEW p \in Passwords, Register(b, email, p)
        PROVE Starts(Quiet)
    BY <1>1, <2>2 DEF Register, Begin
  <2>3. ASSUME NEW email \in Emails, NEW p \in Passwords, Login(b, email, p)
        PROVE Starts(Quiet)
    BY <1>1, <2>1, <2>3 DEF Login, End, Begin
  <2>4. ASSUME Logout(b) PROVE Starts(Quiet)
    BY <1>1, <2>1, <2>4 DEF Logout, End, Begin
  <2>5. ASSUME NEW email \in Emails, UpdateProfile(b, email) PROVE Starts(Quiet)
    BY <1>1, <2>5 DEF UpdateProfile, Begin
  <2>6. ASSUME NEW email \in Emails, RequestReset(b, email) PROVE Starts(Quiet)
    BY <1>1, <2>6 DEF RequestReset, Begin
  <2>8. ASSUME NEW new \in Passwords, ResetPassword(b, new) PROVE Starts(Quiet)
    BY <1>1, <2>8 DEF ResetPassword, Begin
  <2> QED BY <2>2, <2>3, <2>4, <2>5, <2>6, <2>8 DEF Clicks
<1> QED BY <1>4, <1>5, <1>6

\* An administrator works while all calls rest.
LEMMA EditsSwitchOrRemove ==
    ASSUME Serial, ProviderInv, NEW id \in DOMAIN users, EditUsersFile(id)
    PROVE  Provider!SwitchOff(id) \/ Provider!Remove(id)
<1>1. /\ \A c \in Browsers : AtRest(c) /\ AtRest(c)'
      /\ UNCHANGED <<tokens, links, call, faults>>
  BY DEF EditUsersFile, AtRest
<1>7. Offers' = Offers
  BY <1>1, OffersKept
<1>2. \A c \in Browsers : call[c].op \notin {"issue", "burn"}
  BY <1>1 DEF AtRest, Idle
<1>3. \A u : ~Burning(u)
  BY <1>2 DEF Burning
<1>4. /\ SpentLinks = {} /\ SpentLinks' = {}
      /\ \A l : l \in ValidLinks <=> \E t \in tokens : t.user \in DOMAIN users /\ l = LinkOf(t)
      /\ \A l : l \in ValidLinks' <=> \E t \in tokens : t.user \in DOMAIN users' /\ l = LinkOf(t)
  BY <1>1, <1>2, <1>3, NoneSpent, LinkMembers, RestingLinks
<1>5. CASE users' = [users EXCEPT ![id].active = FALSE]
  <2>1. DOMAIN users' = DOMAIN users
    BY <1>5
  <2>2. ValidLinks' = ValidLinks
    BY <1>4, <2>1
  <2> QED BY <1>1, <1>4, <1>5, <1>7, <2>2 DEF Provider!SwitchOff, Provider!Free
<1>6. CASE users' = [u \in DOMAIN users \ {id} |-> users[u]]
  <2>1. DOMAIN users' = DOMAIN users \ {id}
    BY <1>6
  <2>2. \A t \in tokens : LinkOf(t).user = t.user
    BY LinkFields
  <2>3. \A l : l \in ValidLinks' <=> l \in ValidLinks /\ l.user # id
    BY <1>4, <2>1, <2>2
  <2>4. ValidLinks' = ValidLinks \ Provider!LinksOf(id)
    BY <2>3 DEF Provider!LinksOf
  <2> QED BY <1>1, <1>4, <1>6, <1>7, <2>4 DEF Provider!Remove, Provider!Free
<1> QED BY <1>5, <1>6 DEF EditUsersFile

\* Every step is one of the provider's, or none to it.
LEMMA ProviderStep ==
    ASSUME Serial, ProviderInv, [AtomicNext]_atomicVars
    PROVE  [Provider!ProviderNext]_(Provider!providerVars)
<1> USE DEF stores, sessions
<1>1. call \in [Browsers -> Call] /\ DOMAIN users \subseteq UserIds
  BY DEF ProviderInv, AuthTypeOK, UsersOK
<1>2. ASSUME NEW b \in Browsers, AtomicCall(b)
      PROVE  [Provider!ProviderNext]_(Provider!providerVars)
  BY <1>2, AddUserRegisters, StoreProfileUpdates, StorePasswordChanges, InvalidateOlderRequests,
     IssueTokenStutters, AftermathStutters, ReadOwnerStutters, RenewPasswordResets,
     BurnTokensForgets
     DEF AtomicCall, UserCall, TokenCall
<1>3. ASSUME NEW b \in Browsers, NEW k \in 0 .. Len(links), OpenPage(b, k)
      PROVE  UNCHANGED Provider!providerVars
  <2>1. UNCHANGED <<users, tokens, links, faults>> /\ call' = [call EXCEPT ![b] = Idle]
    BY <1>3 DEF OpenPage, End, Idle, Begin
  <2>2. AtRest(b) /\ \A c \in Browsers \ {b} : call'[c] = call[c]
    BY <1>1, <1>3, <2>1 DEF OpenPage
  <2>3. call[b].op \notin {"issue", "burn"} /\ call'[b].op \notin {"issue", "burn"}
    BY <1>1, <2>1, <2>2 DEF AtRest, Idle
  <2>4. ValidLinks' = ValidLinks /\ SpentLinks' = SpentLinks
    BY <2>1, <2>2, <2>3, LinksUndisturbed
  <2>5. Offers' = Offers
    BY <1>1, <2>1, <2>2, OffersKept DEF AtRest
  <2> QED BY <2>1, <2>4, <2>5 DEF Provider!providerVars
<1>4. ASSUME NEW b \in Browsers, CallFails(b) PROVE Provider!Failure
  <2>1. /\ ~AtRest(b) /\ faults' = faults + 1 /\ UNCHANGED <<users, tokens, links>>
        /\ call' = [call EXCEPT ![b] = Idle]
    BY <1>4 DEF CallFails, End, Idle, Begin
  <2>2. \A c \in Browsers : AtRest(c)'
    BY <1>1, <2>1, RestAfter DEF AtRest, ProviderInv
  <2> QED BY <2>1, <2>2, CallDies
<1>5. CASE Crash
  <2>1. \A c \in Browsers : AtRest(c)'
    BY <1>5 DEF Crash, AtRest
  <2> QED BY <1>5, <2>1, CallDies DEF Crash, Provider!ProviderNext
<1>6. CASE Tick \/ UNCHANGED atomicVars
  <2>1. UNCHANGED <<users, tokens, links, call, faults>>
    BY <1>6 DEF Tick, atomicVars
  <2>2. ValidLinks' = ValidLinks /\ SpentLinks' = SpentLinks
    BY <2>1, LinksUndisturbed
  <2>3. Offers' = Offers
    BY <2>1, OffersKept
  <2> QED BY <2>1, <2>2, <2>3 DEF Provider!providerVars
<1>7. ASSUME NEW id \in DOMAIN users, EditUsersFile(id)
      PROVE  Provider!ProviderNext
  BY <1>1, <1>7, EditsSwitchOrRemove DEF Provider!ProviderNext
<1>8. ASSUME NEW b \in Browsers, Clicks(b)
      PROVE  [Provider!ProviderNext]_(Provider!providerVars)
  BY <1>8, ClicksOffer
<1>9. Provider!Failure => Provider!ProviderNext
  BY DEF Provider!ProviderNext
<1> QED BY <1>2, <1>3, <1>4, <1>5, <1>6, <1>7, <1>8, <1>9 DEF AtomicNext

\* While calls do not overlap, the application sees the provider's methods one
\* after the other, each whole: LocalAuth implements PasswordAuthProvider, and
\* what a failed or crashed call leaves is what Failure allows.
THEOREM LocalAuthImplementsProvider == ASSUME Serial PROVE AuthSpec => ImplementsProvider
<1>1. AuthInit => Provider!ProviderInit
  <2>1. AuthInit => \A b \in Browsers : call[b].op = "idle"
    BY DEF AuthInit, Idle
  <2>2. AuthInit => \A l : l \notin ValidLinks /\ l \notin SpentLinks
    BY <2>1, LinkMembers DEF AuthInit
  <2>4. AuthInit => \A o : o \notin Offers
    BY <2>1, OfferMembers
  <2>3. AuthInit => ValidLinks = {} /\ SpentLinks = {} /\ Offers = {}
    BY <2>2, <2>4
  <2> QED BY <2>3 DEF AuthInit, Provider!ProviderInit
<1>2. ProviderInv /\ [AtomicNext]_atomicVars => [Provider!ProviderNext]_(Provider!providerVars)
  BY ProviderStep
<1>3. AuthInit => LinksInv
  BY DEF AuthInit, LinksInv, OneCall, AtRest, TokensHaveLinks, NoneBeforeIssue, LatestLinkOnly, Idle
<1>4. AuthTypeOK /\ LinksInv /\ [AtomicNext]_atomicVars => LinksInv'
  BY LinksStep
<1>5. ProviderInv <=> AuthTypeOK /\ EmailsUnique /\ LinksInv /\ SavesInv /\ ReadyInv
  BY DEF ProviderInv
<1> QED BY <1>1, <1>2, <1>3, <1>4, <1>5, AuthTypeCorrect, AccountsEmailsUnique, SavesHold, CallsStayReady,
       AtomicSteps, PTL
           DEF AuthSpec, ImplementsProvider, Provider!ProviderSpec
=============================================================================
