------------------------- MODULE PasswordAuthProvider -------------------------
(***************************************************************************)
(* What the application may count on from a backend of accounts with       *)
(* passwords (PasswordAuthProvider in model/auth/provider.py): every       *)
(* method does all it has to in one step, or raises and does nothing; a    *)
(* reset link is the only one of its account and sets one password.        *)
(* authenticate and get_user change nothing.  Sessions, mail and the hour  *)
(* a link is good for are LocalAuth's, which implements this module.       *)
(*                                                                         *)
(* What a method leaves that fails with anything but an AuthError, or dies *)
(* with the process, is Failure.                                           *)
(***************************************************************************)
EXTENDS Naturals

CONSTANTS
    Ids,     \* canonical user ids
    Emails,
    Hashes   \* what the backend keeps of a password

VARIABLES
    accounts,  \* user id -> account, for the users there are
    valid,     \* the reset links that would set a password, and whose
    spent,     \* those of the reset that has set its password and runs on
    offers,    \* present passwords that callers who want another have given
    failures   \* calls that failed so far

providerVars == <<accounts, valid, spent, offers, failures>>

Account == [email : Emails, password : Hashes, active : BOOLEAN]

Taken(email, id) == \E u \in DOMAIN accounts \ {id} : accounts[u].email = email

LinksOf(id) == {l \in valid : l.user = id}

\* No reset runs: a method can begin.
Free == spent = {}

-----------------------------------------------------------------------------
\* A user id is for ever: nobody has left a link to a new one.
Register(id, email, hash) ==
    /\ Free
    /\ id \notin DOMAIN accounts /\ ~Taken(email, id)
    /\ LinksOf(id) = {}
    /\ accounts' = [u \in DOMAIN accounts \cup {id} |->
                       IF u = id THEN [email |-> email, password |-> hash, active |-> TRUE]
                       ELSE accounts[u]]
    /\ UNCHANGED <<valid, spent, offers, failures>>

UpdateProfile(id, email) ==
    /\ Free
    /\ id \in DOMAIN accounts /\ ~Taken(email, id)
    /\ accounts' = [accounts EXCEPT ![id].email = email]
    /\ UNCHANGED <<valid, spent, offers, failures>>

\* A caller gives the present password of an account, and wants to change it.
Offer(o) ==
    /\ Free
    /\ offers' = offers \cup {o}
    /\ UNCHANGED <<accounts, valid, spent, failures>>

\* The change is made when the password given is the one the account has.
ChangePassword(o, hash) ==
    /\ Free
    /\ o \in offers /\ o.user \in DOMAIN accounts
    /\ accounts[o.user].password = o.current
    /\ accounts' = [accounts EXCEPT ![o.user].password = hash]
    /\ offers' = offers \ {o}
    /\ UNCHANGED <<valid, spent, failures>>

\* The new link l takes the place of the older ones of its account.
RequestReset(l) ==
    /\ Free
    /\ l.user \in DOMAIN accounts /\ accounts[l.user].active
    /\ l \notin valid
    /\ valid' = (valid \ LinksOf(l.user)) \cup {l}
    /\ UNCHANGED <<accounts, spent, offers, failures>>

\* Link l sets the password of its account, and no link of the account does
\* any more.
ResetPassword(l, hash) ==
    /\ Free
    /\ l \in valid /\ l.user \in DOMAIN accounts
    /\ accounts' = [accounts EXCEPT ![l.user].password = hash]
    /\ valid' = valid \ LinksOf(l.user)
    /\ spent' = LinksOf(l.user)
    /\ UNCHANGED <<offers, failures>>

\* The reset ends.
Forget ==
    /\ ~Free
    /\ spent' = {}
    /\ UNCHANGED <<accounts, valid, offers, failures>>

\* A call fails half way.  The account is as the call had left it by then; a
\* request may have taken the links of the account away, and a reset may not
\* have got to that.
Failure ==
    /\ failures' = failures + 1
    /\ \/ valid' = valid
       \/ \E id \in DOMAIN accounts : valid' = valid \ LinksOf(id)
       \/ valid' = valid \cup spent
    /\ spent' = {}
    /\ offers' \subseteq offers
    /\ UNCHANGED accounts

\* An administrator, between calls.
SwitchOff(id) ==
    /\ Free
    /\ id \in DOMAIN accounts
    /\ accounts' = [accounts EXCEPT ![id].active = FALSE]
    /\ UNCHANGED <<valid, spent, offers, failures>>

Remove(id) ==
    /\ Free
    /\ id \in DOMAIN accounts
    /\ accounts' = [u \in DOMAIN accounts \ {id} |-> accounts[u]]
    /\ valid' = valid \ LinksOf(id)
    /\ UNCHANGED <<spent, offers, failures>>

-----------------------------------------------------------------------------
ProviderInit ==
    /\ accounts = [u \in {} |-> u]
    /\ valid = {} /\ spent = {} /\ offers = {}
    /\ failures = 0

ProviderNext ==
    \/ \E id \in Ids, email \in Emails, hash \in Hashes : Register(id, email, hash)
    \/ \E id \in Ids, email \in Emails : UpdateProfile(id, email)
    \/ \E o \in offers' : Offer(o)
    \/ \E o \in offers, hash \in Hashes : ChangePassword(o, hash)
    \/ \E l \in valid' : RequestReset(l)
    \/ \E l \in valid, hash \in Hashes : ResetPassword(l, hash)
    \/ Forget
    \/ Failure
    \/ \E id \in Ids : SwitchOff(id) \/ Remove(id)

ProviderSpec == ProviderInit /\ [][ProviderNext]_providerVars
=============================================================================
