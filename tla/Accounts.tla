------------------------------ MODULE Accounts ------------------------------
(***************************************************************************)
(* Sign-in, sessions and API keys.  Accounts are keyed by email, in the    *)
(* form that compares equal under lower(); an OAuth identity resolves to   *)
(* one account.  A session is a stateless token in a cookie of the client: *)
(* nothing on the server ends it.                                          *)
(*                                                                         *)
(* Every statement is a step of its own.  The rows an open transaction has *)
(* inserted are in made and linked of its request: no one sees them, and   *)
(* an insert with the same key waits until the transaction has ended.      *)
(***************************************************************************)
EXTENDS Naturals, FiniteSets

CONSTANTS
  Clients,     \* browsers and scripts, each with one request at a time
  Emails,      \* lower-cased addresses
  Identities,  \* (provider, provider_user_id) pairs
  MaxUsers,    \* bound: user ids ever allocated
  MaxKeys,     \* bound: API keys ever created
  Budgets,     \* bound: requests of each class, database errors and removals
  Nobody       \* no account

ASSUME AccountsAssumption ==
  /\ MaxUsers \in Nat
  /\ MaxKeys \in Nat
  /\ Budgets \subseteq [signin : 0..MaxUsers, manage : 0..MaxKeys, track : Nat, faults : Nat]
  /\ Nobody \notin Nat
  /\ Nobody \notin Clients

VARIABLES
  users,       \* users: id -> row
  lastUser,    \* its identity sequence
  identities,  \* user_identities: identity -> user id
  keys,        \* api_keys: id -> row
  lastKey,     \* its identity sequence
  session,     \* the account in the auth cookie of each client
  started,     \* clients that hold the state cookie of a sign-in
  pc,          \* where the request of each client stands
  local,       \* what that request has read
  budget,      \* requests left
  vouched,     \* history: emails that providers gave as verified
  opened,      \* history: the accounts that each identity has signed in to
  contested    \* history: sign-ins during which somebody else has made an
               \* account of the same email, or an account was removed

tables == <<users, lastUser, identities>>
keyring == <<keys, lastKey>>
cookies == <<session, started>>
accountVars == <<tables, keyring, cookies, pc, local, budget, vouched,
                 opened, contested>>

UserIds == 1..MaxUsers
KeyIds == 1..MaxKeys
NoEmail == "none"

Blank == [who |-> Nobody, via |-> "none", identity |-> Nobody, email |-> NoEmail,
          made |-> Nobody, linked |-> FALSE]

Steps == {"idle", "lookup", "begin", "insertUser", "insertIdentity", "commit",
          "retry", "createKey", "revokeKey", "interact", "count"}

Spend(class) == budget[class] > 0 /\ budget' = [budget EXCEPT ![class] = @ - 1]

OwnerOf(email) == {u \in DOMAIN users : users[u].email = email}

(* Another transaction has inserted the key and not ended.                 *)
EmailPending(c, email) ==
  \E d \in Clients \ {c} : local[d].made # Nobody /\ local[d].email = email
IdentityPending(c, i) ==
  \E d \in Clients \ {c} : local[d].linked /\ local[d].identity = i

(* The request is answered, with or without a session cookie.              *)
Answer(c) ==
  /\ pc' = [pc EXCEPT ![c] = "idle"]
  /\ local' = [local EXCEPT ![c] = Blank]
  /\ contested' = contested \ {c}

Fail(c) == Answer(c) /\ UNCHANGED session
SetSession(c, u) == Answer(c) /\ session' = [session EXCEPT ![c] = u]

(* An account has come up or gone that these sign-ins did not reckon with. *)
Contests(S) == contested' = contested \cup {d \in S : local[d].identity # Nobody}

-----------------------------------------------------------------------------
(* Password accounts.  A password is known to the client that chose it.    *)

(* Mutant: the unique index on lower(email) is missing.                     *)
EmailTaken_Never(email) == FALSE

(* users_email_lower_idx.                                                  *)
EmailTaken(email) == OwnerOf(email) # {}

(* POST /auth/register: the insert, and the session.  Neither if the email *)
(* is taken or the database refuses; no session if the acknowledgement of  *)
(* the insert is lost.                                                     *)
Register(c, email) ==
  /\ pc[c] = "idle"
  /\ Spend("signin")
  /\ ~EmailPending(c, email)
  /\ lastUser' = lastUser + 1
  /\ \/ UNCHANGED <<users, session, contested>>
     \/ /\ ~EmailTaken(email)
        /\ users' = [u \in DOMAIN users \cup {lastUser + 1} |->
                       IF u = lastUser + 1 THEN [email |-> email, password |-> c]
                       ELSE users[u]]
        /\ session' \in {session, [session EXCEPT ![c] = lastUser + 1]}
        /\ Contests({d \in Clients : local[d].email = email})
  /\ UNCHANGED <<identities, keyring, started, pc, local, vouched, opened>>

(* POST /auth/login: an account without a password never matches.          *)
Login(c, email) ==
  /\ pc[c] = "idle"
  /\ Spend("signin")
  /\ \E u \in OwnerOf(email) :
       users[u].password = c /\ session' = [session EXCEPT ![c] = u]
  /\ UNCHANGED <<tables, keyring, started, pc, local, vouched, opened, contested>>

(* POST /auth/logout; a cookie that expires has the same effect.           *)
Logout(c) ==
  /\ pc[c] = "idle"
  /\ session' = [session EXCEPT ![c] = Nobody]
  /\ UNCHANGED <<tables, keyring, started, pc, local, budget, vouched, opened, contested>>

-----------------------------------------------------------------------------
(* OAuth.                                                                  *)

OAuthStart(c) ==
  /\ pc[c] = "idle"
  /\ c \notin started
  /\ started' = started \cup {c}
  /\ UNCHANGED <<tables, keyring, session, pc, local, budget, vouched, opened, contested>>

(* OAuthCallback: the state is used up; the code is exchanged for the      *)
(* identity, and the email the provider has for it now, if any.            *)
OAuthCallback(c) ==
  /\ pc[c] = "idle"
  /\ c \in started
  /\ Spend("signin")
  /\ started' = started \ {c}
  /\ \E i \in Identities, email \in Emails \cup {NoEmail}, verified \in BOOLEAN :
       /\ email = NoEmail => ~verified
       /\ local' = [local EXCEPT ![c] =
            [Blank EXCEPT !.identity = i, !.email = IF verified THEN email ELSE NoEmail]]
       /\ vouched' = IF verified THEN vouched \cup {<<i, email>>} ELSE vouched
  /\ pc' = [pc EXCEPT ![c] = "lookup"]
  /\ UNCHANGED <<tables, keyring, session, opened, contested>>

(* No state cookie, another state, no code, or no identity for it.         *)
CallbackFails(c) ==
  /\ pc[c] = "idle"
  /\ c \in started
  /\ started' = started \ {c}
  /\ UNCHANGED <<tables, keyring, session, pc, local, budget, vouched, opened, contested>>

(* GetUserByIdentity: a known identity signs in.                           *)
Known(c) ==
  /\ pc[c] \in {"lookup", "retry"}
  /\ local[c].identity \in DOMAIN identities
  /\ SetSession(c, identities[local[c].identity])
  /\ opened' = opened \cup {<<local[c].identity, identities[local[c].identity]>>}
  /\ UNCHANGED <<tables, keyring, started, budget, vouched>>

(* The first time, the provider has to vouch for the email.                *)
Trusted(c) == local[c].email # NoEmail

Unknown(c) ==
  /\ pc[c] = "lookup"
  /\ local[c].identity \notin DOMAIN identities
  /\ IF Trusted(c) THEN pc' = [pc EXCEPT ![c] = "begin"] /\ UNCHANGED <<local, session, contested>>
     ELSE Fail(c)
  /\ UNCHANGED <<tables, keyring, started, budget, vouched, opened>>

(* linkOrCreateUser: GetUserByEmail.                                       *)
FindAccount(c) ==
  /\ pc[c] = "begin"
  /\ IF EmailTaken(local[c].email)
     THEN \E u \in OwnerOf(local[c].email) :
            /\ local' = [local EXCEPT ![c].who = u]
            /\ pc' = [pc EXCEPT ![c] = "insertIdentity"]
     ELSE pc' = [pc EXCEPT ![c] = "insertUser"] /\ UNCHANGED local
  /\ UNCHANGED <<tables, keyring, cookies, budget, vouched, opened, contested>>

(* Mutant: a lost race fails the sign-in at once.                           *)
LostRace_Fails(c) == Fail(c)

(* A unique violation rolls back; the identity is looked up once more.     *)
LostRace(c) ==
  /\ pc' = [pc EXCEPT ![c] = "retry"]
  /\ local' = [local EXCEPT ![c].made = Nobody, ![c].linked = FALSE, ![c].who = Nobody]
  /\ UNCHANGED <<session, contested>>

(* CreateUser, without a password, in the transaction.                     *)
CreateUser(c) ==
  /\ pc[c] = "insertUser"
  /\ ~EmailPending(c, local[c].email)
  /\ lastUser' = lastUser + 1
  /\ IF EmailTaken(local[c].email) THEN LostRace(c)
     ELSE /\ local' = [local EXCEPT ![c].who = lastUser + 1, ![c].made = lastUser + 1]
          /\ pc' = [pc EXCEPT ![c] = "insertIdentity"]
          /\ UNCHANGED <<session, contested>>
  /\ UNCHANGED <<users, identities, keyring, started, budget, vouched, opened>>

(* Mutant: a known identity is linked anew.                                 *)
Linked_Never(c) == FALSE

(* The primary key of user_identities.                                     *)
Linked(c) == local[c].identity \in DOMAIN identities

(* CreateUserIdentity: the account may be gone (foreign key, not retried), *)
(* the identity may be linked by now.                                      *)
CreateUserIdentity(c) ==
  /\ pc[c] = "insertIdentity"
  /\ ~IdentityPending(c, local[c].identity)
  /\ \/ Linked(c) /\ LostRace(c)
     \/ /\ ~Linked(c)
        /\ local[c].who \notin DOMAIN users \cup {local[c].made}
        /\ Fail(c)
     \/ /\ ~Linked(c)
        /\ local[c].who \in DOMAIN users \cup {local[c].made}
        /\ local' = [local EXCEPT ![c].linked = TRUE]
        /\ pc' = [pc EXCEPT ![c] = "commit"]
        /\ UNCHANGED <<session, contested>>
  /\ UNCHANGED <<tables, keyring, started, budget, vouched, opened>>

(* What the transaction leaves behind when it commits.                     *)
Publish(c) ==
  /\ users' = [u \in DOMAIN users \cup ({local[c].made} \ {Nobody}) |->
                 IF u = local[c].made THEN [email |-> local[c].email, password |-> Nobody]
                 ELSE users[u]]
  /\ identities' = [i \in DOMAIN identities \cup {local[c].identity} |->
                      IF i = local[c].identity THEN local[c].who ELSE identities[i]]

(* The sign-ins that find the email of a new account taken.                *)
Rivals(c) ==
  IF local[c].made = Nobody THEN {}
  ELSE {d \in Clients \ {c} : /\ local[d].email = local[c].email
                              /\ local[d].identity # local[c].identity}

Commit(c) ==
  /\ pc[c] = "commit"
  /\ Publish(c)
  /\ pc' = [pc EXCEPT ![c] = "idle"]
  /\ local' = [local EXCEPT ![c] = Blank]
  /\ session' = [session EXCEPT ![c] = local[c].who]
  /\ contested' = (contested \ {c}) \cup Rivals(c)
  /\ opened' = opened \cup {<<local[c].identity, local[c].who>>}
  /\ UNCHANGED <<lastUser, keyring, started, budget, vouched>>

(* GetUserByIdentity after a lost race, without a result.                  *)
RetryFails(c) ==
  /\ pc[c] = "retry"
  /\ local[c].identity \notin DOMAIN identities
  /\ Fail(c)
  /\ UNCHANGED <<tables, keyring, started, budget, vouched, opened>>

(* The database refuses, or the acknowledgement of a commit is lost.       *)
SignInError(c) ==
  /\ pc[c] \in {"lookup", "begin", "insertUser", "insertIdentity", "commit", "retry"}
  /\ Spend("faults")
  /\ \/ UNCHANGED <<users, identities>> /\ Fail(c)
     \/ /\ pc[c] = "commit"
        /\ Publish(c)
        /\ pc' = [pc EXCEPT ![c] = "idle"]
        /\ local' = [local EXCEPT ![c] = Blank]
        /\ contested' = (contested \ {c}) \cup Rivals(c)
        /\ UNCHANGED session
  /\ UNCHANGED <<lastUser, keyring, started, vouched, opened>>

-----------------------------------------------------------------------------
(* API keys.  A token stands for its hash, and so for its row.             *)

LiveKeys == {k \in DOMAIN keys : ~keys[k].expired}

(* The credentials that get a request past the middleware, as pairs of the *)
(* way and the account.  RequireAuth asks for a cookie; RequireAuthOrKey   *)
(* falls through to a key, which must be live (AuthenticateAPIKey).        *)
ByCookie(c) == IF session[c] = Nobody THEN {} ELSE {<<"cookie", session[c]>>}
RequireAuth(c) == ByCookie(c)
RequireAuthOrKey(c) ==
  IF ByCookie(c) # {} THEN ByCookie(c)
  ELSE {<<"key", keys[k].owner>> : k \in LiveKeys}

(* Mutant: the routes take a key as well.                                   *)
ManagesKeys_ByKey(c) == RequireAuthOrKey(c)

(* What the routes under /me/api-keys ask for.                             *)
ManagesKeys(c) == RequireAuth(c)

Manage(c, step) ==
  /\ pc[c] = "idle"
  /\ Spend("manage")
  /\ \E a \in ManagesKeys(c) :
       local' = [local EXCEPT ![c] = [Blank EXCEPT !.via = a[1], !.who = a[2]]]
  /\ pc' = [pc EXCEPT ![c] = step]
  /\ UNCHANGED <<tables, keyring, cookies, vouched, opened, contested>>

(* CreateAPIKey, unless the account is gone (foreign key).                 *)
CreateAPIKey(c) ==
  /\ pc[c] = "createKey"
  /\ IF local[c].who \in DOMAIN users
     THEN /\ lastKey' = lastKey + 1
          /\ keys' = [k \in DOMAIN keys \cup {lastKey + 1} |->
                        IF k = lastKey + 1 THEN [owner |-> local[c].who, expired |-> FALSE]
                        ELSE keys[k]]
     ELSE UNCHANGED keyring
  /\ Fail(c)
  /\ UNCHANGED <<tables, started, budget, vouched, opened>>

(* DeleteAPIKey deletes a key of the caller, or nothing.                   *)
Revocable(c) == {k \in DOMAIN keys : keys[k].owner = local[c].who}

RevokeAPIKey(c) ==
  /\ pc[c] = "revokeKey"
  /\ \/ \E k \in Revocable(c) : keys' = [q \in DOMAIN keys \ {k} |-> keys[q]]
     \/ UNCHANGED keys
  /\ Fail(c)
  /\ UNCHANGED <<tables, lastKey, started, budget, vouched, opened>>

(* expires_at passes.                                                      *)
ExpireKey(k) ==
  /\ k \in LiveKeys
  /\ keys' = [keys EXCEPT ![k].expired = TRUE]
  /\ UNCHANGED <<tables, lastKey, cookies, pc, local, budget, vouched, opened, contested>>

-----------------------------------------------------------------------------
(* The row of an account is removed by hand, with all that refers to it    *)
(* (ON DELETE CASCADE); a transaction that has just referred to it holds   *)
(* it.                                                                     *)
RemoveUser(u) ==
  /\ u \in DOMAIN users
  /\ Spend("faults")
  /\ \A c \in Clients : ~(local[c].linked /\ local[c].who = u)
  /\ users' = [v \in DOMAIN users \ {u} |-> users[v]]
  /\ identities' = [i \in {j \in DOMAIN identities : identities[j] # u} |-> identities[i]]
  /\ keys' = [k \in {q \in DOMAIN keys : keys[q].owner # u} |-> keys[k]]
  /\ Contests(Clients)
  /\ UNCHANGED <<lastUser, lastKey, cookies, pc, local, vouched, opened>>

-----------------------------------------------------------------------------
AccountsInit ==
  /\ users = [u \in {} |-> [email |-> NoEmail, password |-> Nobody]]
  /\ lastUser = 0
  /\ identities = [i \in {} |-> Nobody]
  /\ keys = [k \in {} |-> [owner |-> Nobody, expired |-> FALSE]]
  /\ lastKey = 0
  /\ session = [c \in Clients |-> Nobody]
  /\ started = {}
  /\ pc = [c \in Clients |-> "idle"]
  /\ local = [c \in Clients |-> Blank]
  /\ budget \in Budgets
  /\ vouched = {}
  /\ opened = {}
  /\ contested = {}

SignIn(c) ==
  \/ \E email \in Emails : Register(c, email) \/ Login(c, email)
  \/ Logout(c)
  \/ OAuthStart(c) \/ OAuthCallback(c) \/ CallbackFails(c)
  \/ Known(c) \/ Unknown(c) \/ FindAccount(c) \/ CreateUser(c)
  \/ CreateUserIdentity(c) \/ Commit(c) \/ RetryFails(c) \/ SignInError(c)

KeyStep(c) ==
  \/ Manage(c, "createKey") \/ Manage(c, "revokeKey")
  \/ CreateAPIKey(c) \/ RevokeAPIKey(c)

AccountsNext ==
  \/ \E c \in Clients : SignIn(c) \/ KeyStep(c)
  \/ \E k \in KeyIds : ExpireKey(k)

-----------------------------------------------------------------------------
(* Properties.                                                             *)

AccountsTypeOK ==
  /\ lastUser \in 0..MaxUsers
  /\ DOMAIN users \subseteq 1..lastUser
  /\ \A u \in DOMAIN users : users[u] \in [email : Emails, password : Clients \cup {Nobody}]
  /\ DOMAIN identities \subseteq Identities
  /\ \A i \in DOMAIN identities : identities[i] \in DOMAIN users
  /\ lastKey \in 0..MaxKeys
  /\ DOMAIN keys \subseteq 1..lastKey
  /\ \A k \in DOMAIN keys : keys[k].owner \in DOMAIN users
  /\ session \in [Clients -> UserIds \cup {Nobody}]
  /\ started \subseteq Clients
  /\ pc \in [Clients -> Steps]
  /\ \A c \in Clients : local[c].who \in UserIds \cup {Nobody}
  /\ vouched \subseteq Identities \X Emails
  /\ opened \subseteq Identities \X UserIds
  /\ contested \subseteq Clients

(* One account per email, whoever races; an account without a password can *)
(* be entered by an identity, so no half of a first sign-in stays behind;  *)
(* and the email of an account that an identity opens was verified by the  *)
(* provider of that identity (resolveOAuthUser, linkOrCreateUser).         *)
OnePerEmail == \A u, v \in DOMAIN users : users[u].email = users[v].email => u = v
NothingHalfDone ==
  \A u \in DOMAIN users :
    users[u].password = Nobody => \E i \in DOMAIN identities : identities[i] = u
LinkedByVerifiedEmail ==
  \A i \in DOMAIN identities : <<i, users[identities[i]].email>> \in vouched

AccountsSound == OnePerEmail /\ NothingHalfDone /\ LinkedByVerifiedEmail

(* An identity opens one account, for ever: whatever its email is by now,  *)
(* and whoever it races with, every sign-in ends in the account the first  *)
(* one ended in, as long as that exists ("resolving each OAuth sign-in to  *)
(* exactly one account", user-auth).                                       *)
SignInResolves ==
  \A o \in opened : o[2] \in DOMAIN users =>
    o[1] \in DOMAIN identities /\ identities[o[1]] = o[2]

(* Duplicate callbacks of one identity never fail each other: a sign-in    *)
(* with a verified email that the database lets through ends in a session, *)
(* unless somebody else took the email, or an account was removed, while   *)
(* it ran (oauth.go: "Lost a race with a concurrent callback for the same  *)
(* identity").                                                             *)
LosesOnlyToOthers ==
  [][\A c \in Clients :
       /\ local[c].identity # Nobody /\ local[c].email # NoEmail
       /\ pc'[c] = "idle" /\ budget' = budget
       => \/ c \in contested
          \/ /\ local[c].identity \in DOMAIN identities'
             /\ session'[c] = identities'[local[c].identity]]_accountVars

(* Keys come and go by the session of their owner, or with the account:    *)
(* "a leaked key must not be able to mint more keys", and nobody revokes   *)
(* the key of another (CreateAPIKey, RevokeAPIKey).                        *)
KeysBelongToSessions ==
  [][\A k \in KeyIds : (k \in DOMAIN keys) # (k \in DOMAIN keys') =>
       LET owner == IF k \in DOMAIN keys THEN keys[k].owner ELSE keys'[k].owner
       IN \/ owner \notin DOMAIN users'
          \/ \E c \in Clients : /\ pc[c] \in {"createKey", "revokeKey"}
                                /\ local[c].via = "cookie" /\ local[c].who = owner]_accountVars
=============================================================================
