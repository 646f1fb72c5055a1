---------------------------- MODULE UserJobsProofs ----------------------------
(***************************************************************************)
(* Theorems about UserJobs: accounts, sessions and keys with the requests  *)
(* of user_jobs, for any clients, emails, identities, jobs and budgets.    *)
(* First what every statement of a sign-in, of the key routes and of a     *)
(* removal preserves, then the requests and the rows, then the theorems.   *)
(***************************************************************************)
EXTENDS UserJobs, FiniteSetTheorems, TLAPS

-----------------------------------------------------------------------------
(* Accounts: the inductive invariant.                                      *)

Request == [who : UserIds \cup {Nobody}, via : {"none", "cookie", "key"},
            identity : Identities \cup {Nobody}, email : Emails \cup {NoEmail},
            made : UserIds \cup {Nobody}, linked : BOOLEAN]

(* The steps of a sign-in by OAuth, and those before it has an account.    *)
Dance == {"lookup", "begin", "insertUser", "insertIdentity", "commit", "retry"}
Early == {"lookup", "begin", "insertUser"}
Linking == {"insertIdentity", "commit"}

(* No request runs out of ids: each that may still take one is paid for.   *)
Joining == {c \in Clients : pc[c] \in Early}
Minting == {c \in Clients : pc[c] = "createKey"}

TypeInv ==
  /\ AccountsTypeOK
  /\ local \in [Clients -> Request]
  /\ budget \in [signin : Nat, manage : Nat, track : Nat, faults : Nat]

CountInv ==
  /\ IsFiniteSet(Joining)
  /\ lastUser + budget.signin + Cardinality(Joining) <= MaxUsers
  /\ IsFiniteSet(Minting)
  /\ lastKey + budget.manage + Cardinality(Minting) <= MaxKeys

(* What a request carries along goes with the step it has got to.          *)
CarriesRight(c) ==
  /\ pc[c] \in Dance => local[c].identity \in Identities
  /\ pc[c] \notin Dance => local[c].identity = Nobody /\ local[c].email = NoEmail
  /\ pc[c] \in Dance \ {"lookup"} => local[c].email # NoEmail
  /\ local[c].email # NoEmail =>
       local[c].email \in Emails /\ <<local[c].identity, local[c].email>> \in vouched
  /\ local[c].linked <=> pc[c] = "commit"
  /\ local[c].made # Nobody => pc[c] \in Linking /\ local[c].who = local[c].made
  /\ pc[c] \in {"createKey", "revokeKey"} => local[c].via = "cookie"

(* What a sign-in has read and inserted is still true of the tables: the   *)
(* index holds its email, the row lock its account, the key its identity.  *)
ReadsRight(c) ==
  /\ local[c].made # Nobody =>
       /\ local[c].made \notin DOMAIN users
       /\ \A u \in DOMAIN users : users[u].email # local[c].email
  /\ pc[c] \in Linking =>
       /\ local[c].who \in 1..lastUser
       /\ local[c].who \in DOMAIN users => users[local[c].who].email = local[c].email
  /\ pc[c] = "commit" =>
       /\ local[c].identity \notin DOMAIN identities
       /\ local[c].who \in DOMAIN users \cup {local[c].made}

(* Transactions that are open together insert different things.            *)
Apart(c, d) ==
  /\ local[c].made # Nobody /\ local[d].made # Nobody => local[c].email # local[d].email
  /\ local[c].linked /\ local[d].linked => local[c].identity # local[d].identity
  /\ pc[c] \in Linking /\ local[d].made # Nobody => local[c].who # local[d].made

(* An account that an identity has opened is no account to come.           *)
OpenedInv ==
  \A o \in opened : o[2] \in 1..lastUser /\ \A c \in Clients : local[c].made # o[2]

(* A sign-in that is about to fail knows whom to blame.                    *)
Blames(c) ==
  local[c].identity # Nobody =>
    /\ pc[c] = "insertUser" /\ EmailTaken(local[c].email) =>
         c \in contested \/ Linked(c)
    /\ pc[c] = "insertIdentity" /\ local[c].who \notin DOMAIN users \cup {local[c].made} =>
         c \in contested
    /\ pc[c] = "retry" => c \in contested \/ Linked(c)

RequestInv ==
  /\ \A c \in Clients : CarriesRight(c) /\ ReadsRight(c) /\ Blames(c)
  /\ \A c, d \in Clients : c # d => Apart(c, d)

AccountsInv == TypeInv /\ CountInv /\ RequestInv /\ OpenedInv /\ AccountsSound /\ SignInResolves

-----------------------------------------------------------------------------
(* What happens to what a request carries.                                 *)

LEMMA NobodyIsNoId == Nobody \notin UserIds /\ Nobody \notin Clients
  BY AccountsAssumption DEF UserIds

LEMMA BlankRequest ==
  /\ Blank \in Request
  /\ Blank.who = Nobody /\ Blank.via = "none" /\ Blank.identity = Nobody
  /\ Blank.email = NoEmail /\ Blank.made = Nobody /\ ~Blank.linked
  BY DEF Blank, Request

LEMMA FoundRequest ==
  ASSUME NEW l \in Request, NEW u \in UserIds
  PROVE  LET r == [l EXCEPT !.who = u]
         IN /\ r \in Request /\ r.who = u
            /\ r.via = l.via /\ r.identity = l.identity /\ r.email = l.email
            /\ r.made = l.made /\ r.linked = l.linked
  BY DEF Request

LEMMA MadeRequest ==
  ASSUME NEW l \in Request, NEW u \in UserIds
  PROVE  LET r == [l EXCEPT !.who = u, !.made = u]
         IN /\ r \in Request /\ r.who = u /\ r.made = u
            /\ r.via = l.via /\ r.identity = l.identity /\ r.email = l.email
            /\ r.linked = l.linked
  BY DEF Request

LEMMA LinkedRequest ==
  ASSUME NEW l \in Request
  PROVE  LET r == [l EXCEPT !.linked = TRUE]
         IN /\ r \in Request /\ r.linked
            /\ r.who = l.who /\ r.made = l.made
            /\ r.via = l.via /\ r.identity = l.identity /\ r.email = l.email
  BY DEF Request

LEMMA LostRequest ==
  ASSUME NEW l \in Request
  PROVE  LET r == [l EXCEPT !.made = Nobody, !.linked = FALSE, !.who = Nobody]
         IN /\ r \in Request /\ ~r.linked /\ r.who = Nobody /\ r.made = Nobody
            /\ r.via = l.via /\ r.identity = l.identity /\ r.email = l.email
  BY DEF Request

LEMMA BudgetSpent ==
  ASSUME budget \in [signin : Nat, manage : Nat, track : Nat, faults : Nat],
         NEW class \in {"signin", "manage", "track", "faults"}, Spend(class)
  PROVE  /\ budget' \in [signin : Nat, manage : Nat, track : Nat, faults : Nat]
         /\ budget[class] > 0
         /\ budget'[class] = budget[class] - 1
         /\ \A x \in {"signin", "manage", "track", "faults"} \ {class} : budget'[x] = budget[x]
         /\ budget' # budget
  BY DEF Spend

-----------------------------------------------------------------------------
(* Steps that leave the accounts and their identities alone.               *)

Bystanders(c) ==
  \A d \in Clients \ {c} : /\ pc'[d] = pc[d] /\ local'[d] = local[d]
                           /\ d \in contested => d \in contested'

LEMMA OwnStep ==
  ASSUME TypeInv, RequestInv, NEW c \in Clients, Bystanders(c),
         UNCHANGED <<users, identities>>, lastUser' \in Nat, lastUser <= lastUser',
         vouched \subseteq vouched',
         CarriesRight(c)', ReadsRight(c)', Blames(c)',
         \A d \in Clients \ {c} : Apart(c, d)' /\ Apart(d, c)'
  PROVE  RequestInv'
<1>0. lastUser \in Nat /\ 1..lastUser \subseteq 1..lastUser'
  BY AccountsAssumption DEF TypeInv, AccountsTypeOK
<1>1. ASSUME NEW d \in Clients \ {c} PROVE CarriesRight(d)'
  <2>1. CarriesRight(d) /\ pc'[d] = pc[d] /\ local'[d] = local[d]
    BY DEF RequestInv, Bystanders
  <2> QED BY <2>1 DEF CarriesRight
<1>2. ASSUME NEW d \in Clients \ {c} PROVE ReadsRight(d)'
  <2>1. ReadsRight(d) /\ pc'[d] = pc[d] /\ local'[d] = local[d]
    BY DEF RequestInv, Bystanders
  <2> QED BY <2>1, <1>0 DEF ReadsRight
<1>3. ASSUME NEW d \in Clients \ {c} PROVE Blames(d)'
  <2>1. /\ Blames(d) /\ pc'[d] = pc[d] /\ local'[d] = local[d]
        /\ d \in contested => d \in contested'
    BY DEF RequestInv, Bystanders
  <2> QED BY <2>1 DEF Blames, Linked, EmailTaken, OwnerOf
<1>4. ASSUME NEW d \in Clients \ {c}, NEW e \in Clients \ {c}, d # e PROVE Apart(d, e)'
  <2>1. /\ Apart(d, e) /\ pc'[d] = pc[d] /\ local'[d] = local[d]
        /\ pc'[e] = pc[e] /\ local'[e] = local[e]
    BY <1>4 DEF RequestInv, Bystanders
  <2> QED BY <2>1 DEF Apart
<1> QED BY <1>1, <1>2, <1>3, <1>4 DEF RequestInv

(* A request that is no sign-in (any more).                                *)
Plain(c) ==
  /\ pc[c] \notin Dance
  /\ local[c].identity = Nobody /\ local[c].email = NoEmail
  /\ local[c].made = Nobody /\ ~local[c].linked
  /\ pc[c] \in {"createKey", "revokeKey"} => local[c].via = "cookie"

LEMMA PlainStep ==
  ASSUME TypeInv, RequestInv, NEW c \in Clients, Bystanders(c), Plain(c)',
         UNCHANGED <<users, identities>>, lastUser' \in Nat, lastUser <= lastUser',
         vouched \subseteq vouched'
  PROVE  RequestInv'
<1>1. /\ Dance = {"lookup", "begin", "insertUser", "insertIdentity", "commit", "retry"}
      /\ Linking = {"insertIdentity", "commit"}
  BY DEF Dance, Linking
<1>2. CarriesRight(c)'
  BY <1>1 DEF CarriesRight, Plain
<1>3. ReadsRight(c)' /\ Blames(c)'
  BY <1>1 DEF ReadsRight, Blames, Plain
<1>4. ASSUME NEW d \in Clients \ {c} PROVE Apart(c, d)' /\ Apart(d, c)'
  BY <1>1 DEF Apart, Plain
<1> QED BY <1>2, <1>3, <1>4, OwnStep

(* A step that leaves every request alone, and the tables they read.       *)
LEMMA AsideStep ==
  ASSUME TypeInv, RequestInv,
         UNCHANGED <<users, identities, pc, local>>,
         lastUser' \in Nat, lastUser <= lastUser',
         vouched \subseteq vouched', contested \subseteq contested'
  PROVE  RequestInv'
<1>0. lastUser \in Nat /\ 1..lastUser \subseteq 1..lastUser'
  BY AccountsAssumption DEF TypeInv, AccountsTypeOK
<1>1. ASSUME NEW d \in Clients PROVE CarriesRight(d)' /\ Blames(d)'
  BY DEF RequestInv, CarriesRight, Blames, Linked, EmailTaken, OwnerOf
<1>2. ASSUME NEW d \in Clients PROVE ReadsRight(d)'
  <2>1. ReadsRight(d)
    BY DEF RequestInv
  <2> QED BY <2>1, <1>0 DEF ReadsRight
<1>3. ASSUME NEW d \in Clients, NEW e \in Clients, d # e PROVE Apart(d, e)'
  BY <1>3 DEF RequestInv, Apart
<1> QED BY <1>1, <1>2, <1>3 DEF RequestInv

-----------------------------------------------------------------------------
(* Ids: what a step takes is paid for, by the budget or by the place of    *)
(* the request.                                                            *)

LEMMA SetCount ==
  ASSUME NEW S, NEW T, NEW c, IsFiniteSet(S),
         NEW in \in BOOLEAN, T = IF in THEN S \cup {c} ELSE S \ {c}
  PROVE  /\ IsFiniteSet(T) /\ Cardinality(S) \in Nat /\ Cardinality(T) \in Nat
         /\ Cardinality(T) + (IF c \in S THEN 1 ELSE 0)
              = Cardinality(S) + (IF in THEN 1 ELSE 0)
<1>1. Cardinality(S) \in Nat
  BY FS_CardinalityType
<1>2. CASE in
  <2>1. T = S \cup {c}
    BY <1>2
  <2> QED BY <1>1, <1>2, <2>1, FS_AddElement
<1>3. CASE ~in
  <2>1. T = S \ {c}
    BY <1>3
  <2>2. Cardinality(T) \in Nat
    BY <2>1, FS_RemoveElement, FS_CardinalityType
  <2> QED BY <1>1, <1>3, <2>1, <2>2, FS_RemoveElement
<1> QED BY <1>2, <1>3

LEMMA CountMove ==
  ASSUME TypeInv, CountInv, NEW c \in Clients, NEW s \in Steps, pc' = [pc EXCEPT ![c] = s],
         budget' \in [signin : Nat, manage : Nat, track : Nat, faults : Nat],
         lastUser' \in Nat, lastKey' \in Nat,
         lastUser' + budget'.signin + (IF s \in Early THEN 1 ELSE 0)
           <= lastUser + budget.signin + (IF pc[c] \in Early THEN 1 ELSE 0),
         lastKey' + budget'.manage + (IF s = "createKey" THEN 1 ELSE 0)
           <= lastKey + budget.manage + (IF pc[c] = "createKey" THEN 1 ELSE 0)
  PROVE  CountInv' /\ lastUser' \in 0..MaxUsers /\ lastKey' \in 0..MaxKeys
<1>1. /\ lastUser \in Nat /\ lastKey \in Nat /\ pc \in [Clients -> Steps]
      /\ budget.signin \in Nat /\ budget.manage \in Nat
      /\ budget'.signin \in Nat /\ budget'.manage \in Nat
      /\ MaxUsers \in Nat /\ MaxKeys \in Nat
  BY AccountsAssumption DEF TypeInv, AccountsTypeOK
<1>2. /\ Joining' = IF s \in Early THEN Joining \cup {c} ELSE Joining \ {c}
      /\ c \in Joining <=> pc[c] \in Early
  BY <1>1 DEF Joining
<1>3. /\ Minting' = IF s = "createKey" THEN Minting \cup {c} ELSE Minting \ {c}
      /\ c \in Minting <=> pc[c] = "createKey"
  BY <1>1 DEF Minting
<1> DEFINE early == s \in Early
           mint == s = "createKey"
<1>4. /\ IsFiniteSet(Joining') /\ Cardinality(Joining) \in Nat /\ Cardinality(Joining') \in Nat
      /\ Cardinality(Joining') + (IF c \in Joining THEN 1 ELSE 0)
           = Cardinality(Joining) + (IF early THEN 1 ELSE 0)
  <2>1. early \in BOOLEAN /\ Joining' = IF early THEN Joining \cup {c} ELSE Joining \ {c}
    BY <1>2
  <2>2. IsFiniteSet(Joining)
    BY DEF CountInv
  <2> HIDE DEF early, Joining
  <2> QED BY <2>1, <2>2, SetCount
<1>5. /\ IsFiniteSet(Minting') /\ Cardinality(Minting) \in Nat /\ Cardinality(Minting') \in Nat
      /\ Cardinality(Minting') + (IF c \in Minting THEN 1 ELSE 0)
           = Cardinality(Minting) + (IF mint THEN 1 ELSE 0)
  <2>1. mint \in BOOLEAN /\ Minting' = IF mint THEN Minting \cup {c} ELSE Minting \ {c}
    BY <1>3
  <2>2. IsFiniteSet(Minting)
    BY DEF CountInv
  <2> HIDE DEF mint, Minting
  <2> QED BY <2>1, <2>2, SetCount
<1>6. /\ lastUser + budget.signin + Cardinality(Joining) <= MaxUsers
      /\ lastKey + budget.manage + Cardinality(Minting) <= MaxKeys
  BY DEF CountInv
<1>7. lastUser' + budget'.signin + Cardinality(Joining') <= MaxUsers /\ lastUser' \in 0..MaxUsers
  BY <1>1, <1>2, <1>4, <1>6
<1>8. lastKey' + budget'.manage + Cardinality(Minting') <= MaxKeys /\ lastKey' \in 0..MaxKeys
  BY <1>1, <1>3, <1>5, <1>6
<1> QED BY <1>4, <1>5, <1>7, <1>8 DEF CountInv

LEMMA CountStay ==
  ASSUME TypeInv, CountInv, UNCHANGED pc,
         budget' \in [signin : Nat, manage : Nat, track : Nat, faults : Nat],
         lastUser' \in Nat, lastKey' \in Nat,
         lastUser' + budget'.signin <= lastUser + budget.signin,
         lastKey' + budget'.manage <= lastKey + budget.manage
  PROVE  CountInv' /\ lastUser' \in 0..MaxUsers /\ lastKey' \in 0..MaxKeys
<1>1. /\ lastUser \in Nat /\ lastKey \in Nat
      /\ budget.signin \in Nat /\ budget.manage \in Nat
      /\ budget'.signin \in Nat /\ budget'.manage \in Nat
      /\ MaxUsers \in Nat /\ MaxKeys \in Nat
  BY AccountsAssumption DEF TypeInv, AccountsTypeOK
<1>2. Joining' = Joining /\ Minting' = Minting
  BY DEF Joining, Minting
<1>3. Cardinality(Joining) \in Nat /\ Cardinality(Minting) \in Nat
  BY FS_CardinalityType DEF CountInv
<1> QED BY <1>1, <1>2, <1>3 DEF CountInv

-----------------------------------------------------------------------------
(* The statements one by one.                                              *)

LEMMA Moved ==
  ASSUME TypeInv, NEW c \in Clients, NEW s \in Steps, NEW r \in Request,
         pc' = [pc EXCEPT ![c] = s], local' = [local EXCEPT ![c] = r]
  PROVE  /\ pc' \in [Clients -> Steps] /\ pc'[c] = s
         /\ local' \in [Clients -> Request] /\ local'[c] = r
         /\ \A d \in Clients \ {c} : pc'[d] = pc[d] /\ local'[d] = local[d]
<1>1. pc \in [Clients -> Steps] /\ local \in [Clients -> Request]
  BY DEF TypeInv, AccountsTypeOK
<1> QED BY <1>1

LEMMA TypeKept ==
  ASSUME TypeInv, UNCHANGED <<users, identities>>,
         lastUser' \in 0..MaxUsers, lastUser <= lastUser', lastKey' \in 0..MaxKeys,
         DOMAIN keys' \subseteq 1..lastKey',
         \A k \in DOMAIN keys' : keys'[k].owner \in DOMAIN users,
         session' \in [Clients -> UserIds \cup {Nobody}], started' \subseteq Clients,
         pc' \in [Clients -> Steps], local' \in [Clients -> Request],
         budget' \in [signin : Nat, manage : Nat, track : Nat, faults : Nat],
         vouched' \subseteq Identities \X Emails, opened' \subseteq Identities \X UserIds,
         contested' \subseteq Clients
  PROVE  TypeInv'
<1>1. \A c \in Clients : local'[c].who \in UserIds \cup {Nobody}
  BY DEF Request
<1>2. 1..lastUser \subseteq 1..lastUser'
  BY AccountsAssumption DEF TypeInv, AccountsTypeOK
<1> QED BY <1>1, <1>2 DEF TypeInv, AccountsTypeOK

LEMMA AnswerFacts ==
  ASSUME TypeInv, NEW c \in Clients,
         pc' = [pc EXCEPT ![c] = "idle"], local' = [local EXCEPT ![c] = Blank],
         contested \ {c} \subseteq contested'
  PROVE  /\ pc' \in [Clients -> Steps] /\ local' \in [Clients -> Request]
         /\ Bystanders(c) /\ Plain(c)' /\ pc'[c] = "idle" /\ local'[c] = Blank
         /\ \A d \in Clients \ {c} : pc'[d] = pc[d] /\ local'[d] = local[d]
<1>1. "idle" \in Steps /\ "idle" \notin Dance
  BY DEF Steps, Dance
<1>2. /\ pc' \in [Clients -> Steps] /\ pc'[c] = "idle"
      /\ local' \in [Clients -> Request] /\ local'[c] = Blank
      /\ \A d \in Clients \ {c} : pc'[d] = pc[d] /\ local'[d] = local[d]
  BY <1>1, BlankRequest, Moved
<1>3. Bystanders(c)
  BY <1>2 DEF Bystanders
<1>4. Plain(c)'
  BY <1>1, <1>2, BlankRequest DEF Plain
<1> QED BY <1>2, <1>3, <1>4

Quiet == TypeInv /\ CountInv /\ RequestInv

(* The requests that leave no trace in the accounts, and ExpireKey.        *)
LEMMA AsideActions ==
  ASSUME Quiet, NEW c \in Clients,
         \/ \E email \in Emails : Login(c, email)
         \/ Logout(c) \/ OAuthStart(c) \/ CallbackFails(c)
         \/ \E k \in KeyIds : ExpireKey(k)
  PROVE  Quiet'
<1> USE DEF Quiet
<1>1. /\ UNCHANGED <<users, lastUser, identities, lastKey, pc, local, vouched, opened, contested>>
      /\ lastUser \in Nat /\ lastKey \in Nat
  BY DEF Login, Logout, OAuthStart, CallbackFails, ExpireKey, tables, keyring, TypeInv,
         AccountsTypeOK
<1>2. /\ budget' \in [signin : Nat, manage : Nat, track : Nat, faults : Nat]
      /\ budget'.signin <= budget.signin /\ budget'.manage <= budget.manage
  <2>1. /\ budget \in [signin : Nat, manage : Nat, track : Nat, faults : Nat]
        /\ budget.signin \in Nat /\ budget.manage \in Nat
    BY DEF TypeInv
  <2>2. ASSUME Spend("signin")
        PROVE  /\ budget' \in [signin : Nat, manage : Nat, track : Nat, faults : Nat]
               /\ budget'.signin <= budget.signin /\ budget'.manage <= budget.manage
    <3>1. /\ budget' \in [signin : Nat, manage : Nat, track : Nat, faults : Nat]
          /\ budget'["signin"] = budget["signin"] - 1 /\ budget'["manage"] = budget["manage"]
      BY <2>1, <2>2, BudgetSpent
    <3> QED BY <2>1, <3>1
  <2> QED BY <2>1, <2>2 DEF Login, Logout, OAuthStart, CallbackFails, ExpireKey
<1>3. /\ session' \in [Clients -> UserIds \cup {Nobody}] /\ started' \subseteq Clients
  <2>1. /\ session \in [Clients -> UserIds \cup {Nobody}] /\ started \subseteq Clients
        /\ DOMAIN users \subseteq UserIds
    BY AccountsAssumption DEF TypeInv, AccountsTypeOK, UserIds
  <2>2. \A email \in Emails : OwnerOf(email) \subseteq UserIds
    BY <2>1 DEF OwnerOf
  <2> QED BY <2>1, <2>2 DEF Login, Logout, OAuthStart, CallbackFails, ExpireKey, cookies
<1>4. /\ DOMAIN keys' \subseteq DOMAIN keys
      /\ \A k \in DOMAIN keys' : keys'[k].owner = keys[k].owner
  <2>1. ASSUME NEW k \in KeyIds, ExpireKey(k)
        PROVE  /\ DOMAIN keys' \subseteq DOMAIN keys
               /\ \A q \in DOMAIN keys' : keys'[q].owner = keys[q].owner
    BY <2>1 DEF ExpireKey, LiveKeys
  <2> QED BY <2>1 DEF Login, Logout, OAuthStart, CallbackFails, keyring
<1>5. CountInv' /\ lastUser' \in 0..MaxUsers /\ lastKey' \in 0..MaxKeys
  <2>1. /\ budget.signin \in Nat /\ budget.manage \in Nat
        /\ budget'.signin \in Nat /\ budget'.manage \in Nat
    BY <1>2 DEF TypeInv
  <2>2. /\ lastUser' + budget'.signin <= lastUser + budget.signin
        /\ lastKey' + budget'.manage <= lastKey + budget.manage
    BY <1>1, <1>2, <2>1
  <2> QED BY <1>1, <1>2, <2>2, CountStay
<1>6. TypeInv'
  <2>1. DOMAIN keys' \subseteq 1..lastKey' /\ \A k \in DOMAIN keys' : keys'[k].owner \in DOMAIN users
    BY <1>1, <1>4 DEF TypeInv, AccountsTypeOK
  <2>2. /\ pc' \in [Clients -> Steps] /\ local' \in [Clients -> Request]
        /\ vouched' \subseteq Identities \X Emails /\ opened' \subseteq Identities \X UserIds
        /\ contested' \subseteq Clients /\ lastUser <= lastUser'
    BY <1>1 DEF TypeInv, AccountsTypeOK
  <2> QED BY <1>1, <1>2, <1>3, <1>5, <2>1, <2>2, TypeKept
<1>7. RequestInv'
  BY <1>1, AsideStep
<1> QED BY <1>5, <1>6, <1>7

(* A request that starts outside a sign-in, goes on there, or ends.        *)
LEMMA PlainMove ==
  ASSUME Quiet, NEW c \in Clients, NEW s \in Steps \ Dance, NEW r \in Request,
         pc' = [pc EXCEPT ![c] = s], local' = [local EXCEPT ![c] = r],
         r.identity = Nobody, r.email = NoEmail, r.made = Nobody, ~r.linked,
         s \in {"createKey", "revokeKey"} => r.via = "cookie",
         UNCHANGED <<users, identities, lastUser>>,
         contested \ {c} \subseteq contested', contested' \subseteq Clients,
         DOMAIN keys' \subseteq 1..lastKey',
         \A k \in DOMAIN keys' : keys'[k].owner \in DOMAIN users,
         session' \in [Clients -> UserIds \cup {Nobody}], started' \subseteq Clients,
         vouched \subseteq vouched', vouched' \subseteq Identities \X Emails,
         opened' \subseteq Identities \X UserIds,
         budget' \in [signin : Nat, manage : Nat, track : Nat, faults : Nat],
         budget'.signin <= budget.signin, lastKey' \in Nat,
         lastKey' + budget'.manage + (IF s = "createKey" THEN 1 ELSE 0)
           <= lastKey + budget.manage + (IF pc[c] = "createKey" THEN 1 ELSE 0)
  PROVE  Quiet'
<1> USE DEF Quiet
<1>1. /\ pc' \in [Clients -> Steps] /\ pc'[c] = s
      /\ local' \in [Clients -> Request] /\ local'[c] = r
      /\ \A d \in Clients \ {c} : pc'[d] = pc[d] /\ local'[d] = local[d]
  BY Moved
<1>2. Bystanders(c)
  BY <1>1 DEF Bystanders
<1>3. Plain(c)'
  BY <1>1 DEF Plain
<1>4. lastUser \in Nat /\ budget.signin \in Nat /\ budget'.signin \in Nat
  BY DEF TypeInv, AccountsTypeOK
<1>5. RequestInv'
  BY <1>2, <1>3, <1>4, PlainStep
<1>6. CountInv' /\ lastUser' \in 0..MaxUsers /\ lastKey' \in 0..MaxKeys
  <2>1. s \notin Early
    BY DEF Early, Dance
  <2>2. lastUser' + budget'.signin + (IF s \in Early THEN 1 ELSE 0)
          <= lastUser + budget.signin + (IF pc[c] \in Early THEN 1 ELSE 0)
    BY <1>4, <2>1
  <2> QED BY <1>4, <2>2, CountMove
<1>7. TypeInv'
  BY <1>1, <1>4, <1>6, TypeKept
<1> QED BY <1>5, <1>6, <1>7

(* The request is answered; keys may have come or gone.                    *)
LEMMA AnswerMove ==
  ASSUME Quiet, NEW c \in Clients, Answer(c),
         UNCHANGED <<users, identities, lastUser, vouched>>,
         DOMAIN keys' \subseteq 1..lastKey',
         \A k \in DOMAIN keys' : keys'[k].owner \in DOMAIN users,
         session' \in [Clients -> UserIds \cup {Nobody}], UNCHANGED started,
         opened' \subseteq Identities \X UserIds,
         budget' \in [signin : Nat, manage : Nat, track : Nat, faults : Nat],
         budget'.signin <= budget.signin, lastKey' \in Nat,
         lastKey' + budget'.manage
           <= lastKey + budget.manage + (IF pc[c] = "createKey" THEN 1 ELSE 0)
  PROVE  Quiet'
<1>1. /\ pc' = [pc EXCEPT ![c] = "idle"] /\ local' = [local EXCEPT ![c] = Blank]
      /\ contested' = contested \ {c}
  BY DEF Answer
<1>2. contested' \subseteq Clients /\ contested \ {c} \subseteq contested' /\ started' \subseteq Clients
      /\ vouched' \subseteq Identities \X Emails /\ vouched \subseteq vouched'
  BY <1>1 DEF Quiet, TypeInv, AccountsTypeOK
<1>3. "idle" \in Steps \ Dance /\ "idle" \notin {"createKey", "revokeKey"}
  BY DEF Steps, Dance
<1>4. lastKey' + budget'.manage + (IF "idle" = "createKey" THEN 1 ELSE 0)
        <= lastKey + budget.manage + (IF pc[c] = "createKey" THEN 1 ELSE 0)
  <2>1. budget'.manage \in Nat
    OBVIOUS
  <2> QED BY <2>1
<1> QED BY <1>1, <1>2, <1>3, <1>4, BlankRequest, PlainMove

(* Sign-ins that end without an account of their making.                   *)
LEMMA SignInEnds ==
  ASSUME Quiet, NEW c \in Clients, Answer(c),
         \/ Known(c)
         \/ Fail(c) /\ (Unknown(c) \/ CreateUserIdentity(c) \/ RetryFails(c)
                        \/ (SignInError(c) /\ UNCHANGED <<users, identities>>))
  PROVE  Quiet'
<1>1. /\ UNCHANGED <<users, identities, lastUser, vouched, keys, lastKey, started>>
      /\ lastKey' \in Nat
      /\ DOMAIN keys' \subseteq 1..lastKey' /\ \A k \in DOMAIN keys' : keys'[k].owner \in DOMAIN users
  BY DEF Known, Unknown, CreateUserIdentity, RetryFails, SignInError, tables, keyring,
         Quiet, TypeInv, AccountsTypeOK
<1>2. /\ session' \in [Clients -> UserIds \cup {Nobody}]
      /\ opened' \subseteq Identities \X UserIds
  <2>1. /\ session \in [Clients -> UserIds \cup {Nobody}] /\ opened \subseteq Identities \X UserIds
        /\ \A i \in DOMAIN identities : i \in Identities /\ identities[i] \in UserIds
    <3>1. lastUser \in 0..MaxUsers /\ DOMAIN users \subseteq 1..lastUser
      BY DEF Quiet, TypeInv, AccountsTypeOK
    <3>2. DOMAIN users \subseteq UserIds
      BY <3>1, AccountsAssumption DEF UserIds
    <3> QED BY <3>2 DEF Quiet, TypeInv, AccountsTypeOK
  <2> QED BY <2>1 DEF Known, SetSession, Fail, Unknown, CreateUserIdentity, RetryFails, SignInError
<1>3. /\ budget' \in [signin : Nat, manage : Nat, track : Nat, faults : Nat]
      /\ budget'.signin <= budget.signin /\ budget'.manage <= budget.manage
      /\ budget.manage \in Nat /\ budget'.manage \in Nat
  <2>1. /\ budget \in [signin : Nat, manage : Nat, track : Nat, faults : Nat]
        /\ budget.signin \in Nat /\ budget.manage \in Nat
    BY DEF Quiet, TypeInv
  <2>2. ASSUME Spend("faults")
        PROVE  /\ budget' \in [signin : Nat, manage : Nat, track : Nat, faults : Nat]
               /\ budget'.signin <= budget.signin /\ budget'.manage <= budget.manage
    <3>1. /\ budget' \in [signin : Nat, manage : Nat, track : Nat, faults : Nat]
          /\ budget'["signin"] = budget["signin"] /\ budget'["manage"] = budget["manage"]
      BY <2>1, <2>2, BudgetSpent
    <3> QED BY <2>1, <3>1
  <2>3. UNCHANGED budget \/ Spend("faults")
    BY DEF Known, Unknown, CreateUserIdentity, RetryFails, SignInError
  <2> QED BY <2>1, <2>2, <2>3
<1>4. lastKey' + budget'.manage
        <= lastKey + budget.manage + (IF pc[c] = "createKey" THEN 1 ELSE 0)
  BY <1>1, <1>3
<1> QED BY <1>1, <1>2, <1>3, <1>4, AnswerMove

-----------------------------------------------------------------------------
(* Requests that get in by a session or a key.                             *)

LEMMA Credentials ==
  ASSUME TypeInv, NEW c \in Clients
  PROVE  /\ \A a \in ByCookie(c) : a[1] = "cookie" /\ a[2] \in UserIds
         /\ \A a \in RequireAuthOrKey(c) : a[1] \in {"cookie", "key"} /\ a[2] \in UserIds
<1>1. session[c] \in UserIds \cup {Nobody} /\ \A k \in LiveKeys : keys[k].owner \in UserIds
  <2>1. lastUser \in 0..MaxUsers /\ DOMAIN users \subseteq 1..lastUser
    BY DEF TypeInv, AccountsTypeOK
  <2>2. DOMAIN users \subseteq UserIds
    BY <2>1, AccountsAssumption DEF UserIds
  <2> QED BY <2>2 DEF TypeInv, AccountsTypeOK, LiveKeys
<1>2. \A a \in ByCookie(c) : a[1] = "cookie" /\ a[2] \in UserIds
  BY <1>1 DEF ByCookie
<1>3. \A a \in RequireAuthOrKey(c) : a \in ByCookie(c) \/ \E k \in LiveKeys : a = <<"key", keys[k].owner>>
  BY DEF RequireAuthOrKey
<1> QED BY <1>1, <1>2, <1>3

(* A request is let in, on behalf of an account.                           *)
LEMMA GetsIn ==
  ASSUME Quiet, NEW c \in Clients, pc[c] = "idle",
         NEW class \in {"manage", "track"}, Spend(class),
         NEW s \in Steps, s \in (IF class = "manage" THEN {"createKey", "revokeKey"} ELSE {"interact"}),
         NEW v \in {"cookie", "key"}, NEW u \in UserIds, class = "manage" => v = "cookie",
         local' = [local EXCEPT ![c] = [Blank EXCEPT !.via = v, !.who = u]],
         pc' = [pc EXCEPT ![c] = s],
         UNCHANGED <<tables, keyring, cookies, vouched, opened, contested>>
  PROVE  Quiet'
<1> DEFINE r == [Blank EXCEPT !.via = v, !.who = u]
<1>1. /\ r \in Request /\ r.via = v
      /\ r.identity = Nobody /\ r.email = NoEmail /\ r.made = Nobody /\ ~r.linked
  BY DEF Blank, Request
<1>2. s \in Steps \ Dance /\ (s \in {"createKey", "revokeKey"} => v = "cookie")
  BY DEF Dance
<1>3. local' = [local EXCEPT ![c] = r]
  OBVIOUS
<1>4. /\ UNCHANGED <<users, identities, lastUser, keys, lastKey, session, started, vouched, opened>>
      /\ contested' = contested
  BY DEF tables, keyring, cookies
<1>5. /\ budget' \in [signin : Nat, manage : Nat, track : Nat, faults : Nat]
      /\ budget'.signin <= budget.signin
      /\ lastKey' \in Nat
      /\ lastKey' + budget'.manage + (IF s = "createKey" THEN 1 ELSE 0)
           <= lastKey + budget.manage + (IF pc[c] = "createKey" THEN 1 ELSE 0)
  <2>1. /\ budget \in [signin : Nat, manage : Nat, track : Nat, faults : Nat]
        /\ budget["signin"] \in Nat /\ budget["manage"] \in Nat /\ lastKey \in Nat
    BY DEF Quiet, TypeInv, AccountsTypeOK
  <2>2. /\ budget' \in [signin : Nat, manage : Nat, track : Nat, faults : Nat]
        /\ budget[class] > 0 /\ budget'[class] = budget[class] - 1
        /\ \A x \in {"signin", "manage", "track", "faults"} \ {class} : budget'[x] = budget[x]
    BY <2>1, BudgetSpent
  <2>3. budget'["signin"] = budget["signin"]
    BY <2>2
  <2>4. CASE class = "manage"
    BY <1>4, <2>1, <2>2, <2>3, <2>4
  <2>5. CASE class = "track"
    <3>1. budget'["manage"] = budget["manage"] /\ s = "interact"
      BY <2>2, <2>5
    <3> QED BY <1>4, <2>1, <2>2, <2>3, <3>1
  <2> QED BY <2>4, <2>5
<1>6. /\ contested \ {c} \subseteq contested' /\ contested' \subseteq Clients
      /\ DOMAIN keys' \subseteq 1..lastKey' /\ \A k \in DOMAIN keys' : keys'[k].owner \in DOMAIN users
      /\ session' \in [Clients -> UserIds \cup {Nobody}] /\ started' \subseteq Clients
      /\ vouched \subseteq vouched' /\ vouched' \subseteq Identities \X Emails
      /\ opened' \subseteq Identities \X UserIds
  BY <1>4 DEF Quiet, TypeInv, AccountsTypeOK
<1> HIDE DEF r
<1> QED BY <1>1, <1>2, <1>3, <1>4, <1>5, <1>6, PlainMove

LEMMA KeyActions ==
  ASSUME Quiet, NEW c \in Clients, KeyStep(c)
  PROVE  Quiet'
<1>0. /\ lastKey \in Nat /\ DOMAIN keys \subseteq 1..lastKey
      /\ \A k \in DOMAIN keys : keys[k].owner \in DOMAIN users
      /\ budget \in [signin : Nat, manage : Nat, track : Nat, faults : Nat]
      /\ budget.manage \in Nat /\ budget.signin \in Nat
  BY DEF Quiet, TypeInv, AccountsTypeOK
<1>1. ASSUME NEW s \in {"createKey", "revokeKey"}, Manage(c, s) PROVE Quiet'
  <2>1. PICK a \in ByCookie(c) :
          local' = [local EXCEPT ![c] = [Blank EXCEPT !.via = a[1], !.who = a[2]]]
    BY <1>1 DEF Manage, ManagesKeys, RequireAuth
  <2>2. a[1] = "cookie" /\ a[2] \in UserIds
    BY Credentials DEF Quiet
  <2>3. /\ pc[c] = "idle" /\ Spend("manage") /\ pc' = [pc EXCEPT ![c] = s]
        /\ UNCHANGED <<tables, keyring, cookies, vouched, opened, contested>>
    BY <1>1 DEF Manage
  <2>4. s \in Steps
    BY DEF Steps
  <2> QED BY <2>1, <2>2, <2>3, <2>4, GetsIn
<1>2. CASE CreateAPIKey(c)
  <2>1. /\ Answer(c) /\ UNCHANGED <<users, identities, lastUser, vouched, started, session, opened, budget>>
        /\ pc[c] = "createKey"
    BY <1>2 DEF CreateAPIKey, Fail, tables
  <2>2. /\ lastKey' \in Nat /\ lastKey' <= lastKey + 1 /\ DOMAIN keys' \subseteq 1..lastKey'
        /\ \A k \in DOMAIN keys' : keys'[k].owner \in DOMAIN users
    <3>1. CASE local[c].who \in DOMAIN users
      <4>1. /\ lastKey' = lastKey + 1
            /\ DOMAIN keys' = DOMAIN keys \cup {lastKey + 1}
            /\ \A k \in DOMAIN keys' :
                 keys'[k].owner = IF k = lastKey + 1 THEN local[c].who ELSE keys[k].owner
        BY <1>2, <3>1 DEF CreateAPIKey
      <4> QED BY <1>0, <3>1, <4>1
    <3>2. CASE local[c].who \notin DOMAIN users
      BY <1>0, <1>2, <3>2 DEF CreateAPIKey, keyring
    <3> QED BY <3>1, <3>2
  <2>3. /\ session' \in [Clients -> UserIds \cup {Nobody}]
        /\ opened' \subseteq Identities \X UserIds
    BY <2>1 DEF Quiet, TypeInv, AccountsTypeOK
  <2>4. lastKey' + budget'.manage
          <= lastKey + budget.manage + (IF pc[c] = "createKey" THEN 1 ELSE 0)
    BY <1>0, <2>1, <2>2
  <2>5. budget'.signin <= budget.signin
    BY <1>0, <2>1
  <2> QED BY <1>0, <2>1, <2>2, <2>3, <2>4, <2>5, AnswerMove
<1>3. CASE RevokeAPIKey(c)
  <2>1. /\ Answer(c) /\ UNCHANGED <<users, identities, lastUser, vouched, started, session, opened, budget, lastKey>>
        /\ pc[c] = "revokeKey"
    BY <1>3 DEF RevokeAPIKey, Fail, tables
  <2>2. DOMAIN keys' \subseteq DOMAIN keys /\ \A k \in DOMAIN keys' : keys'[k] = keys[k]
    BY <1>3 DEF RevokeAPIKey, Revocable
  <2>3. /\ lastKey' \in Nat /\ DOMAIN keys' \subseteq 1..lastKey'
        /\ \A k \in DOMAIN keys' : keys'[k].owner \in DOMAIN users
    BY <1>0, <2>1, <2>2
  <2>4. /\ session' \in [Clients -> UserIds \cup {Nobody}]
        /\ opened' \subseteq Identities \X UserIds
    BY <2>1 DEF Quiet, TypeInv, AccountsTypeOK
  <2>5. lastKey' + budget'.manage
          <= lastKey + budget.manage + (IF pc[c] = "createKey" THEN 1 ELSE 0)
    BY <1>0, <2>1
  <2>6. budget'.signin <= budget.signin
    BY <1>0, <2>1
  <2> QED BY <1>0, <2>1, <2>3, <2>4, <2>5, <2>6, AnswerMove
<1> QED BY <1>1, <1>2, <1>3 DEF KeyStep

-----------------------------------------------------------------------------
(* A sign-in by OAuth, up to its commit.                                   *)

LEMMA DanceMove ==
  ASSUME Quiet, NEW c \in Clients, NEW s \in Dance, NEW r \in Request,
         pc' = [pc EXCEPT ![c] = s], local' = [local EXCEPT ![c] = r],
         UNCHANGED <<users, identities, keys, lastKey, session, opened, contested>>,
         started' \subseteq Clients,
         vouched \subseteq vouched', vouched' \subseteq Identities \X Emails,
         budget' \in [signin : Nat, manage : Nat, track : Nat, faults : Nat],
         budget'.manage = budget.manage,
         lastUser' \in Nat, lastUser <= lastUser',
         lastUser' + budget'.signin + (IF s \in Early THEN 1 ELSE 0)
           <= lastUser + budget.signin + (IF pc[c] \in Early THEN 1 ELSE 0),
         CarriesRight(c)', ReadsRight(c)', Blames(c)',
         \A d \in Clients \ {c} : Apart(c, d)' /\ Apart(d, c)'
  PROVE  Quiet'
<1> USE DEF Quiet
<1>1. s \in Steps /\ s # "createKey"
  BY DEF Dance, Steps
<1>2. /\ pc' \in [Clients -> Steps] /\ local' \in [Clients -> Request]
      /\ \A d \in Clients \ {c} : pc'[d] = pc[d] /\ local'[d] = local[d]
  BY <1>1, Moved
<1>3. Bystanders(c)
  BY <1>2 DEF Bystanders
<1>4. RequestInv'
  BY <1>3, OwnStep
<1>5. lastKey' \in Nat /\ budget.manage \in Nat
  BY DEF TypeInv, AccountsTypeOK
<1>6. CountInv' /\ lastUser' \in 0..MaxUsers /\ lastKey' \in 0..MaxKeys
  <2>1. lastKey' + budget'.manage + (IF s = "createKey" THEN 1 ELSE 0)
          <= lastKey + budget.manage + (IF pc[c] = "createKey" THEN 1 ELSE 0)
    BY <1>1, <1>5
  <2> QED BY <1>1, <1>5, <2>1, CountMove
<1>7. TypeInv'
  <2>1. /\ DOMAIN keys' \subseteq 1..lastKey' /\ \A k \in DOMAIN keys' : keys'[k].owner \in DOMAIN users
        /\ session' \in [Clients -> UserIds \cup {Nobody}]
        /\ opened' \subseteq Identities \X UserIds /\ contested' \subseteq Clients
    BY DEF TypeInv, AccountsTypeOK
  <2> QED BY <1>2, <1>6, <2>1, TypeKept
<1> QED BY <1>4, <1>6, <1>7

(* What holds of a sign-in that has inserted nothing yet.                  *)
LEMMA NothingInserted ==
  ASSUME Quiet, NEW c \in Clients, pc[c] \in Early
  PROVE  /\ local[c] \in Request /\ local[c].made = Nobody /\ ~local[c].linked
         /\ local[c].identity \in Identities
         /\ local[c].email # NoEmail => local[c].email \in Emails
                                      /\ <<local[c].identity, local[c].email>> \in vouched
  BY DEF Quiet, TypeInv, RequestInv, CarriesRight, Early, Linking, Dance

LEMMA CallbackArrives ==
  ASSUME Quiet, NEW c \in Clients, OAuthCallback(c)
  PROVE  Quiet'
<1>1. PICK i \in Identities, email \in Emails \cup {NoEmail}, verified \in BOOLEAN :
        /\ email = NoEmail => ~verified
        /\ local' = [local EXCEPT ![c] =
             [Blank EXCEPT !.identity = i, !.email = IF verified THEN email ELSE NoEmail]]
        /\ vouched' = IF verified THEN vouched \cup {<<i, email>>} ELSE vouched
  BY DEF OAuthCallback
<1> DEFINE e == IF verified THEN email ELSE NoEmail
           r == [Blank EXCEPT !.identity = i, !.email = e]
<1>2. /\ pc[c] = "idle" /\ pc' = [pc EXCEPT ![c] = "lookup"] /\ Spend("signin")
      /\ UNCHANGED <<users, identities, lastUser, keys, lastKey, session, opened, contested>>
      /\ started' \subseteq Clients
  BY DEF OAuthCallback, tables, keyring, Quiet, TypeInv, AccountsTypeOK
<1>3. /\ e \in Emails \cup {NoEmail}
      /\ e # NoEmail => e \in Emails /\ <<i, e>> \in vouched'
      /\ vouched \subseteq vouched' /\ vouched' \subseteq Identities \X Emails
  BY <1>1 DEF Quiet, TypeInv, AccountsTypeOK
<1> HIDE DEF e
<1>4. /\ r \in Request /\ r.identity = i /\ r.email = e
      /\ r.who = Nobody /\ r.made = Nobody /\ ~r.linked
  BY <1>3 DEF Blank, Request
<1>5. local' = [local EXCEPT ![c] = r]
  BY <1>1 DEF e
<1> HIDE DEF r
<1>6. "lookup" \in Steps /\ "lookup" \in Dance /\ "lookup" \in Early /\ "lookup" \notin Linking
  BY DEF Steps, Dance, Early, Linking
<1>7. local'[c] = r /\ pc'[c] = "lookup"
  BY <1>2, <1>4, <1>5, <1>6, Moved DEF Quiet
<1>8. CarriesRight(c)'
  BY <1>3, <1>4, <1>6, <1>7 DEF CarriesRight
<1>9. ReadsRight(c)' /\ Blames(c)'
  BY <1>4, <1>6, <1>7 DEF ReadsRight, Blames
<1>10. \A d \in Clients \ {c} : Apart(c, d)' /\ Apart(d, c)'
  BY <1>4, <1>6, <1>7 DEF Apart
<1>11. /\ budget' \in [signin : Nat, manage : Nat, track : Nat, faults : Nat]
       /\ budget'.manage = budget.manage /\ lastUser' \in Nat /\ lastUser <= lastUser'
       /\ lastUser' + budget'.signin + (IF "lookup" \in Early THEN 1 ELSE 0)
            <= lastUser + budget.signin + (IF pc[c] \in Early THEN 1 ELSE 0)
  <2>1. /\ budget \in [signin : Nat, manage : Nat, track : Nat, faults : Nat]
        /\ budget["signin"] \in Nat /\ lastUser \in Nat
    BY DEF Quiet, TypeInv, AccountsTypeOK
  <2>2. /\ budget' \in [signin : Nat, manage : Nat, track : Nat, faults : Nat]
        /\ budget'["signin"] = budget["signin"] - 1 /\ budget'["manage"] = budget["manage"]
    BY <1>2, <2>1, BudgetSpent
  <2>3. pc[c] \notin Early
    BY <1>2 DEF Early
  <2> QED BY <1>2, <1>6, <2>1, <2>2, <2>3
<1> QED BY <1>2, <1>3, <1>4, <1>5, <1>6, <1>8, <1>9, <1>10, <1>11, DanceMove

LEMMA BudgetStays ==
  ASSUME Quiet, UNCHANGED budget
  PROVE  /\ budget' \in [signin : Nat, manage : Nat, track : Nat, faults : Nat]
         /\ budget'.manage = budget.manage /\ budget'.signin = budget.signin
         /\ budget.signin \in Nat /\ lastUser \in Nat
  BY DEF Quiet, TypeInv, AccountsTypeOK

(* The identity is unknown, and the provider vouches for its email.        *)
LEMMA SignInBegins ==
  ASSUME Quiet, NEW c \in Clients, Unknown(c), Trusted(c)
  PROVE  Quiet'
<1>1. /\ pc[c] = "lookup" /\ pc' = [pc EXCEPT ![c] = "begin"]
      /\ UNCHANGED <<users, identities, lastUser, keys, lastKey, session, opened, contested,
                     local, budget, vouched, started>>
  BY DEF Unknown, tables, keyring
<1>2. /\ {"lookup", "begin"} \subseteq Early /\ "begin" \in Dance /\ "begin" \in Steps
      /\ "begin" \notin Linking
  BY DEF Early, Dance, Steps, Linking
<1> DEFINE r == local[c]
<1>3. /\ r \in Request /\ r.made = Nobody /\ ~r.linked /\ r.identity \in Identities
      /\ r.email # NoEmail /\ r.email \in Emails /\ <<r.identity, r.email>> \in vouched
  BY <1>1, <1>2, NothingInserted DEF Trusted
<1>4. local' = [local EXCEPT ![c] = r]
  BY <1>1 DEF Quiet, TypeInv
<1> HIDE DEF r
<1>5. local'[c] = r /\ pc'[c] = "begin"
  BY <1>1, <1>2, <1>3, <1>4, Moved DEF Quiet
<1>6. CarriesRight(c)'
  BY <1>1, <1>2, <1>3, <1>5 DEF CarriesRight
<1>7. ReadsRight(c)' /\ Blames(c)'
  BY <1>2, <1>3, <1>5 DEF ReadsRight, Blames
<1>8. \A d \in Clients \ {c} : Apart(c, d)' /\ Apart(d, c)'
  BY <1>2, <1>3, <1>5 DEF Apart
<1>9. /\ started' \subseteq Clients /\ vouched \subseteq vouched'
      /\ vouched' \subseteq Identities \X Emails /\ lastUser' \in Nat /\ lastUser <= lastUser'
  BY <1>1 DEF Quiet, TypeInv, AccountsTypeOK
<1>10. lastUser' + budget'.signin + (IF "begin" \in Early THEN 1 ELSE 0)
         <= lastUser + budget.signin + (IF pc[c] \in Early THEN 1 ELSE 0)
  BY <1>1, <1>2, BudgetStays
<1> QED BY <1>1, <1>2, <1>3, <1>4, <1>6, <1>7, <1>8, <1>9, <1>10, BudgetStays, DanceMove

(* The account of the email is looked for.                                 *)
LEMMA AccountFound ==
  ASSUME Quiet, NEW c \in Clients, FindAccount(c)
  PROVE  Quiet'
<1>1. /\ pc[c] = "begin"
      /\ UNCHANGED <<users, identities, lastUser, keys, lastKey, session, opened, contested,
                     budget, vouched, started>>
  BY DEF FindAccount, tables, keyring, cookies
<1>2. /\ {"begin", "insertUser"} \subseteq Early /\ {"begin", "insertUser", "insertIdentity"} \subseteq Dance
      /\ {"insertUser", "insertIdentity"} \subseteq Steps
      /\ "insertUser" \notin Linking /\ "insertIdentity" \in Linking /\ "insertIdentity" \notin Early
  BY DEF Early, Dance, Steps, Linking
<1> DEFINE l == local[c]
<1>3. /\ l \in Request /\ l.made = Nobody /\ ~l.linked /\ l.identity \in Identities
      /\ l.email # NoEmail /\ l.email \in Emails /\ <<l.identity, l.email>> \in vouched
  <2>1. l.email # NoEmail
    BY <1>1, <1>2 DEF Quiet, RequestInv, CarriesRight
  <2> QED BY <2>1, <1>1, <1>2, NothingInserted
<1>4. /\ started' \subseteq Clients /\ vouched \subseteq vouched'
      /\ vouched' \subseteq Identities \X Emails /\ lastUser' \in Nat /\ lastUser <= lastUser'
      /\ lastUser' + budget'.signin + 1
           <= lastUser + budget.signin + (IF pc[c] \in Early THEN 1 ELSE 0)
  <2>1. lastUser' \in Nat /\ pc[c] \in Early
    BY <1>1, <1>2 DEF Quiet, TypeInv, AccountsTypeOK
  <2> QED BY <1>1, <2>1, BudgetStays DEF Quiet, TypeInv, AccountsTypeOK
<1>5. CASE EmailTaken(l.email)
  <2>1. PICK u \in OwnerOf(l.email) :
          /\ local' = [local EXCEPT ![c] = [l EXCEPT !.who = u]]
          /\ pc' = [pc EXCEPT ![c] = "insertIdentity"]
    BY <1>5 DEF FindAccount
  <2>2. u \in DOMAIN users /\ users[u].email = l.email /\ u \in UserIds /\ u \in 1..lastUser
    BY AccountsAssumption DEF OwnerOf, Quiet, TypeInv, AccountsTypeOK, UserIds
  <2> DEFINE r == [l EXCEPT !.who = u]
  <2>3. /\ r \in Request /\ r.who = u /\ r.identity = l.identity /\ r.email = l.email
        /\ r.made = Nobody /\ ~r.linked
    <3> HIDE DEF l
    <3> QED BY <1>3, <2>2, FoundRequest
  <2>4. local' = [local EXCEPT ![c] = r]
    BY <2>1
  <2> HIDE DEF r, l
  <2>5. /\ local'[c] = r /\ pc'[c] = "insertIdentity"
        /\ \A d \in Clients \ {c} : pc'[d] = pc[d] /\ local'[d] = local[d]
    BY <1>2, <2>1, <2>3, <2>4, Moved DEF Quiet
  <2>6. CarriesRight(c)'
    BY <1>1, <1>2, <1>3, <2>3, <2>5 DEF CarriesRight
  <2>7. ReadsRight(c)'
    BY <1>1, <1>2, <1>3, <2>2, <2>3, <2>5 DEF ReadsRight
  <2>8. Blames(c)'
    BY <1>1, <2>2, <2>3, <2>5 DEF Blames
  <2>9. \A d \in Clients \ {c} : local[d].made # Nobody => local[d].made # u
    BY <2>2 DEF Quiet, RequestInv, ReadsRight
  <2>10. \A d \in Clients \ {c} : Apart(c, d)' /\ Apart(d, c)'
    BY <2>3, <2>5, <2>9 DEF Apart
  <2>11. lastUser' + budget'.signin + (IF "insertIdentity" \in Early THEN 1 ELSE 0)
           <= lastUser + budget.signin + (IF pc[c] \in Early THEN 1 ELSE 0)
    BY <1>1, <1>2, <1>4, BudgetStays
  <2> QED BY <1>1, <1>2, <1>4, <2>1, <2>3, <2>4, <2>6, <2>7, <2>8, <2>10, <2>11, BudgetStays,
             DanceMove
<1>6. CASE ~EmailTaken(l.email)
  <2>1. pc' = [pc EXCEPT ![c] = "insertUser"] /\ local' = local
    BY <1>6 DEF FindAccount
  <2>2. local' = [local EXCEPT ![c] = l]
    BY <2>1 DEF Quiet, TypeInv
  <2> HIDE DEF l
  <2>3. local'[c] = l /\ pc'[c] = "insertUser"
    BY <1>2, <1>3, <2>1, <2>2, Moved DEF Quiet
  <2>4. CarriesRight(c)'
    BY <1>1, <1>2, <1>3, <2>3 DEF CarriesRight
  <2>5. ReadsRight(c)'
    BY <1>2, <1>3, <2>3 DEF ReadsRight
  <2>6. Blames(c)'
    BY <1>1, <1>6, <2>3 DEF Blames, EmailTaken, OwnerOf
  <2>7. \A d \in Clients \ {c} : Apart(c, d)' /\ Apart(d, c)'
    BY <1>2, <1>3, <2>3 DEF Apart
  <2>8. lastUser' + budget'.signin + (IF "insertUser" \in Early THEN 1 ELSE 0)
          <= lastUser + budget.signin + (IF pc[c] \in Early THEN 1 ELSE 0)
    BY <1>2, <1>4
  <2> QED BY <1>1, <1>2, <1>3, <1>4, <2>1, <2>2, <2>4, <2>5, <2>6, <2>7, <2>8, BudgetStays, DanceMove
<1> QED BY <1>5, <1>6

(* A sign-in that has lost a race has something to find, or somebody to    *)
(* blame.                                                                  *)
LEMMA RaceLost ==
  ASSUME Quiet, NEW c \in Clients, pc[c] \in {"insertUser", "insertIdentity"}, LostRace(c),
         Linked(c) \/ (pc[c] = "insertUser" /\ EmailTaken(local[c].email)),
         UNCHANGED <<users, identities, keyring, started, budget, vouched, opened>>,
         lastUser' = lastUser + (IF pc[c] = "insertUser" THEN 1 ELSE 0)
  PROVE  Quiet'
<1> DEFINE l == local[c]
           r == [l EXCEPT !.made = Nobody, !.linked = FALSE, !.who = Nobody]
<1>1. /\ pc' = [pc EXCEPT ![c] = "retry"] /\ local' = [local EXCEPT ![c] = r]
      /\ UNCHANGED <<users, identities, keys, lastKey, session, opened, contested, started,
                     budget, vouched>>
  BY DEF LostRace, keyring
<1>2. /\ pc[c] \in Dance /\ "retry" \in Dance /\ "retry" \in Steps /\ "insertUser" \in Early
      /\ "insertIdentity" \notin Early /\ "retry" \notin Early /\ "retry" \notin Linking
  BY DEF Early, Dance, Steps, Linking
<1>3. /\ l \in Request /\ l.identity \in Identities /\ l.email # NoEmail /\ l.email \in Emails
      /\ <<l.identity, l.email>> \in vouched
      /\ l.identity # Nobody => Linked(c) \/ c \in contested
  BY <1>2 DEF Quiet, TypeInv, RequestInv, CarriesRight, Blames
<1> HIDE DEF l
<1>4. /\ r \in Request /\ ~r.linked /\ r.made = Nobody
      /\ r.identity = l.identity /\ r.email = l.email
  BY <1>3, LostRequest
<1> HIDE DEF r
<1>5. local'[c] = r /\ pc'[c] = "retry"
  BY <1>1, <1>2, <1>4, Moved DEF Quiet
<1>6. CarriesRight(c)'
  BY <1>1, <1>2, <1>3, <1>4, <1>5 DEF CarriesRight
<1>7. ReadsRight(c)'
  BY <1>2, <1>4, <1>5 DEF ReadsRight
<1>8. Blames(c)'
  BY <1>1, <1>3, <1>4, <1>5 DEF Blames, Linked, l
<1>9. \A d \in Clients \ {c} : Apart(c, d)' /\ Apart(d, c)'
  BY <1>2, <1>4, <1>5 DEF Apart
<1>10. /\ started' \subseteq Clients /\ vouched \subseteq vouched'
       /\ vouched' \subseteq Identities \X Emails /\ lastUser' \in Nat /\ lastUser <= lastUser'
  BY <1>1 DEF Quiet, TypeInv, AccountsTypeOK
<1>11. lastUser' + budget'.signin + (IF "retry" \in Early THEN 1 ELSE 0)
         <= lastUser + budget.signin + (IF pc[c] \in Early THEN 1 ELSE 0)
  BY <1>1, <1>2, BudgetStays
<1> QED BY <1>1, <1>2, <1>4, <1>6, <1>7, <1>8, <1>9, <1>10, <1>11, BudgetStays, DanceMove

(* The account is inserted in the transaction, or the email is taken.      *)
LEMMA AccountInserted ==
  ASSUME Quiet, NEW c \in Clients, CreateUser(c)
  PROVE  Quiet'
<1> DEFINE l == local[c]
<1>1. /\ pc[c] = "insertUser" /\ ~EmailPending(c, l.email) /\ lastUser' = lastUser + 1
      /\ UNCHANGED <<users, identities, keyring, started, budget, vouched, opened>>
      /\ UNCHANGED <<keys, lastKey, session, contested>>
  BY DEF CreateUser, keyring, LostRace
<1>2. CASE EmailTaken(l.email)
  <2>1. LostRace(c)
    BY <1>2 DEF CreateUser
  <2> QED BY <1>1, <1>2, <2>1, RaceLost
<1>3. CASE ~EmailTaken(l.email)
  <2> DEFINE m == lastUser + 1
             r == [l EXCEPT !.who = m, !.made = m]
  <2>1. pc' = [pc EXCEPT ![c] = "insertIdentity"] /\ local' = [local EXCEPT ![c] = r]
    BY <1>3 DEF CreateUser
  <2>2. /\ "insertUser" \in Early /\ "insertUser" \in Dance /\ "insertIdentity" \in Dance
        /\ "insertIdentity" \in Steps /\ "insertIdentity" \in Linking
        /\ "insertIdentity" \notin Early
    BY DEF Early, Dance, Steps, Linking
  <2>3. /\ l \in Request /\ l.made = Nobody /\ ~l.linked /\ l.identity \in Identities
        /\ l.email # NoEmail /\ l.email \in Emails /\ <<l.identity, l.email>> \in vouched
    <3>1. l.email # NoEmail
      BY <1>1, <2>2 DEF Quiet, RequestInv, CarriesRight
    <3> QED BY <3>1, <1>1, <2>2, NothingInserted
  <2>4. /\ m \in UserIds /\ m # Nobody /\ m \in 1..lastUser' /\ m \notin 1..lastUser
        /\ m \notin DOMAIN users
    <3>1. c \in Joining /\ IsFiniteSet(Joining)
      BY <1>1, <2>2 DEF Joining, Quiet, CountInv
    <3>2. Cardinality(Joining) \in Nat /\ Cardinality(Joining) # 0
      BY <3>1, FS_CardinalityType, FS_EmptySet
    <3>3. /\ lastUser \in Nat /\ budget.signin \in Nat /\ MaxUsers \in Nat
          /\ DOMAIN users \subseteq 1..lastUser
      BY AccountsAssumption DEF Quiet, TypeInv, AccountsTypeOK
    <3>4. lastUser + budget.signin + Cardinality(Joining) <= MaxUsers
      BY DEF Quiet, CountInv
    <3>5. lastUser + 1 \in 1..MaxUsers
      BY <3>2, <3>3, <3>4
    <3> QED BY <1>1, <3>3, <3>5, NobodyIsNoId DEF UserIds
  <2> HIDE DEF m, l
  <2>5. /\ r \in Request /\ r.who = m /\ r.made = m
        /\ r.identity = l.identity /\ r.email = l.email /\ ~r.linked
    BY <2>3, <2>4, MadeRequest
  <2> HIDE DEF r
  <2>6. /\ local'[c] = r /\ pc'[c] = "insertIdentity"
        /\ \A d \in Clients \ {c} : pc'[d] = pc[d] /\ local'[d] = local[d]
    BY <2>1, <2>2, <2>5, Moved DEF Quiet
  <2>7. CarriesRight(c)'
    BY <1>1, <2>2, <2>3, <2>5, <2>6 DEF CarriesRight
  <2>8. ReadsRight(c)'
    <3>1. \A u \in DOMAIN users : users[u].email # l.email
      BY <1>3 DEF EmailTaken, OwnerOf, l
    <3> QED BY <3>1, <1>1, <2>4, <2>5, <2>6 DEF ReadsRight
  <2>9. Blames(c)'
    BY <2>5, <2>6 DEF Blames
  <2>10. ASSUME NEW d \in Clients \ {c} PROVE Apart(c, d)' /\ Apart(d, c)'
    <3>1. local[d].made # Nobody => local[d].email # l.email
      BY <1>1 DEF EmailPending, l
    <3>2. /\ pc[d] \in Linking => local[d].who \in 1..lastUser
          /\ local[d].made # Nobody => pc[d] \in Linking /\ local[d].who = local[d].made
      BY DEF Quiet, RequestInv, CarriesRight, ReadsRight
    <3> QED BY <3>1, <3>2, <2>4, <2>5, <2>6 DEF Apart
  <2>11. /\ started' \subseteq Clients /\ vouched \subseteq vouched'
         /\ vouched' \subseteq Identities \X Emails /\ lastUser' \in Nat /\ lastUser <= lastUser'
    BY <1>1 DEF Quiet, TypeInv, AccountsTypeOK
  <2>12. lastUser' + budget'.signin + (IF "insertIdentity" \in Early THEN 1 ELSE 0)
           <= lastUser + budget.signin + (IF pc[c] \in Early THEN 1 ELSE 0)
    BY <1>1, <2>2, BudgetStays
  <2> QED BY <1>1, <2>1, <2>2, <2>5, <2>7, <2>8, <2>9, <2>10, <2>11, <2>12, BudgetStays, DanceMove
<1> QED BY <1>2, <1>3

(* The identity is inserted in the transaction, or linked by another.      *)
LEMMA IdentityInserted ==
  ASSUME Quiet, NEW c \in Clients, CreateUserIdentity(c), ~Fail(c)
  PROVE  Quiet'
<1> DEFINE l == local[c]
           r == [l EXCEPT !.linked = TRUE]
<1>1. /\ pc[c] = "insertIdentity" /\ ~IdentityPending(c, l.identity)
      /\ UNCHANGED <<users, identities, keyring, started, budget, vouched, opened>>
      /\ UNCHANGED <<lastUser, keys, lastKey, session, contested>>
  BY DEF CreateUserIdentity, tables, keyring, LostRace
<1>2. CASE Linked(c) /\ LostRace(c)
  <2>1. lastUser' = lastUser + (IF pc[c] = "insertUser" THEN 1 ELSE 0)
    BY <1>1 DEF Quiet, TypeInv, AccountsTypeOK
  <2> QED BY <1>1, <1>2, <2>1, RaceLost
<1>3. CASE /\ ~Linked(c) /\ l.who \in DOMAIN users \cup {l.made}
           /\ local' = [local EXCEPT ![c] = r] /\ pc' = [pc EXCEPT ![c] = "commit"]
  <2>1. /\ "insertIdentity" \in Dance /\ "commit" \in Dance /\ "commit" \in Steps
        /\ "insertIdentity" \in Linking /\ "commit" \in Linking
        /\ "insertIdentity" \notin Early /\ "commit" \notin Early
    BY DEF Early, Dance, Steps, Linking
  <2>2. /\ l \in Request /\ l.identity \in Identities /\ l.email # NoEmail /\ l.email \in Emails
        /\ <<l.identity, l.email>> \in vouched
        /\ l.made # Nobody => l.who = l.made
    BY <1>1, <2>1 DEF Quiet, TypeInv, RequestInv, CarriesRight
  <2>3. /\ l.made # Nobody => /\ l.made \notin DOMAIN users
                              /\ \A u \in DOMAIN users : users[u].email # l.email
        /\ l.who \in 1..lastUser /\ (l.who \in DOMAIN users => users[l.who].email = l.email)
    BY <1>1, <2>1 DEF Quiet, RequestInv, ReadsRight
  <2>4. /\ l.identity \notin DOMAIN identities /\ l.who \in DOMAIN users \cup {l.made}
    BY <1>3 DEF Linked
  <2>5. \A d \in Clients \ {c} : /\ local[d].linked => local[d].identity # l.identity
                                 /\ Apart(c, d) /\ Apart(d, c)
    BY <1>1 DEF IdentityPending, Quiet, RequestInv
  <2>6. local' = [local EXCEPT ![c] = r] /\ pc' = [pc EXCEPT ![c] = "commit"]
    BY <1>3
  <2>7. l = local[c]
    OBVIOUS
  <2> HIDE DEF l
  <2>8. /\ r \in Request /\ r.linked /\ r.who = l.who /\ r.made = l.made
        /\ r.identity = l.identity /\ r.email = l.email
    BY <2>2, LinkedRequest
  <2> HIDE DEF r
  <2>9. /\ local'[c] = r /\ pc'[c] = "commit"
        /\ \A d \in Clients \ {c} : pc'[d] = pc[d] /\ local'[d] = local[d]
    BY <2>1, <2>6, <2>8, Moved DEF Quiet
  <2>10. CarriesRight(c)'
    BY <1>1, <2>1, <2>2, <2>8, <2>9 DEF CarriesRight
  <2>11. ReadsRight(c)'
    BY <1>1, <2>3, <2>4, <2>8, <2>9 DEF ReadsRight
  <2>12. Blames(c)'
    BY <2>9 DEF Blames
  <2>13. ASSUME NEW d \in Clients \ {c} PROVE Apart(c, d)' /\ Apart(d, c)'
    BY <1>1, <2>1, <2>5, <2>7, <2>8, <2>9 DEF Apart
  <2>14. /\ started' \subseteq Clients /\ vouched \subseteq vouched'
         /\ vouched' \subseteq Identities \X Emails /\ lastUser' \in Nat /\ lastUser <= lastUser'
    BY <1>1 DEF Quiet, TypeInv, AccountsTypeOK
  <2>15. lastUser' + budget'.signin + (IF "commit" \in Early THEN 1 ELSE 0)
           <= lastUser + budget.signin + (IF pc[c] \in Early THEN 1 ELSE 0)
    BY <1>1, <2>1, BudgetStays
  <2> QED BY <1>1, <2>1, <2>6, <2>8, <2>10, <2>11, <2>12, <2>13, <2>14, <2>15, BudgetStays, DanceMove
<1> QED BY <1>2, <1>3 DEF CreateUserIdentity

-----------------------------------------------------------------------------
(* Accounts come and go.                                                   *)

UserRow == [email : Emails, password : Clients \cup {Nobody}]

LEMMA UserRowType ==
  \A e \in Emails, p \in Clients \cup {Nobody} :
    LET r == [email |-> e, password |-> p] IN r \in UserRow /\ r.email = e /\ r.password = p
  BY DEF UserRow

(* What an open transaction has made is an id that was handed out.         *)
LEMMA MadeFacts ==
  ASSUME Quiet, NEW c \in Clients
  PROVE  /\ local[c].made # Nobody =>
              /\ pc[c] \in Linking /\ local[c].who = local[c].made /\ local[c].made \in 1..lastUser
              /\ local[c].made \notin DOMAIN users
         /\ pc[c] = "idle" => /\ local[c].made = Nobody /\ ~local[c].linked
                              /\ local[c].identity = Nobody
<1>1. "idle" \notin Linking /\ "idle" \notin Dance
  BY DEF Linking, Dance
<1>2. CarriesRight(c) /\ ReadsRight(c)
  BY DEF Quiet, RequestInv
<1> QED BY <1>1, <1>2 DEF CarriesRight, ReadsRight

LEMMA RegisterStep ==
  ASSUME Quiet, NEW c \in Clients, NEW email \in Emails, Register(c, email)
  PROVE  Quiet'
<1> USE DEF Quiet
<1> DEFINE n == lastUser + 1
<1>1. /\ pc[c] = "idle" /\ Spend("signin") /\ ~EmailPending(c, email) /\ lastUser' = n
      /\ UNCHANGED <<identities, keys, lastKey, started, pc, local, vouched, opened>>
  BY DEF Register, keyring
<1>2. /\ budget' \in [signin : Nat, manage : Nat, track : Nat, faults : Nat]
      /\ budget["signin"] > 0 /\ budget["signin"] \in Nat /\ budget["manage"] \in Nat
      /\ budget'["signin"] = budget["signin"] - 1 /\ budget'["manage"] = budget["manage"]
  <2>1. /\ budget \in [signin : Nat, manage : Nat, track : Nat, faults : Nat]
        /\ budget["signin"] \in Nat /\ budget["manage"] \in Nat
    BY DEF TypeInv
  <2> QED BY <1>1, <2>1, BudgetSpent
<1>3. /\ lastUser \in Nat /\ lastKey \in Nat /\ n \in Nat /\ n \notin 1..lastUser
      /\ 1..lastUser \subseteq 1..n /\ n \in 1..n /\ DOMAIN users \subseteq 1..lastUser
      /\ MaxUsers \in Nat
  BY AccountsAssumption DEF TypeInv, AccountsTypeOK
<1>4. CountInv' /\ lastUser' \in 0..MaxUsers /\ lastKey' \in 0..MaxKeys
  <2>1. /\ lastUser' + budget'.signin <= lastUser + budget.signin
        /\ lastKey' + budget'.manage <= lastKey + budget.manage
    BY <1>1, <1>2, <1>3
  <2> QED BY <1>1, <1>2, <1>3, <2>1, CountStay
<1>5. n \in UserIds
  BY <1>1, <1>3, <1>4 DEF UserIds
<1>6. CASE UNCHANGED <<users, session, contested>>
  <2>1. RequestInv'
    BY <1>1, <1>3, <1>6, AsideStep
  <2>2. /\ DOMAIN keys' \subseteq 1..lastKey' /\ \A k \in DOMAIN keys' : keys'[k].owner \in DOMAIN users
        /\ session' \in [Clients -> UserIds \cup {Nobody}] /\ started' \subseteq Clients
        /\ pc' \in [Clients -> Steps] /\ local' \in [Clients -> Request]
        /\ vouched' \subseteq Identities \X Emails /\ opened' \subseteq Identities \X UserIds
        /\ contested' \subseteq Clients /\ lastUser <= lastUser'
    BY <1>1, <1>3, <1>6 DEF TypeInv, AccountsTypeOK
  <2> QED BY <1>1, <1>2, <1>4, <1>6, <2>1, <2>2, TypeKept
<1>7. CASE /\ ~EmailTaken(email)
           /\ users' = [u \in DOMAIN users \cup {lastUser + 1} |->
                          IF u = lastUser + 1 THEN [email |-> email, password |-> c] ELSE users[u]]
           /\ session' \in {session, [session EXCEPT ![c] = lastUser + 1]}
           /\ Contests({d \in Clients : local[d].email = email})
  <2> DEFINE row == [email |-> email, password |-> c]
  <2>1. /\ users' = [u \in DOMAIN users \cup {n} |-> IF u = n THEN row ELSE users[u]]
        /\ session' \in {session, [session EXCEPT ![c] = n]}
        /\ contested' = contested \cup {d \in {d \in Clients : local[d].email = email} :
                                          local[d].identity # Nobody}
    BY <1>7 DEF Contests
  <2>2. row \in UserRow /\ row.email = email
    BY UserRowType
  <2> HIDE DEF row, n
  <2>3. /\ DOMAIN users' = DOMAIN users \cup {n} /\ users'[n] = row
        /\ \A u \in DOMAIN users : users'[u] = users[u]
    BY <1>3, <2>1
  <2>4. TypeInv'
    <3>1. /\ DOMAIN users' \subseteq 1..lastUser' /\ \A u \in DOMAIN users' : users'[u] \in UserRow
          /\ session' \in [Clients -> UserIds \cup {Nobody}] /\ contested' \subseteq Clients
      BY <1>1, <1>3, <1>5, <2>1, <2>2, <2>3 DEF TypeInv, AccountsTypeOK, UserRow
    <3>2. /\ \A i \in DOMAIN identities' : identities'[i] \in DOMAIN users'
          /\ \A k \in DOMAIN keys' : keys'[k].owner \in DOMAIN users'
      BY <1>1, <2>3 DEF TypeInv, AccountsTypeOK
    <3>3. \A u \in DOMAIN users' : users'[u] \in [email : Emails, password : Clients \cup {Nobody}]
      BY <3>1 DEF UserRow
    <3> QED BY <1>1, <1>2, <1>4, <3>1, <3>2, <3>3 DEF TypeInv, AccountsTypeOK
  <2>5. ASSUME NEW d \in Clients PROVE CarriesRight(d)'
    BY <1>1 DEF RequestInv, CarriesRight
  <2>6. ASSUME NEW d \in Clients PROVE ReadsRight(d)'
    <3>1. local[d].made # Nobody => local[d].email # email /\ local[d].made \in 1..lastUser
      BY <1>1, MadeFacts DEF EmailPending
    <3>2. ReadsRight(d)
      BY DEF RequestInv
    <3> QED BY <1>1, <1>3, <2>2, <2>3, <3>1, <3>2 DEF ReadsRight
  <2>7. ASSUME NEW d \in Clients PROVE Blames(d)'
    <3>1. SUFFICES ASSUME local[d].identity # Nobody
                   PROVE  /\ pc[d] = "insertUser" /\ EmailTaken(local[d].email)' =>
                               d \in contested' \/ Linked(d)
                          /\ /\ pc[d] = "insertIdentity"
                             /\ local[d].who \notin DOMAIN users' \cup {local[d].made}
                             => d \in contested'
                          /\ pc[d] = "retry" => d \in contested' \/ Linked(d)
      BY <1>1 DEF Blames, Linked, EmailTaken, OwnerOf
    <3>2. Blames(d) /\ (d \in contested => d \in contested')
      BY <2>1 DEF RequestInv
    <3>3. EmailTaken(local[d].email)' => EmailTaken(local[d].email) \/ local[d].email = email
      BY <1>1, <2>2, <2>3 DEF EmailTaken, OwnerOf
    <3>4. local[d].email = email => d \in contested'
      BY <2>1, <3>1
    <3> QED BY <2>3, <3>1, <3>2, <3>3, <3>4 DEF Blames
  <2>8. ASSUME NEW d \in Clients, NEW e \in Clients, d # e PROVE Apart(d, e)'
    BY <1>1, <2>8 DEF RequestInv, Apart
  <2>9. RequestInv'
    BY <2>5, <2>6, <2>7, <2>8 DEF RequestInv
  <2> QED BY <1>4, <2>4, <2>9
<1> QED BY <1>6, <1>7 DEF Register

(* What a commit does to the tables.                                       *)
LEMMA PublishFacts ==
  ASSUME Quiet, NEW c \in Clients, pc[c] = "commit", Publish(c)
  PROVE  LET l == local[c]
         IN /\ l.identity \in Identities /\ l.identity \notin DOMAIN identities
            /\ <<l.identity, l.email>> \in vouched /\ l.email \in Emails
            /\ l.who \in DOMAIN users' /\ l.who \in UserIds /\ users'[l.who].email = l.email
            /\ DOMAIN identities' = DOMAIN identities \cup {l.identity}
            /\ identities'[l.identity] = l.who
            /\ \A i \in DOMAIN identities : identities'[i] = identities[i]
            /\ \A u \in DOMAIN users : u \in DOMAIN users' /\ users'[u] = users[u]
            /\ \A u \in DOMAIN users' \ DOMAIN users :
                 /\ u = l.made /\ u = l.who /\ u \in 1..lastUser
                 /\ users'[u] = [email |-> l.email, password |-> Nobody]
            /\ DOMAIN users' \subseteq 1..lastUser
<1> DEFINE l == local[c]
           row == [email |-> l.email, password |-> Nobody]
<1>1. /\ l.identity \in Identities /\ l.email \in Emails
      /\ <<l.identity, l.email>> \in vouched
      /\ l.made # Nobody => l.who = l.made
  BY DEF Quiet, RequestInv, CarriesRight, Dance
<1>2. /\ l.identity \notin DOMAIN identities /\ l.who \in DOMAIN users \cup {l.made}
      /\ l.who \in 1..lastUser /\ (l.who \in DOMAIN users => users[l.who].email = l.email)
      /\ l.made # Nobody => l.made \notin DOMAIN users
  BY DEF Quiet, RequestInv, ReadsRight, Linking
<1>3. l.who \in UserIds /\ l.who # Nobody
  BY <1>2, AccountsAssumption, NobodyIsNoId DEF UserIds, Quiet, TypeInv, AccountsTypeOK
<1>4. /\ users' = [u \in DOMAIN users \cup ({l.made} \ {Nobody}) |-> IF u = l.made THEN row ELSE users[u]]
      /\ identities' = [i \in DOMAIN identities \cup {l.identity} |->
                          IF i = l.identity THEN l.who ELSE identities[i]]
  BY DEF Publish
<1>5. row.email = l.email
  OBVIOUS
<1> HIDE DEF l, row
<1>6. /\ DOMAIN identities' = DOMAIN identities \cup {l.identity}
      /\ identities'[l.identity] = l.who
      /\ \A i \in DOMAIN identities : identities'[i] = identities[i]
  BY <1>2, <1>4
<1>7. Nobody \notin DOMAIN users
  <2>1. lastUser \in Nat /\ DOMAIN users \subseteq 1..lastUser
    BY DEF Quiet, TypeInv, AccountsTypeOK
  <2> QED BY <2>1, AccountsAssumption
<1>8. /\ DOMAIN users' = DOMAIN users \cup ({l.made} \ {Nobody})
      /\ \A u \in DOMAIN users : users'[u] = users[u]
  BY <1>2, <1>4, <1>7
<1>9. l.made # Nobody => users'[l.made] = row
  BY <1>4
<1>10. \A u \in DOMAIN users' \ DOMAIN users :
         u = l.made /\ u = l.who /\ u \in 1..lastUser /\ users'[u] = row
  BY <1>1, <1>2, <1>8, <1>9
<1>11. l.who \in DOMAIN users' /\ users'[l.who].email = l.email
  <2>1. CASE l.who \in DOMAIN users
    BY <1>2, <1>8, <2>1
  <2>2. CASE l.who \notin DOMAIN users
    BY <1>2, <1>3, <1>5, <1>8, <1>9, <2>2
  <2> QED BY <2>1, <2>2
<1>12. DOMAIN users' \subseteq 1..lastUser
  BY <1>8, <1>10 DEF Quiet, TypeInv, AccountsTypeOK
<1> QED BY <1>1, <1>2, <1>3, <1>6, <1>8, <1>10, <1>11, <1>12 DEF l, row

LEMMA PublishStep ==
  ASSUME Quiet, NEW c \in Clients, pc[c] = "commit", Publish(c),
         pc' = [pc EXCEPT ![c] = "idle"], local' = [local EXCEPT ![c] = Blank],
         contested' = (contested \ {c}) \cup Rivals(c),
         UNCHANGED <<lastUser, keys, lastKey, started, vouched>>,
         session' \in [Clients -> UserIds \cup {Nobody}],
         opened' \subseteq Identities \X UserIds,
         budget' \in [signin : Nat, manage : Nat, track : Nat, faults : Nat],
         budget'.signin = budget.signin, budget'.manage = budget.manage
  PROVE  Quiet'
<1> DEFINE l == local[c]
<1>1. /\ l.identity \in Identities /\ l.identity \notin DOMAIN identities
      /\ l.email \in Emails
      /\ l.who \in DOMAIN users' /\ l.who \in UserIds
      /\ DOMAIN identities' = DOMAIN identities \cup {l.identity}
      /\ identities'[l.identity] = l.who
      /\ \A i \in DOMAIN identities : identities'[i] = identities[i]
      /\ \A u \in DOMAIN users : u \in DOMAIN users' /\ users'[u] = users[u]
      /\ \A u \in DOMAIN users' \ DOMAIN users :
           /\ u = l.made /\ u = l.who /\ u \in 1..lastUser
           /\ users'[u] = [email |-> l.email, password |-> Nobody]
      /\ DOMAIN users' \subseteq 1..lastUser
  BY PublishFacts
<1>2. \A u \in DOMAIN users' \ DOMAIN users :
        u = l.made /\ users'[u] \in UserRow /\ users'[u].email = l.email
  BY <1>1, UserRowType
<1>3. l.linked /\ (l.made # Nobody => l.who = l.made) /\ pc[c] \in Linking
  BY DEF Quiet, RequestInv, CarriesRight, Linking
<1>4. l = local[c]
  OBVIOUS
<1> HIDE DEF l
<1>5. /\ pc' \in [Clients -> Steps] /\ local' \in [Clients -> Request]
      /\ Plain(c)'
      /\ \A d \in Clients \ {c} : /\ pc'[d] = pc[d] /\ local'[d] = local[d]
                                  /\ d \in contested => d \in contested'
  <2>1. contested \ {c} \subseteq contested'
    OBVIOUS
  <2> QED BY <2>1, AnswerFacts DEF Quiet
<1>6. CountInv' /\ lastUser' \in 0..MaxUsers /\ lastKey' \in 0..MaxKeys
  <2>1. /\ "idle" \in Steps /\ "idle" \notin Early /\ pc[c] \notin Early
        /\ "idle" # "createKey" /\ pc[c] # "createKey"
    BY DEF Steps, Early
  <2>2. /\ lastUser' \in Nat /\ lastKey' \in Nat /\ budget.signin \in Nat /\ budget.manage \in Nat
    BY DEF Quiet, TypeInv, AccountsTypeOK
  <2>3. /\ lastUser' + budget'.signin + (IF "idle" \in Early THEN 1 ELSE 0)
             <= lastUser + budget.signin + (IF pc[c] \in Early THEN 1 ELSE 0)
        /\ lastKey' + budget'.manage + (IF "idle" = "createKey" THEN 1 ELSE 0)
             <= lastKey + budget.manage + (IF pc[c] = "createKey" THEN 1 ELSE 0)
    BY <2>1, <2>2
  <2> QED BY <2>1, <2>2, <2>3, CountMove DEF Quiet
<1>7. TypeInv'
  <2>1. \A u \in DOMAIN users' : users'[u] \in [email : Emails, password : Clients \cup {Nobody}]
    BY <1>1, <1>2 DEF Quiet, TypeInv, AccountsTypeOK, UserRow
  <2>2. /\ DOMAIN identities' \subseteq Identities
        /\ \A i \in DOMAIN identities' : identities'[i] \in DOMAIN users'
        /\ \A k \in DOMAIN keys' : keys'[k].owner \in DOMAIN users'
    BY <1>1 DEF Quiet, TypeInv, AccountsTypeOK
  <2>3. \A d \in Clients : local'[d].who \in UserIds \cup {Nobody}
    BY <1>5 DEF Request
  <2>4. contested' \subseteq Clients
    BY DEF Rivals, Quiet, TypeInv, AccountsTypeOK
  <2>5. /\ DOMAIN keys' \subseteq 1..lastKey' /\ DOMAIN users' \subseteq 1..lastUser'
        /\ started' \subseteq Clients /\ vouched' \subseteq Identities \X Emails
    BY <1>1 DEF Quiet, TypeInv, AccountsTypeOK
  <2> QED BY <1>5, <1>6, <2>1, <2>2, <2>3, <2>4, <2>5 DEF TypeInv, AccountsTypeOK
<1>8. RequestInv'
  <2>1. CarriesRight(c)' /\ ReadsRight(c)' /\ Blames(c)'
    <3>1. /\ Dance = {"lookup", "begin", "insertUser", "insertIdentity", "commit", "retry"}
          /\ Linking = {"insertIdentity", "commit"}
      BY DEF Dance, Linking
    <3>2. CarriesRight(c)'
      BY <1>5, <3>1 DEF CarriesRight, Plain
    <3> QED BY <1>5, <3>1, <3>2 DEF ReadsRight, Blames, Plain
  <2>2. ASSUME NEW d \in Clients \ {c} PROVE CarriesRight(d)' /\ ReadsRight(d)' /\ Blames(d)'
    <3>1. /\ CarriesRight(d) /\ ReadsRight(d) /\ Blames(d) /\ Apart(c, d) /\ Apart(d, c)
          /\ pc'[d] = pc[d] /\ local'[d] = local[d] /\ (d \in contested => d \in contested')
      BY <1>5 DEF Quiet, RequestInv
    <3>2. CarriesRight(d)'
      BY <3>1 DEF CarriesRight
    <3>3. ReadsRight(d)'
      <4>1. ASSUME local[d].made # Nobody
            PROVE  /\ local[d].made \notin DOMAIN users'
                   /\ \A u \in DOMAIN users' : users'[u].email # local[d].email
        <5>1. /\ local[d].made \notin DOMAIN users /\ local[d].made # l.made
              /\ \A u \in DOMAIN users : users[u].email # local[d].email
          BY <1>3, <1>4, <3>1, <4>1 DEF ReadsRight, Apart
        <5>2. l.made # Nobody => l.email # local[d].email
          BY <1>4, <3>1, <4>1 DEF Apart
        <5>3. \A u \in DOMAIN users' \ DOMAIN users : u # Nobody
          BY <1>1, AccountsAssumption DEF Quiet, TypeInv, AccountsTypeOK
        <5> QED BY <1>1, <1>2, <5>1, <5>2, <5>3
      <4>2. ASSUME pc[d] \in Linking
            PROVE  /\ local[d].who \in 1..lastUser
                   /\ local[d].who \in DOMAIN users' => users'[local[d].who].email = local[d].email
        <5>1. /\ local[d].who \in 1..lastUser
              /\ local[d].who \in DOMAIN users => users[local[d].who].email = local[d].email
              /\ l.made # Nobody => local[d].who # l.made
          BY <1>4, <3>1, <4>2 DEF ReadsRight, Apart
        <5>2. local[d].who # Nobody
          BY <5>1, AccountsAssumption DEF Quiet, TypeInv, AccountsTypeOK
        <5> QED BY <1>1, <5>1, <5>2
      <4>3. ASSUME pc[d] = "commit"
            PROVE  /\ local[d].identity \notin DOMAIN identities'
                   /\ local[d].who \in DOMAIN users' \cup {local[d].made}
        <5>1. local[d].identity # l.identity
          BY <1>3, <1>4, <3>1, <4>3 DEF Apart, CarriesRight
        <5> QED BY <1>1, <3>1, <4>3, <5>1 DEF ReadsRight
      <4> QED BY <3>1, <4>1, <4>2, <4>3 DEF ReadsRight
    <3>4. Blames(d)'
      <4>1. SUFFICES ASSUME local[d].identity # Nobody
                     PROVE  /\ pc[d] = "insertUser" /\ EmailTaken(local[d].email)' =>
                                 d \in contested' \/ local[d].identity \in DOMAIN identities'
                            /\ /\ pc[d] = "insertIdentity"
                               /\ local[d].who \notin DOMAIN users' \cup {local[d].made}
                               => d \in contested'
                            /\ pc[d] = "retry" =>
                                 d \in contested' \/ local[d].identity \in DOMAIN identities'
        BY <3>1 DEF Blames, Linked, EmailTaken, OwnerOf
      <4>2. ASSUME EmailTaken(local[d].email)', ~EmailTaken(local[d].email)
            PROVE  d \in contested' \/ local[d].identity \in DOMAIN identities'
        <5>1. PICK u \in DOMAIN users' : users'[u].email = local[d].email
          BY <3>1, <4>2 DEF EmailTaken, OwnerOf
        <5>2. u \notin DOMAIN users
          BY <1>1, <4>2, <5>1 DEF EmailTaken, OwnerOf
        <5>3. u = l.made /\ l.email = local[d].email
          BY <1>2, <5>1, <5>2
        <5>4. l.made # Nobody
          BY <1>1, <5>2, <5>3, AccountsAssumption DEF Quiet, TypeInv, AccountsTypeOK
        <5>5. local[d].identity # l.identity => d \in Rivals(c)
          BY <1>4, <5>3, <5>4 DEF Rivals
        <5> QED BY <1>1, <5>5
      <4> QED BY <1>1, <3>1, <4>1, <4>2 DEF Blames, Linked
    <3> QED BY <3>2, <3>3, <3>4
  <2>3. ASSUME NEW d \in Clients, NEW e \in Clients, d # e PROVE Apart(d, e)'
    <3>1. CASE d = c \/ e = c
      <4>1. /\ pc'[c] \notin Linking /\ local'[c].made = Nobody /\ ~local'[c].linked
        BY <1>5 DEF Plain, Linking, Dance
      <4> QED BY <3>1, <4>1 DEF Apart
    <3>2. CASE d # c /\ e # c
      <4>1. /\ Apart(d, e) /\ pc'[d] = pc[d] /\ local'[d] = local[d]
            /\ pc'[e] = pc[e] /\ local'[e] = local[e]
        BY <1>5, <2>3, <3>2 DEF Quiet, RequestInv
      <4> QED BY <4>1 DEF Apart
    <3> QED BY <3>1, <3>2
  <2> QED BY <2>1, <2>2, <2>3 DEF RequestInv
<1> QED BY <1>6, <1>7, <1>8 DEF Quiet

(* An account is removed, with its identities and keys.                    *)
LEMMA RemoveStep ==
  ASSUME Quiet, NEW u, RemoveUser(u)
  PROVE  Quiet'
<1>1. /\ u \in DOMAIN users /\ Spend("faults")
      /\ \A c \in Clients : ~(local[c].linked /\ local[c].who = u)
      /\ users' = [v \in DOMAIN users \ {u} |-> users[v]]
      /\ identities' = [i \in {j \in DOMAIN identities : identities[j] # u} |-> identities[i]]
      /\ keys' = [k \in {q \in DOMAIN keys : keys[q].owner # u} |-> keys[k]]
      /\ contested' = contested \cup {d \in Clients : local[d].identity # Nobody}
      /\ UNCHANGED <<lastUser, lastKey, session, started, pc, local, vouched, opened>>
  BY DEF RemoveUser, Contests, cookies
<1>2. /\ DOMAIN users' = DOMAIN users \ {u} /\ \A v \in DOMAIN users' : users'[v] = users[v]
      /\ DOMAIN identities' = {j \in DOMAIN identities : identities[j] # u}
      /\ \A i \in DOMAIN identities' : identities'[i] = identities[i]
      /\ DOMAIN keys' = {q \in DOMAIN keys : keys[q].owner # u}
      /\ \A k \in DOMAIN keys' : keys'[k] = keys[k]
  BY <1>1
<1>3. /\ budget' \in [signin : Nat, manage : Nat, track : Nat, faults : Nat]
      /\ budget["signin"] \in Nat /\ budget["manage"] \in Nat
      /\ budget'["signin"] = budget["signin"] /\ budget'["manage"] = budget["manage"]
      /\ lastUser \in Nat /\ lastKey \in Nat
  <2>1. /\ budget \in [signin : Nat, manage : Nat, track : Nat, faults : Nat]
        /\ budget["signin"] \in Nat /\ budget["manage"] \in Nat
        /\ lastUser \in Nat /\ lastKey \in Nat
    BY DEF Quiet, TypeInv, AccountsTypeOK
  <2> QED BY <1>1, <2>1, BudgetSpent
<1>4. CountInv' /\ lastUser' \in 0..MaxUsers /\ lastKey' \in 0..MaxKeys
  <2>1. /\ lastUser' + budget'.signin <= lastUser + budget.signin
        /\ lastKey' + budget'.manage <= lastKey + budget.manage
    BY <1>1, <1>3
  <2> QED BY <1>1, <1>3, <2>1, CountStay DEF Quiet
<1>5. TypeInv'
  <2>1. /\ DOMAIN users' \subseteq 1..lastUser' /\ DOMAIN identities' \subseteq Identities
        /\ \A v \in DOMAIN users' : users'[v] \in [email : Emails, password : Clients \cup {Nobody}]
        /\ \A i \in DOMAIN identities' : identities'[i] \in DOMAIN users'
        /\ DOMAIN keys' \subseteq 1..lastKey'
        /\ \A k \in DOMAIN keys' : keys'[k].owner \in DOMAIN users'
    BY <1>1, <1>2 DEF Quiet, TypeInv, AccountsTypeOK
  <2>2. contested' \subseteq Clients
    BY <1>1 DEF Quiet, TypeInv, AccountsTypeOK
  <2>3. /\ session' \in [Clients -> UserIds \cup {Nobody}] /\ started' \subseteq Clients
        /\ pc' \in [Clients -> Steps] /\ local' \in [Clients -> Request]
        /\ \A d \in Clients : local'[d].who \in UserIds \cup {Nobody}
        /\ vouched' \subseteq Identities \X Emails /\ opened' \subseteq Identities \X UserIds
    BY <1>1 DEF Quiet, TypeInv, AccountsTypeOK
  <2> QED BY <1>3, <1>4, <2>1, <2>2, <2>3 DEF TypeInv, AccountsTypeOK
<1>6. ASSUME NEW d \in Clients PROVE CarriesRight(d)'
  BY <1>1 DEF Quiet, RequestInv, CarriesRight
<1>7. ASSUME NEW d \in Clients PROVE ReadsRight(d)'
  <2>1. ReadsRight(d) /\ (pc[d] = "commit" => local[d].who # u)
    BY <1>1 DEF Quiet, RequestInv, CarriesRight
  <2> QED BY <1>1, <1>2, <2>1 DEF ReadsRight
<1>8. ASSUME NEW d \in Clients PROVE Blames(d)'
  BY <1>1 DEF Blames
<1>9. ASSUME NEW d \in Clients, NEW e \in Clients, d # e PROVE Apart(d, e)'
  BY <1>1, <1>9 DEF Quiet, RequestInv, Apart
<1> QED BY <1>4, <1>5, <1>6, <1>7, <1>8, <1>9 DEF Quiet, RequestInv

-----------------------------------------------------------------------------
(* Every step of a request, and the removal of an account.                 *)

LEMMA SignInErrorStep ==
  ASSUME Quiet, NEW c \in Clients, SignInError(c)
  PROVE  Quiet'
<1>1. CASE UNCHANGED <<users, identities>> /\ Fail(c)
  <2>1. Answer(c)
    BY <1>1 DEF Fail
  <2> QED BY <1>1, <2>1, SignInEnds
<1>2. CASE /\ pc[c] = "commit" /\ Publish(c)
           /\ pc' = [pc EXCEPT ![c] = "idle"] /\ local' = [local EXCEPT ![c] = Blank]
           /\ contested' = (contested \ {c}) \cup Rivals(c)
           /\ UNCHANGED session
  <2>1. /\ UNCHANGED <<lastUser, keys, lastKey, started, vouched, opened>> /\ Spend("faults")
    BY DEF SignInError, keyring
  <2>2. /\ session' \in [Clients -> UserIds \cup {Nobody}]
        /\ opened' \subseteq Identities \X UserIds
    BY <1>2, <2>1 DEF Quiet, TypeInv, AccountsTypeOK
  <2>3. /\ budget' \in [signin : Nat, manage : Nat, track : Nat, faults : Nat]
        /\ budget'["signin"] = budget["signin"] /\ budget'["manage"] = budget["manage"]
    <3>1. budget \in [signin : Nat, manage : Nat, track : Nat, faults : Nat]
      BY DEF Quiet, TypeInv
    <3> QED BY <2>1, <3>1, BudgetSpent
  <2> QED BY <1>2, <2>1, <2>2, <2>3, PublishStep
<1> QED BY <1>1, <1>2 DEF SignInError

LEMMA CommitStep ==
  ASSUME Quiet, NEW c \in Clients, Commit(c)
  PROVE  Quiet'
<1>1. /\ pc[c] = "commit" /\ Publish(c)
      /\ pc' = [pc EXCEPT ![c] = "idle"] /\ local' = [local EXCEPT ![c] = Blank]
      /\ contested' = (contested \ {c}) \cup Rivals(c)
      /\ session' = [session EXCEPT ![c] = local[c].who]
      /\ opened' = opened \cup {<<local[c].identity, local[c].who>>}
      /\ UNCHANGED <<lastUser, keys, lastKey, started, vouched, budget>>
  BY DEF Commit, keyring
<1>2. local[c].identity \in Identities /\ local[c].who \in UserIds
  BY <1>1, PublishFacts
<1>3. /\ session' \in [Clients -> UserIds \cup {Nobody}]
      /\ opened' \subseteq Identities \X UserIds
  BY <1>1, <1>2 DEF Quiet, TypeInv, AccountsTypeOK
<1> QED BY <1>1, <1>3, BudgetStays, PublishStep

LEMMA QuietStep ==
  ASSUME Quiet, AccountsNext \/ \E u \in UserIds : RemoveUser(u)
  PROVE  Quiet'
<1>1. ASSUME NEW c \in Clients, SignIn(c) PROVE Quiet'
  <2>1. CASE \E email \in Emails : Register(c, email)
    BY <2>1, RegisterStep
  <2>2. CASE \/ \E email \in Emails : Login(c, email)
             \/ Logout(c) \/ OAuthStart(c) \/ CallbackFails(c)
    BY <2>2, AsideActions
  <2>3. CASE OAuthCallback(c)
    BY <2>3, CallbackArrives
  <2>4. CASE Known(c)
    <3>1. Answer(c)
      BY <2>4 DEF Known, SetSession
    <3> QED BY <2>4, <3>1, SignInEnds
  <2>5. CASE Unknown(c)
    <3>1. CASE Trusted(c)
      BY <2>5, <3>1, SignInBegins
    <3>2. CASE ~Trusted(c)
      <4>1. Fail(c) /\ Answer(c)
        BY <2>5, <3>2 DEF Unknown, Fail
      <4> QED BY <2>5, <4>1, SignInEnds
    <3> QED BY <3>1, <3>2
  <2>6. CASE FindAccount(c)
    BY <2>6, AccountFound
  <2>7. CASE CreateUser(c)
    BY <2>7, AccountInserted
  <2>8. CASE CreateUserIdentity(c)
    <3>1. CASE Fail(c)
      <4>1. Answer(c)
        BY <3>1 DEF Fail
      <4> QED BY <2>8, <3>1, <4>1, SignInEnds
    <3>2. CASE ~Fail(c)
      BY <2>8, <3>2, IdentityInserted
    <3> QED BY <3>1, <3>2
  <2>9. CASE Commit(c)
    BY <2>9, CommitStep
  <2>10. CASE RetryFails(c)
    <3>1. Fail(c) /\ Answer(c)
      BY <2>10 DEF RetryFails, Fail
    <3> QED BY <2>10, <3>1, SignInEnds
  <2>11. CASE SignInError(c)
    BY <2>11, SignInErrorStep
  <2> QED BY <1>1, <2>1, <2>2, <2>3, <2>4, <2>5, <2>6, <2>7, <2>8, <2>9, <2>10, <2>11 DEF SignIn
<1>2. ASSUME NEW k \in KeyIds, ExpireKey(k) PROVE Quiet'
  <2>1. CASE Clients = {}
    <3>1. UNCHANGED <<users, lastUser, identities, lastKey, session, started, pc, local, budget,
                      vouched, opened, contested>>
      BY <1>2 DEF ExpireKey, tables, cookies
    <3>2. /\ DOMAIN keys' \subseteq DOMAIN keys
          /\ \A q \in DOMAIN keys' : keys'[q].owner = keys[q].owner
      BY <1>2 DEF ExpireKey, LiveKeys
    <3>3. TypeInv'
      BY <3>1, <3>2 DEF Quiet, TypeInv, AccountsTypeOK
    <3>4. CountInv'
      BY <3>1 DEF Quiet, CountInv, Joining, Minting
    <3>5. RequestInv'
      BY <2>1 DEF RequestInv
    <3> QED BY <3>3, <3>4, <3>5 DEF Quiet
  <2>2. CASE Clients # {}
    BY <1>2, <2>2, AsideActions
  <2> QED BY <2>1, <2>2
<1> QED BY <1>1, <1>2, KeyActions, RemoveStep DEF AccountsNext

(* What no account and no identity has to do with.                         *)
LEMMA TablesStay ==
  ASSUME AccountsInv, Quiet', UNCHANGED <<users, identities>>, vouched \subseteq vouched',
         lastUser' \in Nat, lastUser <= lastUser',
         \A o \in opened' \ opened : o[1] \in DOMAIN identities /\ identities[o[1]] = o[2],
         \A d \in Clients : \/ local'[d].made = local[d].made
                            \/ local'[d].made \notin 1..lastUser
  PROVE  AccountsInv'
<1>1. /\ lastUser \in Nat /\ 1..lastUser \subseteq 1..lastUser'
      /\ DOMAIN users \subseteq 1..lastUser
      /\ \A i \in DOMAIN identities : identities[i] \in DOMAIN users
  BY DEF AccountsInv, TypeInv, AccountsTypeOK
<1>2. \A d \in Clients : local[d].made \notin DOMAIN users
  <2>1. Nobody \notin DOMAIN users
    BY <1>1, AccountsAssumption
  <2> QED BY <2>1 DEF AccountsInv, RequestInv, ReadsRight
<1>3. OpenedInv'
  <2>1. \A o \in opened : o[2] \in 1..lastUser /\ \A d \in Clients : local'[d].made # o[2]
    BY DEF AccountsInv, OpenedInv
  <2>2. \A o \in opened' \ opened : o[2] \in 1..lastUser /\ \A d \in Clients : local'[d].made # o[2]
    BY <1>1, <1>2
  <2> QED BY <1>1, <2>1, <2>2 DEF OpenedInv
<1>4. AccountsSound'
  BY DEF AccountsInv, AccountsSound, OnePerEmail, NothingHalfDone, LinkedByVerifiedEmail
<1>5. SignInResolves'
  BY DEF AccountsInv, SignInResolves
<1> QED BY <1>3, <1>4, <1>5 DEF AccountsInv, Quiet

LEMMA RegisterSound ==
  ASSUME AccountsInv, Quiet', NEW c \in Clients, NEW email \in Emails, Register(c, email)
  PROVE  AccountsInv'
<1>1. /\ lastUser' = lastUser + 1 /\ UNCHANGED <<identities, local, vouched, opened>>
      /\ lastUser \in Nat /\ lastUser' \in Nat /\ lastUser <= lastUser' /\ DOMAIN users \subseteq 1..lastUser
      /\ 1..lastUser \subseteq 1..lastUser'
  BY DEF Register, AccountsInv, TypeInv, AccountsTypeOK
<1>2. CASE UNCHANGED users
  BY <1>1, <1>2, TablesStay
<1>3. CASE /\ ~EmailTaken(email)
           /\ users' = [u \in DOMAIN users \cup {lastUser + 1} |->
                          IF u = lastUser + 1 THEN [email |-> email, password |-> c] ELSE users[u]]
  <2> DEFINE n == lastUser + 1
             row == [email |-> email, password |-> c]
  <2>1. /\ users' = [u \in DOMAIN users \cup {n} |-> IF u = n THEN row ELSE users[u]]
        /\ n \notin 1..lastUser
    BY <1>1, <1>3
  <2>2. row \in UserRow /\ row.email = email /\ row.password # Nobody
    BY UserRowType, NobodyIsNoId
  <2>3. \A u \in DOMAIN users : users[u].email # email
    BY <1>3 DEF EmailTaken, OwnerOf
  <2> HIDE DEF n, row
  <2>4. /\ DOMAIN users' = DOMAIN users \cup {n} /\ users'[n] = row
        /\ \A u \in DOMAIN users : u # n /\ users'[u] = users[u]
    BY <1>1, <2>1
  <2>5. OnePerEmail'
    BY <2>2, <2>3, <2>4 DEF AccountsInv, AccountsSound, OnePerEmail
  <2>6. NothingHalfDone'
    BY <1>1, <2>2, <2>4 DEF AccountsInv, AccountsSound, NothingHalfDone
  <2>7. LinkedByVerifiedEmail'
    BY <1>1, <2>4 DEF AccountsInv, AccountsSound, LinkedByVerifiedEmail, TypeInv, AccountsTypeOK
  <2>8. OpenedInv'
    BY <1>1 DEF AccountsInv, OpenedInv
  <2>9. SignInResolves'
    BY <1>1, <2>1, <2>4 DEF AccountsInv, SignInResolves, OpenedInv
  <2> QED BY <2>5, <2>6, <2>7, <2>8, <2>9 DEF AccountsInv, AccountsSound, Quiet
<1> QED BY <1>2, <1>3 DEF Register

LEMMA PublishSound ==
  ASSUME AccountsInv, Quiet', NEW c \in Clients, pc[c] = "commit", Publish(c),
         local' = [local EXCEPT ![c] = Blank], UNCHANGED <<vouched, lastUser>>,
         opened' \subseteq opened \cup {<<local[c].identity, local[c].who>>}
  PROVE  AccountsInv'
<1> DEFINE l == local[c]
<1>0. Quiet
  BY DEF AccountsInv, Quiet
<1>1. /\ l.identity \in Identities /\ l.identity \notin DOMAIN identities
      /\ <<l.identity, l.email>> \in vouched
      /\ l.who \in DOMAIN users' /\ users'[l.who].email = l.email
      /\ DOMAIN identities' = DOMAIN identities \cup {l.identity}
      /\ identities'[l.identity] = l.who
      /\ \A i \in DOMAIN identities : identities'[i] = identities[i]
      /\ \A u \in DOMAIN users : u \in DOMAIN users' /\ users'[u] = users[u]
      /\ \A u \in DOMAIN users' \ DOMAIN users : u = l.made /\ u = l.who
      /\ DOMAIN users' \subseteq 1..lastUser
  BY <1>0, PublishFacts
<1>2. /\ l.made # Nobody => \A u \in DOMAIN users : users[u].email # l.email
      /\ \A d \in Clients \ {c} : local[d].made # Nobody => local[d].made # l.who
      /\ \A u \in DOMAIN users' : u # Nobody
      /\ \A d \in Clients \ {c} : local'[d].made = local[d].made
      /\ local'[c].made = Nobody
  <2>1. ReadsRight(c) /\ \A d \in Clients \ {c} : Apart(c, d)
    BY DEF AccountsInv, RequestInv
  <2>2. \A u \in DOMAIN users' : u # Nobody
    BY <1>1, AccountsAssumption DEF AccountsInv, TypeInv, AccountsTypeOK
  <2>3. local \in [Clients -> Request]
    BY DEF AccountsInv, TypeInv
  <2> QED BY <2>1, <2>2, <2>3, BlankRequest DEF ReadsRight, Apart, Linking
<1>3. l = local[c]
  OBVIOUS
<1> HIDE DEF l
<1>4. OnePerEmail'
  <2>1. ASSUME NEW u \in DOMAIN users' \ DOMAIN users, NEW v \in DOMAIN users
        PROVE  users'[u].email # users'[v].email
    <3>1. u = l.made /\ u # Nobody /\ users'[u].email = l.email
      BY <1>1, <1>2
    <3> QED BY <1>1, <1>2, <3>1
  <2> QED BY <1>1, <2>1 DEF AccountsInv, AccountsSound, OnePerEmail
<1>5. NothingHalfDone'
  <2>1. ASSUME NEW u \in DOMAIN users', users'[u].password = Nobody
        PROVE  \E i \in DOMAIN identities' : identities'[i] = u
    <3>1. CASE u \in DOMAIN users
      BY <1>1, <2>1, <3>1 DEF AccountsInv, AccountsSound, NothingHalfDone
    <3>2. CASE u \notin DOMAIN users
      BY <1>1, <3>2
    <3> QED BY <3>1, <3>2
  <2> QED BY <2>1 DEF NothingHalfDone
<1>6. LinkedByVerifiedEmail'
  BY <1>1 DEF AccountsInv, AccountsSound, LinkedByVerifiedEmail, TypeInv, AccountsTypeOK
<1>7. OpenedInv'
  <2>1. ASSUME NEW o \in opened', NEW d \in Clients PROVE local'[d].made # o[2]
    <3>1. o[2] # Nobody
      BY <1>1, <1>2, <1>3, AccountsAssumption DEF AccountsInv, OpenedInv, TypeInv, AccountsTypeOK
    <3>2. CASE d = c
      BY <1>2, <3>1, <3>2
    <3>3. CASE d # c
      BY <1>2, <1>3, <3>1, <3>3 DEF AccountsInv, OpenedInv
    <3> QED BY <3>2, <3>3
  <2>2. \A o \in opened' : o[2] \in 1..lastUser
    BY <1>1, <1>3 DEF AccountsInv, OpenedInv
  <2> QED BY <2>1, <2>2 DEF OpenedInv
<1>8. SignInResolves'
  <2>1. ASSUME NEW o \in opened, o[2] \in DOMAIN users'
        PROVE  o[1] \in DOMAIN identities' /\ identities'[o[1]] = o[2]
    <3>1. o[2] \in DOMAIN users
      BY <1>1, <1>3, <2>1 DEF AccountsInv, OpenedInv
    <3> QED BY <1>1, <3>1 DEF AccountsInv, SignInResolves
  <2>2. ASSUME NEW o \in opened' \ opened
        PROVE  o[1] \in DOMAIN identities' /\ identities'[o[1]] = o[2]
    BY <1>1, <1>3
  <2> QED BY <2>1, <2>2 DEF SignInResolves
<1> QED BY <1>4, <1>5, <1>6, <1>7, <1>8 DEF AccountsInv, AccountsSound, Quiet

LEMMA RemoveSound ==
  ASSUME AccountsInv, Quiet', NEW u, RemoveUser(u)
  PROVE  AccountsInv'
<1>1. /\ DOMAIN users' = DOMAIN users \ {u} /\ \A v \in DOMAIN users' : users'[v] = users[v]
      /\ DOMAIN identities' = {j \in DOMAIN identities : identities[j] # u}
      /\ \A i \in DOMAIN identities' : identities'[i] = identities[i]
      /\ UNCHANGED <<lastUser, local, vouched, opened>>
  BY DEF RemoveUser
<1>2. OnePerEmail'
  BY <1>1 DEF AccountsInv, AccountsSound, OnePerEmail
<1>3. NothingHalfDone'
  BY <1>1 DEF AccountsInv, AccountsSound, NothingHalfDone
<1>4. LinkedByVerifiedEmail'
  BY <1>1 DEF AccountsInv, AccountsSound, LinkedByVerifiedEmail, TypeInv, AccountsTypeOK
<1>5. OpenedInv'
  BY <1>1 DEF AccountsInv, OpenedInv
<1>6. SignInResolves'
  BY <1>1 DEF AccountsInv, SignInResolves
<1> QED BY <1>2, <1>3, <1>4, <1>5, <1>6 DEF AccountsInv, AccountsSound, Quiet

LEMMA AccountsStep ==
  ASSUME AccountsInv, AccountsNext \/ \E u \in UserIds : RemoveUser(u)
  PROVE  AccountsInv'
<1>1. Quiet'
  <2>1. Quiet
    BY DEF AccountsInv, Quiet
  <2> QED BY <2>1, QuietStep
<1>2. /\ lastUser \in Nat /\ Nobody \notin 1..lastUser /\ local \in [Clients -> Request]
  BY AccountsAssumption DEF AccountsInv, TypeInv, AccountsTypeOK
<1>3. ASSUME NEW c \in Clients, NEW r \in Request, local' = [local EXCEPT ![c] = r],
             r.made = local[c].made \/ r.made \notin 1..lastUser
      PROVE  \A d \in Clients : local'[d].made = local[d].made \/ local'[d].made \notin 1..lastUser
  BY <1>2, <1>3
<1>4. ASSUME NEW c \in Clients, local' = [local EXCEPT ![c] = Blank]
      PROVE  \A d \in Clients : local'[d].made = local[d].made \/ local'[d].made \notin 1..lastUser
  BY <1>2, <1>3, <1>4, BlankRequest
<1>5. ASSUME NEW c \in Clients, SignIn(c) PROVE AccountsInv'
  <2>1. CASE \E email \in Emails : Register(c, email)
    BY <1>1, <2>1, RegisterSound
  <2>2. CASE \/ \E email \in Emails : Login(c, email)
             \/ Logout(c) \/ OAuthStart(c) \/ CallbackFails(c)
    <3>1. UNCHANGED <<users, lastUser, identities, local, vouched, opened>>
      BY <2>2 DEF Login, Logout, OAuthStart, CallbackFails, tables
    <3> QED BY <1>1, <1>2, <3>1, TablesStay
  <2>3. CASE OAuthCallback(c)
    <3>1. PICK i \in Identities, e \in Emails \cup {NoEmail} :
            local' = [local EXCEPT ![c] = [Blank EXCEPT !.identity = i, !.email = e]]
      BY <2>3 DEF OAuthCallback
    <3> DEFINE r == [Blank EXCEPT !.identity = i, !.email = e]
    <3>2. r \in Request /\ r.made = Nobody
      BY DEF Blank, Request
    <3>3. local' = [local EXCEPT ![c] = r]
      BY <3>1
    <3> HIDE DEF r
    <3>4. UNCHANGED <<users, lastUser, identities, opened>> /\ vouched \subseteq vouched'
      BY <2>3 DEF OAuthCallback, tables
    <3>5. \A d \in Clients : local'[d].made = local[d].made \/ local'[d].made \notin 1..lastUser
      BY <1>2, <1>3, <3>2, <3>3
    <3> QED BY <1>1, <1>2, <3>4, <3>5, TablesStay
  <2>4. CASE Known(c)
    <3>1. /\ local' = [local EXCEPT ![c] = Blank]
          /\ UNCHANGED <<users, lastUser, identities, vouched>>
          /\ local[c].identity \in DOMAIN identities
          /\ opened' = opened \cup {<<local[c].identity, identities[local[c].identity]>>}
      BY <2>4 DEF Known, SetSession, Answer, tables
    <3>2. \A d \in Clients : local'[d].made = local[d].made \/ local'[d].made \notin 1..lastUser
      BY <1>4, <3>1
    <3> QED BY <1>1, <1>2, <3>1, <3>2, TablesStay
  <2>5. CASE Unknown(c) \/ RetryFails(c)
    <3>1. /\ local' = local \/ local' = [local EXCEPT ![c] = Blank]
          /\ UNCHANGED <<users, lastUser, identities, vouched, opened>>
      BY <2>5 DEF Unknown, RetryFails, Fail, Answer, tables
    <3>2. \A d \in Clients : local'[d].made = local[d].made \/ local'[d].made \notin 1..lastUser
      BY <1>4, <3>1
    <3> QED BY <1>1, <1>2, <3>1, <3>2, TablesStay
  <2>6. CASE FindAccount(c)
    <3> DEFINE l == local[c]
    <3>1. /\ \/ local' = local
             \/ \E u \in OwnerOf(l.email) : local' = [local EXCEPT ![c] = [l EXCEPT !.who = u]]
          /\ UNCHANGED <<users, lastUser, identities, vouched, opened>>
      BY <2>6 DEF FindAccount, tables
    <3>2. ASSUME NEW u \in OwnerOf(l.email), local' = [local EXCEPT ![c] = [l EXCEPT !.who = u]]
          PROVE  \A d \in Clients : \/ local'[d].made = local[d].made
                                    \/ local'[d].made \notin 1..lastUser
      <4>1. u \in UserIds
        BY AccountsAssumption DEF OwnerOf, AccountsInv, TypeInv, AccountsTypeOK, UserIds
      <4> DEFINE r == [l EXCEPT !.who = u]
      <4>2. r \in Request /\ r.made = l.made
        BY <1>2, <4>1, FoundRequest
      <4>3. local' = [local EXCEPT ![c] = r]
        BY <3>2
      <4> HIDE DEF r
      <4> QED BY <1>3, <4>2, <4>3
    <3> QED BY <1>1, <1>2, <3>1, <3>2, TablesStay
  <2>7. CASE CreateUser(c)
    <3> DEFINE l == local[c]
               m == lastUser + 1
    <3>1. /\ UNCHANGED <<users, identities, vouched, opened>> /\ lastUser' = m
          /\ \/ local' = [local EXCEPT ![c] = [l EXCEPT !.made = Nobody, !.linked = FALSE, !.who = Nobody]]
             \/ local' = [local EXCEPT ![c] = [l EXCEPT !.who = m, !.made = m]]
      BY <2>7 DEF CreateUser, LostRace
    <3>2. /\ m \in Nat /\ lastUser <= m /\ m \notin 1..lastUser
          /\ m \in UserIds
      BY <1>1, <1>2, <3>1 DEF Quiet, TypeInv, AccountsTypeOK, UserIds
    <3>3. \A d \in Clients : local'[d].made = local[d].made \/ local'[d].made \notin 1..lastUser
      <4> HIDE DEF m
      <4>1. ASSUME local' = [local EXCEPT ![c] = [l EXCEPT !.made = Nobody, !.linked = FALSE, !.who = Nobody]]
            PROVE  \A d \in Clients : \/ local'[d].made = local[d].made
                                      \/ local'[d].made \notin 1..lastUser
        <5> DEFINE r == [l EXCEPT !.made = Nobody, !.linked = FALSE, !.who = Nobody]
        <5>1. r \in Request /\ r.made = Nobody
          BY <1>2, LostRequest
        <5>2. local' = [local EXCEPT ![c] = r]
          BY <4>1
        <5> HIDE DEF r
        <5> QED BY <1>2, <1>3, <5>1, <5>2
      <4>2. ASSUME local' = [local EXCEPT ![c] = [l EXCEPT !.who = m, !.made = m]]
            PROVE  \A d \in Clients : \/ local'[d].made = local[d].made
                                      \/ local'[d].made \notin 1..lastUser
        <5> DEFINE r == [l EXCEPT !.who = m, !.made = m]
        <5>1. r \in Request /\ r.made = m
          BY <1>2, <3>2, MadeRequest
        <5>2. local' = [local EXCEPT ![c] = r]
          BY <4>2
        <5> HIDE DEF r
        <5> QED BY <1>2, <1>3, <3>2, <5>1, <5>2
      <4> QED BY <3>1, <4>1, <4>2
    <3> QED BY <1>1, <1>2, <3>1, <3>2, <3>3, TablesStay
  <2>8. CASE CreateUserIdentity(c)
    <3> DEFINE l == local[c]
    <3>1. /\ UNCHANGED <<users, lastUser, identities, vouched, opened>>
          /\ \/ local' = [local EXCEPT ![c] = Blank]
             \/ local' = [local EXCEPT ![c] = [l EXCEPT !.made = Nobody, !.linked = FALSE, !.who = Nobody]]
             \/ local' = [local EXCEPT ![c] = [l EXCEPT !.linked = TRUE]]
      BY <2>8 DEF CreateUserIdentity, LostRace, Fail, Answer, tables
    <3>2. ASSUME local' = [local EXCEPT ![c] = [l EXCEPT !.made = Nobody, !.linked = FALSE, !.who = Nobody]]
          PROVE  \A d \in Clients : \/ local'[d].made = local[d].made
                                    \/ local'[d].made \notin 1..lastUser
      <4> DEFINE r == [l EXCEPT !.made = Nobody, !.linked = FALSE, !.who = Nobody]
      <4>1. r \in Request /\ r.made = Nobody
        BY <1>2, LostRequest
      <4>2. local' = [local EXCEPT ![c] = r]
        BY <3>2
      <4> HIDE DEF r
      <4> QED BY <1>2, <1>3, <4>1, <4>2
    <3>3. ASSUME local' = [local EXCEPT ![c] = [l EXCEPT !.linked = TRUE]]
          PROVE  \A d \in Clients : \/ local'[d].made = local[d].made
                                    \/ local'[d].made \notin 1..lastUser
      <4> DEFINE r == [l EXCEPT !.linked = TRUE]
      <4>1. r \in Request /\ r.made = l.made
        BY <1>2, LinkedRequest
      <4>2. local' = [local EXCEPT ![c] = r]
        BY <3>3
      <4> HIDE DEF r
      <4> QED BY <1>3, <4>1, <4>2
    <3> QED BY <1>1, <1>2, <1>4, <3>1, <3>2, <3>3, TablesStay
  <2>9. CASE Commit(c)
    <3>1. /\ pc[c] = "commit" /\ Publish(c) /\ local' = [local EXCEPT ![c] = Blank]
          /\ UNCHANGED <<vouched, lastUser>>
          /\ opened' \subseteq opened \cup {<<local[c].identity, local[c].who>>}
      BY <2>9 DEF Commit
    <3> QED BY <1>1, <3>1, PublishSound
  <2>10. CASE SignInError(c)
    <3>1. CASE UNCHANGED <<users, identities>> /\ Fail(c)
      <4>1. UNCHANGED <<lastUser, vouched, opened>> /\ local' = [local EXCEPT ![c] = Blank]
        BY <2>10, <3>1 DEF SignInError, Fail, Answer
      <4>2. \A d \in Clients : local'[d].made = local[d].made \/ local'[d].made \notin 1..lastUser
        BY <1>4, <4>1
      <4> QED BY <1>1, <1>2, <3>1, <4>1, <4>2, TablesStay
    <3>2. CASE pc[c] = "commit" /\ Publish(c) /\ local' = [local EXCEPT ![c] = Blank]
      <4>1. UNCHANGED <<vouched, lastUser, opened>>
        BY <2>10 DEF SignInError
      <4> QED BY <1>1, <3>2, <4>1, PublishSound
    <3> QED BY <2>10, <3>1, <3>2 DEF SignInError
  <2> QED BY <1>5, <2>1, <2>2, <2>3, <2>4, <2>5, <2>6, <2>7, <2>8, <2>9, <2>10 DEF SignIn
<1>6. ASSUME NEW c \in Clients, KeyStep(c) PROVE AccountsInv'
  <2>1. CASE CreateAPIKey(c) \/ RevokeAPIKey(c)
    <3>1. /\ local' = [local EXCEPT ![c] = Blank]
          /\ UNCHANGED <<users, lastUser, identities, vouched, opened>>
      BY <2>1 DEF CreateAPIKey, RevokeAPIKey, Fail, Answer, tables
    <3>2. \A d \in Clients : local'[d].made = local[d].made \/ local'[d].made \notin 1..lastUser
      BY <1>4, <3>1
    <3> QED BY <1>1, <1>2, <3>1, <3>2, TablesStay
  <2>2. ASSUME NEW s \in {"createKey", "revokeKey"}, Manage(c, s) PROVE AccountsInv'
    <3>1. PICK a \in ByCookie(c) :
            local' = [local EXCEPT ![c] = [Blank EXCEPT !.via = a[1], !.who = a[2]]]
      BY <2>2 DEF Manage, ManagesKeys, RequireAuth
    <3> DEFINE r == [Blank EXCEPT !.via = a[1], !.who = a[2]]
    <3>2. a[1] = "cookie" /\ a[2] \in UserIds
      BY Credentials DEF AccountsInv
    <3>3. r \in Request /\ r.made = Nobody
      BY <3>2 DEF Blank, Request
    <3>4. local' = [local EXCEPT ![c] = r] /\ UNCHANGED <<users, lastUser, identities, vouched, opened>>
      BY <2>2, <3>1 DEF Manage, tables
    <3> HIDE DEF r
    <3>5. \A d \in Clients : local'[d].made = local[d].made \/ local'[d].made \notin 1..lastUser
      BY <1>2, <1>3, <3>3, <3>4
    <3> QED BY <1>1, <1>2, <3>4, <3>5, TablesStay
  <2> QED BY <1>6, <2>1, <2>2 DEF KeyStep
<1>7. ASSUME NEW k \in KeyIds, ExpireKey(k) PROVE AccountsInv'
  <2>1. UNCHANGED <<users, lastUser, identities, local, vouched, opened>>
    BY <1>7 DEF ExpireKey, tables
  <2> QED BY <1>1, <1>2, <2>1, TablesStay
<1> QED BY <1>1, <1>5, <1>6, <1>7, RemoveSound DEF AccountsNext

-----------------------------------------------------------------------------
(* What a step may never do.                                               *)

EndsWell(c) ==
  /\ local[c].identity # Nobody /\ local[c].email # NoEmail
  /\ pc'[c] = "idle" /\ budget' = budget
  => \/ c \in contested
     \/ /\ local[c].identity \in DOMAIN identities'
        /\ session'[c] = identities'[local[c].identity]

LEMMA OthersGoOn ==
  ASSUME Quiet, NEW c \in Clients, pc'[c] = pc[c] \/ pc[c] \notin Dance
  PROVE  EndsWell(c)
<1>1. CarriesRight(c) /\ "idle" \notin Dance
  BY DEF Quiet, RequestInv, Dance
<1> QED BY <1>1 DEF CarriesRight, EndsWell

LEMMA SignInEndsWell ==
  ASSUME Quiet, NEW c \in Clients, SignIn(c)
  PROVE  EndsWell(c)
<1>1. /\ pc \in [Clients -> Steps] /\ local \in [Clients -> Request]
      /\ session \in [Clients -> UserIds \cup {Nobody}] /\ Blames(c) /\ ReadsRight(c)
  BY DEF Quiet, TypeInv, AccountsTypeOK, RequestInv
<1>2. CASE pc[c] = "idle"
  BY <1>2, OthersGoOn DEF Dance
<1>3. CASE Known(c)
  <2>1. /\ session' = [session EXCEPT ![c] = identities[local[c].identity]]
        /\ identities' = identities /\ local[c].identity \in DOMAIN identities
    BY <1>3 DEF Known, SetSession, tables
  <2> QED BY <1>1, <2>1 DEF EndsWell
<1>4. CASE Unknown(c)
  <2>1. CASE Trusted(c)
    <3>1. pc'[c] = "begin"
      BY <1>1, <1>4, <2>1 DEF Unknown
    <3> QED BY <3>1 DEF EndsWell
  <2>2. CASE ~Trusted(c)
    BY <2>2 DEF Trusted, EndsWell
  <2> QED BY <2>1, <2>2
<1>5. CASE FindAccount(c) \/ CreateUser(c)
  <2>1. pc'[c] \in {"insertUser", "insertIdentity", "retry"}
    BY <1>1, <1>5 DEF FindAccount, CreateUser, LostRace
  <2> QED BY <2>1 DEF EndsWell
<1>6. CASE CreateUserIdentity(c)
  <2>1. CASE LostRace(c)
    <3>1. pc'[c] = "retry"
      BY <1>1, <2>1 DEF LostRace
    <3> QED BY <3>1 DEF EndsWell
  <2>2. CASE local[c].who \notin DOMAIN users \cup {local[c].made}
    BY <1>1, <1>6, <2>2 DEF CreateUserIdentity, Blames, EndsWell
  <2>3. CASE pc' = [pc EXCEPT ![c] = "commit"]
    BY <1>1, <2>3 DEF EndsWell
  <2> QED BY <1>6, <2>1, <2>2, <2>3 DEF CreateUserIdentity
<1>7. CASE Commit(c)
  <2>1. /\ session' = [session EXCEPT ![c] = local[c].who] /\ Publish(c) /\ pc[c] = "commit"
    BY <1>7 DEF Commit
  <2>2. /\ local[c].identity \in DOMAIN identities' /\ identities'[local[c].identity] = local[c].who
    BY <2>1, PublishFacts
  <2> QED BY <1>1, <2>1, <2>2 DEF EndsWell
<1>8. CASE RetryFails(c)
  BY <1>1, <1>8 DEF RetryFails, Blames, Linked, EndsWell
<1>9. CASE SignInError(c)
  <2>1. budget' # budget
    <3>1. Spend("faults") /\ budget \in [signin : Nat, manage : Nat, track : Nat, faults : Nat]
      BY <1>9 DEF SignInError, Quiet, TypeInv
    <3> QED BY <3>1, BudgetSpent
  <2> QED BY <2>1 DEF EndsWell
<1>10. pc[c] = "idle" \/ Known(c) \/ Unknown(c) \/ FindAccount(c) \/ CreateUser(c)
       \/ CreateUserIdentity(c) \/ Commit(c) \/ RetryFails(c) \/ SignInError(c)
  BY DEF SignIn, Register, Login, Logout, OAuthStart, OAuthCallback, CallbackFails
<1> QED BY <1>2, <1>3, <1>4, <1>5, <1>6, <1>7, <1>8, <1>9, <1>10

(* A step of one client leaves the requests of the others, and does not    *)
(* start or continue a request of user_jobs.                               *)
LEMMA OneClientMoves ==
  ASSUME Quiet, NEW d \in Clients, SignIn(d) \/ KeyStep(d)
  PROVE  /\ \A c \in Clients \ {d} : pc'[c] = pc[c] /\ local'[c] = local[c]
         /\ \/ pc' = pc /\ local' = local
            \/ pc'[d] \notin {"interact", "count"}
<1>1. pc \in [Clients -> Steps] /\ local \in [Clients -> Request]
  BY DEF Quiet, TypeInv, AccountsTypeOK
<1> DEFINE Placed(s) == pc' = [pc EXCEPT ![d] = s]
           Elsewhere == {"idle", "lookup", "begin", "insertUser", "insertIdentity", "commit",
                         "retry", "createKey", "revokeKey"}
<1>2. (pc' = pc /\ local' = local) \/ \E s \in Elsewhere : Placed(s)
  <2>1. CASE \/ \E email \in Emails : Register(d, email) \/ Login(d, email)
             \/ Logout(d) \/ OAuthStart(d) \/ CallbackFails(d)
    BY <2>1 DEF Register, Login, Logout, OAuthStart, CallbackFails
  <2>2. CASE OAuthCallback(d) \/ Known(d) \/ Unknown(d) \/ FindAccount(d) \/ CreateUser(d)
    BY <2>2 DEF OAuthCallback, Known, Unknown, FindAccount, CreateUser, SetSession, Fail,
                Answer, LostRace
  <2>3. CASE CreateUserIdentity(d) \/ Commit(d) \/ RetryFails(d) \/ SignInError(d)
    BY <2>3 DEF CreateUserIdentity, Commit, RetryFails, SignInError, Fail, Answer, LostRace
  <2>4. CASE KeyStep(d)
    BY <2>4 DEF KeyStep, Manage, CreateAPIKey, RevokeAPIKey, Fail, Answer
  <2> QED BY <2>1, <2>2, <2>3, <2>4 DEF SignIn
<1>3. \A c \in Clients \ {d} : local'[c] = local[c]
  <2>1. CASE \/ \E email \in Emails : Register(d, email) \/ Login(d, email)
             \/ Logout(d) \/ OAuthStart(d) \/ CallbackFails(d)
    BY <2>1 DEF Register, Login, Logout, OAuthStart, CallbackFails
  <2>2. CASE OAuthCallback(d) \/ Known(d) \/ Unknown(d) \/ FindAccount(d) \/ CreateUser(d)
    BY <1>1, <2>2 DEF OAuthCallback, Known, Unknown, FindAccount, CreateUser, SetSession, Fail,
                      Answer, LostRace
  <2>3. CASE CreateUserIdentity(d) \/ Commit(d) \/ RetryFails(d) \/ SignInError(d)
    BY <1>1, <2>3 DEF CreateUserIdentity, Commit, RetryFails, SignInError, Fail, Answer, LostRace
  <2>4. CASE KeyStep(d)
    BY <1>1, <2>4 DEF KeyStep, Manage, CreateAPIKey, RevokeAPIKey, Fail, Answer
  <2> QED BY <2>1, <2>2, <2>3, <2>4 DEF SignIn
<1>4. ASSUME NEW s \in Elsewhere, Placed(s)
      PROVE  pc'[d] = s /\ \A c \in Clients \ {d} : pc'[c] = pc[c]
  BY <1>1, <1>4
<1>5. Elsewhere \cap {"interact", "count"} = {}
  OBVIOUS
<1> HIDE DEF Elsewhere, Placed
<1> QED BY <1>2, <1>3, <1>4, <1>5

(* A request of user_jobs waits while others move, and accounts come.      *)
LEMMA AccountsStepAside ==
  ASSUME Quiet, AccountsNext
  PROVE  /\ \A c \in Clients : pc'[c] \in {"interact", "count"} =>
              pc'[c] = pc[c] /\ local'[c] = local[c]
         /\ \A u \in DOMAIN users : u \in DOMAIN users'
<1>1. ASSUME NEW c \in Clients, pc'[c] \in {"interact", "count"}
      PROVE  pc'[c] = pc[c] /\ local'[c] = local[c]
  <2>1. ASSUME NEW k \in KeyIds, ExpireKey(k) PROVE pc'[c] = pc[c] /\ local'[c] = local[c]
    BY <2>1 DEF ExpireKey
  <2>2. ASSUME NEW d \in Clients, SignIn(d) \/ KeyStep(d)
        PROVE  pc'[c] = pc[c] /\ local'[c] = local[c]
    BY <1>1, <2>2, OneClientMoves
  <2> QED BY <2>1, <2>2 DEF AccountsNext
<1>2. ASSUME NEW u \in DOMAIN users PROVE u \in DOMAIN users'
  <2>1. ASSUME NEW d \in Clients, SignIn(d) PROVE u \in DOMAIN users'
    <3>1. CASE \E email \in Emails : Register(d, email)
      BY <3>1 DEF Register
    <3>2. CASE \/ \E email \in Emails : Login(d, email)
               \/ Logout(d) \/ OAuthStart(d) \/ CallbackFails(d) \/ OAuthCallback(d)
      BY <3>2 DEF Login, Logout, OAuthStart, CallbackFails, OAuthCallback, tables
    <3>3. CASE Known(d) \/ Unknown(d) \/ FindAccount(d) \/ CreateUser(d)
               \/ CreateUserIdentity(d) \/ RetryFails(d)
      BY <3>3 DEF Known, Unknown, FindAccount, CreateUser, CreateUserIdentity, RetryFails, tables
    <3>4. CASE Commit(d) \/ SignInError(d)
      BY <3>4 DEF Commit, SignInError, Publish
    <3> QED BY <2>1, <3>1, <3>2, <3>3, <3>4 DEF SignIn
  <2>2. ASSUME NEW d \in Clients, KeyStep(d) PROVE u \in DOMAIN users'
    BY <2>2 DEF KeyStep, Manage, CreateAPIKey, RevokeAPIKey, tables
  <2>3. ASSUME NEW k \in KeyIds, ExpireKey(k) PROVE u \in DOMAIN users'
    BY <2>3 DEF ExpireKey, tables
  <2> QED BY <2>1, <2>2, <2>3 DEF AccountsNext
<1> QED BY <1>1, <1>2

LEMMA AccountsEndWell ==
  ASSUME Quiet, AccountsNext \/ \E u \in UserIds : RemoveUser(u), NEW c \in Clients
  PROVE  EndsWell(c)
<1>1. CASE SignIn(c)
  BY <1>1, SignInEndsWell
<1>2. CASE KeyStep(c)
  <2>1. pc[c] \notin Dance
    BY <1>2 DEF KeyStep, Manage, CreateAPIKey, RevokeAPIKey, Dance
  <2> QED BY <2>1, OthersGoOn
<1>3. ASSUME NEW d \in Clients, d # c, SignIn(d) \/ KeyStep(d) PROVE EndsWell(c)
  BY <1>3, OneClientMoves, OthersGoOn
<1>4. CASE (\E k \in KeyIds : ExpireKey(k)) \/ \E u \in UserIds : RemoveUser(u)
  <2>1. pc'[c] = pc[c]
    BY <1>4 DEF ExpireKey, RemoveUser
  <2> QED BY <2>1, OthersGoOn
<1> QED BY <1>1, <1>2, <1>3, <1>4 DEF AccountsNext

KeptBySession(k) ==
  (k \in DOMAIN keys) # (k \in DOMAIN keys') =>
     LET owner == IF k \in DOMAIN keys THEN keys[k].owner ELSE keys'[k].owner
     IN \/ owner \notin DOMAIN users'
        \/ \E c \in Clients : /\ pc[c] \in {"createKey", "revokeKey"}
                              /\ local[c].via = "cookie" /\ local[c].who = owner

LEMMA KeysStay ==
  ASSUME NEW k, DOMAIN keys' = DOMAIN keys
  PROVE  KeptBySession(k)
  BY DEF KeptBySession

LEMMA AccountsKeepKeys ==
  ASSUME Quiet, AccountsNext \/ \E u \in UserIds : RemoveUser(u), NEW k \in KeyIds
  PROVE  KeptBySession(k)
<1>1. ASSUME NEW c \in Clients, SignIn(c) PROVE KeptBySession(k)
  <2>1. keys' = keys
    <3>1. CASE \/ \E email \in Emails : Register(c, email) \/ Login(c, email)
               \/ Logout(c) \/ OAuthStart(c) \/ CallbackFails(c) \/ OAuthCallback(c)
      BY <3>1 DEF Register, Login, Logout, OAuthStart, CallbackFails, OAuthCallback, keyring
    <3>2. CASE \/ Known(c) \/ Unknown(c) \/ FindAccount(c) \/ CreateUser(c)
               \/ CreateUserIdentity(c) \/ Commit(c) \/ RetryFails(c) \/ SignInError(c)
      BY <3>2 DEF Known, Unknown, FindAccount, CreateUser, CreateUserIdentity, Commit,
                  RetryFails, SignInError, keyring
    <3> QED BY <1>1, <3>1, <3>2 DEF SignIn
  <2> QED BY <2>1, KeysStay
<1>2. ASSUME NEW c \in Clients, KeyStep(c) PROVE KeptBySession(k)
  <2>0. CarriesRight(c)
    BY DEF Quiet, RequestInv
  <2>1. CASE Manage(c, "createKey") \/ Manage(c, "revokeKey")
    <3>1. keys' = keys
      BY <2>1 DEF Manage, keyring
    <3> QED BY <3>1, KeysStay
  <2>2. CASE CreateAPIKey(c)
    <3>1. pc[c] = "createKey" /\ local[c].via = "cookie"
      BY <2>0, <2>2 DEF CreateAPIKey, CarriesRight
    <3>2. CASE local[c].who \in DOMAIN users
      <4> DEFINE n == lastKey + 1
      <4>1. /\ DOMAIN keys' = DOMAIN keys \cup {n}
            /\ keys'[n].owner = local[c].who
        BY <2>2, <3>2 DEF CreateAPIKey
      <4> HIDE DEF n
      <4> QED BY <3>1, <4>1 DEF KeptBySession
    <3>3. CASE local[c].who \notin DOMAIN users
      <4>1. keys' = keys
        BY <2>2, <3>3 DEF CreateAPIKey, keyring
      <4> QED BY <4>1, KeysStay
    <3> QED BY <3>2, <3>3
  <2>3. CASE RevokeAPIKey(c)
    <3>1. pc[c] = "revokeKey" /\ local[c].via = "cookie"
      BY <2>0, <2>3 DEF RevokeAPIKey, CarriesRight
    <3>2. ASSUME NEW q \in Revocable(c), keys' = [x \in DOMAIN keys \ {q} |-> keys[x]]
          PROVE  KeptBySession(k)
      <4>1. q \in DOMAIN keys /\ keys[q].owner = local[c].who /\ DOMAIN keys' = DOMAIN keys \ {q}
        BY <3>2 DEF Revocable
      <4> QED BY <3>1, <4>1 DEF KeptBySession
    <3>3. CASE keys' = keys
      BY <3>3, KeysStay
    <3> QED BY <2>3, <3>2, <3>3 DEF RevokeAPIKey
  <2> QED BY <1>2, <2>1, <2>2, <2>3 DEF KeyStep
<1>3. ASSUME NEW q \in KeyIds, ExpireKey(q) PROVE KeptBySession(k)
  <2>1. DOMAIN keys' = DOMAIN keys
    BY <1>3 DEF ExpireKey
  <2> QED BY <2>1, KeysStay
<1>4. ASSUME NEW u \in UserIds, RemoveUser(u) PROVE KeptBySession(k)
  <2>1. /\ DOMAIN keys' = {q \in DOMAIN keys : keys[q].owner # u}
        /\ DOMAIN users' = DOMAIN users \ {u}
    BY <1>4 DEF RemoveUser
  <2> QED BY <2>1 DEF KeptBySession
<1> QED BY <1>1, <1>2, <1>3, <1>4 DEF AccountsNext

-----------------------------------------------------------------------------
LEMMA AccountsStart == AccountsInit => AccountsInv
<1> SUFFICES ASSUME AccountsInit PROVE AccountsInv
  OBVIOUS
<1>1. /\ users = [u \in {} |-> [email |-> NoEmail, password |-> Nobody]]
      /\ lastUser = 0 /\ identities = [i \in {} |-> Nobody]
      /\ keys = [k \in {} |-> [owner |-> Nobody, expired |-> FALSE]] /\ lastKey = 0
      /\ session = [c \in Clients |-> Nobody] /\ started = {}
      /\ pc = [c \in Clients |-> "idle"] /\ local = [c \in Clients |-> Blank]
      /\ budget \in Budgets /\ vouched = {} /\ opened = {} /\ contested = {}
  BY DEF AccountsInit
<1>2. DOMAIN users = {} /\ DOMAIN identities = {} /\ DOMAIN keys = {}
  BY <1>1
<1>3. \A c \in Clients : pc[c] = "idle" /\ local[c] = Blank
  BY <1>1
<1>4. /\ budget \in [signin : 0..MaxUsers, manage : 0..MaxKeys, track : Nat, faults : Nat]
      /\ MaxUsers \in Nat /\ MaxKeys \in Nat
  BY <1>1, AccountsAssumption
<1>5. TypeInv
  <2>1. "idle" \in Steps
    BY DEF Steps
  <2>2. local \in [Clients -> Request] /\ \A c \in Clients : local[c].who \in UserIds \cup {Nobody}
    BY <1>1, BlankRequest
  <2>3. budget \in [signin : Nat, manage : Nat, track : Nat, faults : Nat]
    BY <1>4
  <2>4. lastUser \in 0..MaxUsers /\ lastKey \in 0..MaxKeys
    BY <1>1, <1>4
  <2>5. /\ session \in [Clients -> UserIds \cup {Nobody}] /\ pc \in [Clients -> Steps]
        /\ vouched \subseteq Identities \X Emails /\ opened \subseteq Identities \X UserIds
        /\ started \subseteq Clients /\ contested \subseteq Clients
    BY <1>1, <2>1
  <2> QED BY <1>2, <2>2, <2>3, <2>4, <2>5 DEF TypeInv, AccountsTypeOK
<1>6. CountInv
  <2>1. Joining = {} /\ Minting = {}
    BY <1>3 DEF Joining, Minting, Early
  <2> QED BY <1>1, <1>4, <2>1, FS_EmptySet DEF CountInv
<1>7. RequestInv
  <2>1. "idle" \notin Dance /\ "idle" \notin Linking
    BY DEF Dance, Linking
  <2>2. ASSUME NEW c \in Clients PROVE CarriesRight(c) /\ ReadsRight(c) /\ Blames(c)
    BY <1>3, <2>1, BlankRequest DEF CarriesRight, ReadsRight, Blames
  <2>3. ASSUME NEW c \in Clients, NEW d \in Clients PROVE Apart(c, d)
    BY <1>3, <2>1, BlankRequest DEF Apart
  <2> QED BY <2>2, <2>3 DEF RequestInv
<1>8. OpenedInv /\ AccountsSound /\ SignInResolves
  BY <1>1, <1>2 DEF OpenedInv, AccountsSound, OnePerEmail, NothingHalfDone, LinkedByVerifiedEmail,
                    SignInResolves
<1> QED BY <1>5, <1>6, <1>7, <1>8 DEF AccountsInv

LEMMA AccountsStutter == AccountsInv /\ UNCHANGED accountVars => AccountsInv'
<1> SUFFICES ASSUME AccountsInv, UNCHANGED accountVars PROVE AccountsInv'
  OBVIOUS
<1>1. UNCHANGED <<users, lastUser, identities, keys, lastKey, session, started, pc, local,
                  budget, vouched, opened, contested>>
  BY DEF accountVars, tables, keyring, cookies
<1>2. TypeInv' /\ CountInv'
  BY <1>1 DEF AccountsInv, TypeInv, AccountsTypeOK, CountInv, Joining, Minting
<1>3. RequestInv'
  BY <1>1 DEF AccountsInv, RequestInv, CarriesRight, ReadsRight, Blames, Apart, EmailTaken,
              OwnerOf, Linked
<1>4. OpenedInv' /\ AccountsSound' /\ SignInResolves'
  BY <1>1 DEF AccountsInv, OpenedInv, AccountsSound, OnePerEmail, NothingHalfDone,
              LinkedByVerifiedEmail, SignInResolves
<1> QED BY <1>2, <1>3, <1>4 DEF AccountsInv

-----------------------------------------------------------------------------
(* The requests of user_jobs: the inductive invariant.                     *)

RowsInv ==
  /\ DOMAIN rows \subseteq (DOMAIN users) \X Jobs
  /\ \A k \in DOMAIN rows : rows[k] \in Row
  /\ decided \in [Pairs -> SUBSET Stages]

(* What a list request has read is the filter of what it has seen.         *)
Listed(c) ==
  /\ ask[c].job \in Filters
  /\ page[c] = {j \in DOMAIN seen[c] : InFilter(seen[c][j], ask[c].job)}

AskInv ==
  /\ ask \in [Clients -> Asks \cup {NoAsk}]
  /\ page \in [Clients -> SUBSET Jobs]
  /\ seen = [c \in Clients |-> seen[c]]
  /\ \A c \in Clients :
       /\ pc[c] \in {"interact", "count"} => local[c].who \in UserIds
       /\ pc[c] = "interact" => ask[c] \in Asks
       /\ pc[c] = "count" => Listed(c)

IInv == AccountsInv /\ RowsInv /\ AskInv /\ TrackingWins

-----------------------------------------------------------------------------
(* Requests and rows.                                                      *)

LEMMA AskFacts ==
  ASSUME NEW a \in Asks \cup {NoAsk}
  PROVE  /\ a \in Asks => /\ a.op \in {"view", "apply", "save", "unsave", "track", "list"}
                          /\ a.op = "list" => a.job \in Filters
                          /\ a.op # "list" => a.job \in Jobs
         /\ a.stage \in Stages \cup {None} /\ a.notes \in Notes \cup {None}
         /\ a.stage # None => a.op = "track"
<1> DEFINE Tracking(j, s, n) == [op |-> "track", job |-> j, stage |-> s, notes |-> n]
<1>1. ASSUME NEW op, NEW j
      PROVE  /\ AskFor(op, j).op = op /\ AskFor(op, j).job = j
             /\ AskFor(op, j).stage = None /\ AskFor(op, j).notes = None
  BY DEF AskFor
<1>2. ASSUME NEW j \in Jobs, NEW s \in Stages \cup {None}, NEW n \in Notes \cup {None}
      PROVE  /\ Tracking(j, s, n).op = "track" /\ Tracking(j, s, n).job = j
             /\ Tracking(j, s, n).stage = s /\ Tracking(j, s, n).notes = n
  OBVIOUS
<1>3. NoAsk.op = "none" /\ NoAsk.stage = None /\ NoAsk.notes = None
  BY <1>1 DEF NoAsk
<1> HIDE DEF Tracking
<1>4. a \in Asks =>
        \/ \E op \in {"view", "apply", "save", "unsave"}, j \in Jobs : a = AskFor(op, j)
        \/ \E j \in Jobs, s \in Stages \cup {None}, n \in Notes \cup {None} : a = Tracking(j, s, n)
        \/ \E f \in Filters : a = AskFor("list", f)
  BY DEF Asks, Tracking
<1>5. ASSUME NEW op \in {"view", "apply", "save", "unsave"}, NEW j \in Jobs, a = AskFor(op, j)
      PROVE  a.op = op /\ a.job = j /\ a.stage = None /\ a.notes = None
  BY <1>1, <1>5
<1>6. ASSUME NEW f \in Filters, a = AskFor("list", f)
      PROVE  a.op = "list" /\ a.job = f /\ a.stage = None /\ a.notes = None
  BY <1>1, <1>6
<1>7. ASSUME NEW j \in Jobs, NEW s \in Stages \cup {None}, NEW n \in Notes \cup {None},
             a = Tracking(j, s, n)
      PROVE  a.op = "track" /\ a.job = j /\ a.stage = s /\ a.notes = n
  BY <1>2, <1>7
<1> QED BY <1>3, <1>4, <1>5, <1>6, <1>7

LEMMA NoneIsNoStage == None \notin Stages /\ None \notin Notes /\ Applied \in Stages
  BY UserJobsAssumption

LEMMA NewRowFacts ==
  /\ NewRow \in Row
  /\ ~NewRow.saved /\ ~NewRow.applied /\ NewRow.stage = None /\ NewRow.notes = None
  BY DEF NewRow, Row

LEMMA RowFields ==
  ASSUME NEW r \in Row
  PROVE  /\ r.saved \in BOOLEAN /\ r.applied \in BOOLEAN
         /\ r.stage \in Stages \cup {None} /\ r.notes \in Notes \cup {None}
  BY DEF Row

(* What each statement does to a row.                                      *)
LEMMA UpdatedFacts ==
  ASSUME NEW r \in Row, NEW a \in Asks, a.op # "list"
  PROVE  LET n == Updated(r, a)
         IN /\ n \in Row
            /\ r.applied => n.applied
            /\ r.stage # None => n.stage # None
            /\ r.notes # None => n.notes # None
            /\ r.saved /\ ~n.saved => a.op = "unsave"
            /\ a.stage # None => n.stage = a.stage
            /\ a.stage = None => n.stage = r.stage \/ (r.stage = None /\ n.applied)
            /\ n.applied => n.stage # None \/ (r.applied /\ n.stage = r.stage)
<1> DEFINE n == Updated(r, a)
<1>1. /\ a.op \in {"view", "apply", "save", "unsave", "track"}
      /\ a.stage \in Stages \cup {None} /\ a.notes \in Notes \cup {None}
      /\ a.stage # None => a.op = "track"
  BY AskFacts
<1>2. CASE a.op = "view"
  <2>1. n = r
    BY <1>2 DEF Updated
  <2> QED BY <1>1, <1>2, <2>1
<1>3. CASE a.op = "apply"
  <2>1. n = [r EXCEPT !.applied = TRUE, !.stage = IF r.stage # None THEN r.stage ELSE Applied]
    BY <1>3 DEF Updated, MarkJobApplied, Coalesce
  <2>2. /\ n \in Row /\ n.applied /\ n.saved = r.saved /\ n.notes = r.notes
        /\ n.stage = IF r.stage # None THEN r.stage ELSE Applied
    <3> HIDE DEF n
    <3> QED BY <2>1, NoneIsNoStage DEF Row
  <2> QED BY <1>1, <1>3, <2>2, NoneIsNoStage
<1>4. CASE a.op = "save"
  <2>1. n = [r EXCEPT !.saved = TRUE]
    BY <1>4 DEF Updated, SaveJob
  <2>2. /\ n \in Row /\ n.saved /\ n.applied = r.applied /\ n.stage = r.stage /\ n.notes = r.notes
    <3> HIDE DEF n
    <3> QED BY <2>1 DEF Row
  <2> QED BY <1>1, <1>4, <2>2
<1>5. CASE a.op = "unsave"
  <2>1. n = [r EXCEPT !.saved = FALSE]
    BY <1>5 DEF Updated, UnsaveJob
  <2>2. /\ n \in Row /\ n.applied = r.applied /\ n.stage = r.stage /\ n.notes = r.notes
    <3> HIDE DEF n
    <3> QED BY <2>1 DEF Row
  <2> QED BY <1>1, <1>5, <2>2
<1>6. CASE a.op = "track"
  <2>1. n = [r EXCEPT !.stage = IF a.stage # None THEN a.stage ELSE r.stage,
                      !.notes = IF a.notes # None THEN a.notes ELSE r.notes]
    BY <1>6 DEF Updated, TrackJob, Coalesce
  <2>2. /\ n \in Row /\ n.applied = r.applied /\ n.saved = r.saved
        /\ n.stage = IF a.stage # None THEN a.stage ELSE r.stage
        /\ n.notes = IF a.notes # None THEN a.notes ELSE r.notes
    <3> HIDE DEF n
    <3> QED BY <1>1, <2>1 DEF Row
  <2> QED BY <1>1, <1>6, <2>2
<1> QED BY <1>1, <1>2, <1>3, <1>4, <1>5, <1>6

-----------------------------------------------------------------------------
(* The requests, as requests of an account.                                *)

JobStep(c) == Ask(c) \/ Interact(c) \/ ListUserJobs(c) \/ Respond(c)

LEMMA AskGetsIn ==
  ASSUME Quiet, NEW c \in Clients, Ask(c)
  PROVE  /\ Quiet' /\ local'[c].who \in UserIds /\ local'[c].made = Nobody
         /\ pc' = [pc EXCEPT ![c] = "interact"]
         /\ \A d \in Clients \ {c} : local'[d] = local[d]
<1>1. PICK b \in RequireAuthOrKey(c) :
        local' = [local EXCEPT ![c] = [Blank EXCEPT !.via = b[1], !.who = b[2]]]
  BY DEF Ask
<1>2. b[1] \in {"cookie", "key"} /\ b[2] \in UserIds
  BY Credentials DEF Quiet
<1>3. /\ pc[c] = "idle" /\ Spend("track") /\ pc' = [pc EXCEPT ![c] = "interact"]
      /\ UNCHANGED <<tables, keyring, cookies, vouched, opened, contested>>
  BY DEF Ask
<1>4. "interact" \in Steps
  BY DEF Steps
<1>5. Quiet'
  BY <1>1, <1>2, <1>3, <1>4, GetsIn
<1> DEFINE r == [Blank EXCEPT !.via = b[1], !.who = b[2]]
<1>6. r \in Request /\ r.who = b[2] /\ r.made = Nobody
  BY <1>2 DEF Blank, Request
<1>7. local' = [local EXCEPT ![c] = r] /\ local \in [Clients -> Request]
  BY <1>1 DEF Quiet, TypeInv
<1> HIDE DEF r
<1> QED BY <1>2, <1>3, <1>5, <1>6, <1>7

LEMMA LeaveQuiet ==
  ASSUME Quiet, NEW c \in Clients, Leave(c),
         UNCHANGED <<tables, keyring, started, budget, vouched, opened>>
  PROVE  Quiet'
<1>1. /\ Answer(c) /\ UNCHANGED session
      /\ UNCHANGED <<users, lastUser, identities, keys, lastKey, started, budget, vouched, opened>>
  BY DEF Leave, Fail, tables, keyring
<1>2. /\ DOMAIN keys' \subseteq 1..lastKey' /\ lastKey' \in Nat
      /\ \A k \in DOMAIN keys' : keys'[k].owner \in DOMAIN users
      /\ session' \in [Clients -> UserIds \cup {Nobody}]
      /\ opened' \subseteq Identities \X UserIds
  BY <1>1 DEF Quiet, TypeInv, AccountsTypeOK
<1>3. budget.manage \in Nat
  BY DEF Quiet, TypeInv
<1>4. /\ budget'.signin <= budget.signin
      /\ lastKey' + budget'.manage <= lastKey + budget.manage + (IF pc[c] = "createKey" THEN 1 ELSE 0)
  BY <1>1, <1>2, <1>3, BudgetStays
<1> QED BY <1>1, <1>2, <1>4, BudgetStays, AnswerMove

LEMMA ListQuiet ==
  ASSUME Quiet, NEW c \in Clients, ListUserJobs(c)
  PROVE  Quiet'
<1> DEFINE r == local[c]
<1>1. /\ pc[c] = "interact" /\ pc' = [pc EXCEPT ![c] = "count"] /\ local' = local
      /\ UNCHANGED <<users, lastUser, identities, keys, lastKey, session, started, budget,
                     vouched, opened, contested>>
  BY DEF ListUserJobs, tables, keyring, cookies
<1>2. /\ "interact" \notin Dance /\ "interact" \notin Linking /\ "count" \in Steps \ Dance
      /\ "count" \notin {"createKey", "revokeKey"} /\ "interact" # "createKey"
  BY DEF Dance, Linking, Steps
<1>3. /\ r \in Request /\ r.identity = Nobody /\ r.email = NoEmail /\ r.made = Nobody /\ ~r.linked
      /\ local' = [local EXCEPT ![c] = r]
  BY <1>1, <1>2 DEF Quiet, TypeInv, RequestInv, CarriesRight
<1>4. /\ contested \ {c} \subseteq contested' /\ contested' \subseteq Clients
      /\ DOMAIN keys' \subseteq 1..lastKey' /\ lastKey' \in Nat
      /\ \A k \in DOMAIN keys' : keys'[k].owner \in DOMAIN users
      /\ session' \in [Clients -> UserIds \cup {Nobody}] /\ started' \subseteq Clients
      /\ vouched \subseteq vouched' /\ vouched' \subseteq Identities \X Emails
      /\ opened' \subseteq Identities \X UserIds
  BY <1>1 DEF Quiet, TypeInv, AccountsTypeOK
<1>5. budget.manage \in Nat
  BY DEF Quiet, TypeInv
<1>6. /\ budget'.signin <= budget.signin
      /\ lastKey' + budget'.manage + (IF "count" = "createKey" THEN 1 ELSE 0)
           <= lastKey + budget.manage + (IF pc[c] = "createKey" THEN 1 ELSE 0)
  BY <1>1, <1>2, <1>4, <1>5, BudgetStays
<1> HIDE DEF r
<1> QED BY <1>1, <1>2, <1>3, <1>4, <1>6, BudgetStays, PlainMove

LEMMA JobStepAccounts ==
  ASSUME AccountsInv, NEW c \in Clients, JobStep(c)
  PROVE  /\ AccountsInv' /\ UNCHANGED <<users, identities, keys>>
         /\ pc[c] \notin Dance
         /\ \A d \in Clients \ {c} : pc'[d] = pc[d] /\ local'[d] = local[d]
<1>0. /\ Quiet /\ lastUser \in Nat /\ Nobody \notin 1..lastUser
      /\ pc \in [Clients -> Steps] /\ local \in [Clients -> Request]
  BY AccountsAssumption DEF AccountsInv, Quiet, TypeInv, AccountsTypeOK
<1>1. UNCHANGED <<users, lastUser, identities, keys, vouched, opened>> /\ pc[c] \notin Dance
  BY DEF JobStep, Ask, Interact, ListUserJobs, Respond, tables, keyring, Dance
<1>2. CASE Ask(c)
  <2>1. Quiet' /\ local'[c].made = Nobody
        /\ pc' = [pc EXCEPT ![c] = "interact"] /\ \A d \in Clients \ {c} : local'[d] = local[d]
    BY <1>0, <1>2, AskGetsIn
  <2>2. \A d \in Clients : local'[d].made = local[d].made \/ local'[d].made \notin 1..lastUser
    BY <1>0, <2>1
  <2>3. AccountsInv'
    BY <1>0, <1>1, <2>1, <2>2, TablesStay
  <2> QED BY <1>0, <1>1, <2>1, <2>3
<1>3. CASE Interact(c) \/ Respond(c)
  <2>1. Leave(c) /\ UNCHANGED <<tables, keyring, started, budget, vouched, opened>>
    BY <1>3 DEF Interact, Respond
  <2>2. pc' = [pc EXCEPT ![c] = "idle"] /\ local' = [local EXCEPT ![c] = Blank]
    BY <2>1 DEF Leave, Fail, Answer
  <2>3. \A d \in Clients : local'[d].made = local[d].made \/ local'[d].made \notin 1..lastUser
    BY <1>0, <2>2, BlankRequest
  <2>4. Quiet'
    BY <1>0, <2>1, LeaveQuiet
  <2>5. AccountsInv'
    BY <1>0, <1>1, <2>3, <2>4, TablesStay
  <2> QED BY <1>0, <1>1, <2>2, <2>5
<1>4. CASE ListUserJobs(c)
  <2>1. pc' = [pc EXCEPT ![c] = "count"] /\ local' = local
    BY <1>4 DEF ListUserJobs
  <2>2. Quiet'
    BY <1>0, <1>4, ListQuiet
  <2>3. AccountsInv'
    BY <1>0, <1>1, <2>1, <2>2, TablesStay
  <2> QED BY <1>0, <1>1, <2>1, <2>3
<1> QED BY <1>2, <1>3, <1>4 DEF JobStep

-----------------------------------------------------------------------------
(* The rows.                                                               *)

(* What a request writes, if it writes.                                    *)
LEMMA InteractFacts ==
  ASSUME IInv, NEW c \in Clients, Interact(c)
  PROVE  LET k == Key(c)
             a == ask[c]
         IN /\ k \in Pairs /\ k[1] = local[c].who /\ k[2] = a.job /\ a.job \in Jobs
            /\ a \in Asks /\ a.op # "list"
            /\ a.stage \in Stages \cup {None} /\ (a.stage # None => a.op = "track")
            /\ Existing(c) \in Row
            /\ k \in DOMAIN rows => Existing(c) = rows[k] /\ HasAccount(c)
            /\ k \notin DOMAIN rows => Existing(c) = NewRow
<1>1. pc[c] = "interact" /\ ask[c].op # "list"
  BY DEF Interact
<1>2. ask[c] \in Asks /\ local[c].who \in UserIds
  BY <1>1 DEF IInv, AskInv
<1>3. /\ ask[c].job \in Jobs /\ ask[c].stage \in Stages \cup {None}
      /\ ask[c].stage # None => ask[c].op = "track"
  BY <1>1, <1>2, AskFacts
<1>4. Key(c) \in Pairs /\ Key(c)[1] = local[c].who /\ Key(c)[2] = ask[c].job
  BY <1>2, <1>3 DEF Key, Pairs
<1>5. Key(c) \in DOMAIN rows => Existing(c) = rows[Key(c)] /\ rows[Key(c)] \in Row /\ HasAccount(c)
  BY <1>4 DEF Existing, IInv, RowsInv, HasAccount
<1>6. Key(c) \notin DOMAIN rows => Existing(c) = NewRow
  BY DEF Existing
<1> QED BY <1>1, <1>2, <1>3, <1>4, <1>5, <1>6, NewRowFacts

(* The row that is there after a request.                                  *)
LEMMA InteractRows ==
  ASSUME IInv, NEW c \in Clients, Interact(c)
  PROVE  LET k == Key(c)
             n == Updated(Existing(c), ask[c])
         IN /\ n \in Row
            /\ \A q \in DOMAIN rows : q \in DOMAIN rows' /\ (q # k => rows'[q] = rows[q])
            /\ \A q \in DOMAIN rows' \ DOMAIN rows : q = k
            /\ \/ rows' = rows /\ (~HasAccount(c) \/ ask[c].op = "unsave")
               \/ HasAccount(c) /\ k \in DOMAIN rows' /\ rows'[k] = n
            /\ HasAccount(c) \/ rows' = rows
<1>1. Updated(Existing(c), ask[c]) \in Row
  BY InteractFacts, UpdatedFacts
<1> DEFINE k == Key(c)
           n == Updated(Existing(c), ask[c])
           writes == HasAccount(c) /\ (ask[c].op = "unsave" => k \in DOMAIN rows)
<1>2. rows' = IF writes THEN [q \in DOMAIN rows \cup {k} |-> IF q = k THEN n ELSE rows[q]] ELSE rows
  BY DEF Interact
<1>3. n \in Row
  BY <1>1
<1>4. /\ writes => HasAccount(c)
      /\ ~writes => ~HasAccount(c) \/ ask[c].op = "unsave"
  OBVIOUS
<1> HIDE DEF k, n, writes
<1>5. CASE writes
  <2>1. /\ DOMAIN rows' = DOMAIN rows \cup {k} /\ rows'[k] = n
        /\ \A q \in DOMAIN rows : q # k => rows'[q] = rows[q]
    BY <1>2, <1>5
  <2> QED BY <1>3, <1>4, <1>5, <2>1 DEF k, n
<1>6. CASE ~writes
  BY <1>2, <1>3, <1>4, <1>6 DEF k, n
<1> QED BY <1>5, <1>6

LEMMA InteractKeepsRows ==
  ASSUME IInv, NEW c \in Clients, Interact(c)
  PROVE  RowsInv' /\ TrackingWins'
<1> DEFINE k == Key(c)
           a == ask[c]
           o == Existing(c)
           n == Updated(o, a)
<1>1. /\ k \in Pairs /\ k[1] = local[c].who /\ k[2] = a.job /\ a.job \in Jobs
      /\ a \in Asks /\ a.op # "list"
      /\ a.stage \in Stages \cup {None} /\ (a.stage # None => a.op = "track")
      /\ o \in Row /\ (k \in DOMAIN rows => o = rows[k] /\ HasAccount(c))
      /\ k \notin DOMAIN rows => o = NewRow
  BY InteractFacts
<1>2. /\ n \in Row
      /\ \A q \in DOMAIN rows : q \in DOMAIN rows' /\ (q # k => rows'[q] = rows[q])
      /\ \A q \in DOMAIN rows' \ DOMAIN rows : q = k
      /\ \/ rows' = rows /\ (~HasAccount(c) \/ a.op = "unsave")
         \/ HasAccount(c) /\ k \in DOMAIN rows' /\ rows'[k] = n
      /\ HasAccount(c) \/ rows' = rows
  BY InteractRows
<1>3. /\ o.applied \in BOOLEAN /\ n.applied \in BOOLEAN
      /\ a.stage # None => n.stage = a.stage
      /\ a.stage = None => n.stage = o.stage \/ (o.stage = None /\ n.applied)
      /\ n.applied => n.stage # None \/ (o.applied /\ n.stage = o.stage)
      /\ o.stage # None => n.stage # None
  BY <1>1, <1>2, UpdatedFacts, RowFields
<1>4. /\ decided' = IF a.stage # None /\ HasAccount(c)
                    THEN [decided EXCEPT ![k] = decided[k] \cup {a.stage}] ELSE decided
      /\ users' = users
  BY DEF Interact, tables
<1>5. /\ decided \in [Pairs -> SUBSET Stages]
      /\ DOMAIN rows \subseteq (DOMAIN users) \X Jobs /\ \A q \in DOMAIN rows : rows[q] \in Row
      /\ \A q \in Pairs : /\ decided[q] # {} => q \in DOMAIN rows /\ rows[q].stage \in decided[q]
                          /\ q \in DOMAIN rows /\ rows[q].applied => rows[q].stage # None
  BY DEF IInv, RowsInv, TrackingWins
<1>6. HasAccount(c) => k \in (DOMAIN users) \X Jobs
  BY <1>1 DEF HasAccount, Key, Pairs
<1> HIDE DEF k, a, o, n
<1>7. /\ decided' \in [Pairs -> SUBSET Stages]
      /\ \A q \in Pairs \ {k} : decided'[q] = decided[q]
      /\ decided'[k] = IF a.stage # None /\ HasAccount(c) THEN decided[k] \cup {a.stage} ELSE decided[k]
  BY <1>1, <1>4, <1>5
<1>8. RowsInv'
  <2>1. DOMAIN rows' \subseteq (DOMAIN users') \X Jobs
    BY <1>2, <1>4, <1>5, <1>6
  <2>2. \A q \in DOMAIN rows' : rows'[q] \in Row
    BY <1>2, <1>5
  <2> QED BY <1>7, <2>1, <2>2 DEF RowsInv
<1>9. ASSUME NEW q \in Pairs
      PROVE  /\ decided'[q] # {} => q \in DOMAIN rows' /\ rows'[q].stage \in decided'[q]
             /\ q \in DOMAIN rows' /\ rows'[q].applied => rows'[q].stage # None
  <2>1. CASE q # k
    BY <1>2, <1>5, <1>7, <2>1
  <2>2. CASE q = k /\ rows' = rows /\ (~HasAccount(c) \/ a.op = "unsave")
    <3>1. a.stage # None => ~HasAccount(c)
      BY <1>1, <2>2
    <3> QED BY <1>5, <1>7, <2>2, <3>1
  <2>3. CASE q = k /\ HasAccount(c) /\ k \in DOMAIN rows' /\ rows'[k] = n
    <3>1. decided[k] # {} => k \in DOMAIN rows /\ o = rows[k] /\ o.stage \in decided[k] /\ o.stage # None
      BY <1>1, <1>5, NoneIsNoStage
    <3>2. decided'[k] # {} => n.stage \in decided'[k]
      BY <1>3, <1>7, <2>3, <3>1
    <3>3. o.applied => o.stage # None
      BY <1>1, <1>5, NewRowFacts
    <3> QED BY <1>3, <2>3, <3>2, <3>3
  <2> QED BY <1>2, <2>1, <2>2, <2>3
<1>10. TrackingWins'
  BY <1>9 DEF TrackingWins
<1> QED BY <1>8, <1>10

-----------------------------------------------------------------------------
(* The requests, with what they ask for and have read.                     *)

LEMMA MyRowsFacts ==
  ASSUME NEW u
  PROVE  /\ DOMAIN MyRows(u) \subseteq Jobs
         /\ \A j \in DOMAIN MyRows(u) : <<u, j>> \in DOMAIN rows /\ MyRows(u)[j] = rows[<<u, j>>]
  BY DEF MyRows

LEMMA JobStepAsks ==
  ASSUME IInv, NEW c \in Clients, JobStep(c)
  PROVE  AskInv'
<1>1. /\ pc \in [Clients -> Steps] /\ ask \in [Clients -> Asks \cup {NoAsk}]
      /\ page \in [Clients -> SUBSET Jobs] /\ seen = [d \in Clients |-> seen[d]]
      /\ local \in [Clients -> Request]
  BY DEF IInv, AccountsInv, TypeInv, AccountsTypeOK, AskInv
<1>2. \A d \in Clients \ {c} : pc'[d] = pc[d] /\ local'[d] = local[d]
  BY JobStepAccounts DEF IInv
<1> DEFINE Right(d) == /\ pc[d] \in {"interact", "count"} => local[d].who \in UserIds
                       /\ pc[d] = "interact" => ask[d] \in Asks
                       /\ pc[d] = "count" => Listed(d)
<1>3. ASSUME \A d \in Clients \ {c} : ask'[d] = ask[d] /\ page'[d] = page[d] /\ seen'[d] = seen[d]
      PROVE  \A d \in Clients \ {c} : Right(d)'
  <2>1. \A d \in Clients : Right(d)
    BY DEF IInv, AskInv
  <2> QED BY <1>2, <1>3, <2>1 DEF Listed
<1>4. CASE Ask(c)
  <2>1. PICK a \in Asks : ask' = [ask EXCEPT ![c] = a]
    BY <1>4 DEF Ask
  <2>2. pc' = [pc EXCEPT ![c] = "interact"] /\ local'[c].who \in UserIds
    BY <1>4, AskGetsIn DEF IInv, AccountsInv, Quiet
  <2>3. page' = page /\ seen' = seen
    BY <1>4 DEF Ask
  <2>4. Right(c)'
    BY <1>1, <2>1, <2>2
  <2>5. \A d \in Clients \ {c} : Right(d)'
    <3>1. \A d \in Clients \ {c} : ask'[d] = ask[d] /\ page'[d] = page[d] /\ seen'[d] = seen[d]
      BY <1>1, <2>1, <2>3
    <3> HIDE DEF Right
    <3> QED BY <3>1, <1>3
  <2>6. /\ ask' \in [Clients -> Asks \cup {NoAsk}] /\ page' \in [Clients -> SUBSET Jobs]
        /\ seen' = [d \in Clients |-> seen'[d]]
    BY <1>1, <2>1, <2>3
  <2> QED BY <2>4, <2>5, <2>6 DEF AskInv
<1>5. CASE Interact(c) \/ Respond(c)
  <2>1. /\ pc' = [pc EXCEPT ![c] = "idle"] /\ ask' = [ask EXCEPT ![c] = NoAsk]
        /\ \/ page' = page /\ seen' = seen
           \/ page' = [page EXCEPT ![c] = {}] /\ seen' = [seen EXCEPT ![c] = NoRows]
    BY <1>5 DEF Interact, Respond, Leave, Fail, Answer
  <2>2. Right(c)'
    BY <1>1, <2>1
  <2>3. \A d \in Clients \ {c} : Right(d)'
    <3>1. \A d \in Clients \ {c} : ask'[d] = ask[d] /\ page'[d] = page[d] /\ seen'[d] = seen[d]
      BY <1>1, <2>1
    <3> HIDE DEF Right
    <3> QED BY <3>1, <1>3
  <2>4. /\ ask' \in [Clients -> Asks \cup {NoAsk}] /\ page' \in [Clients -> SUBSET Jobs]
        /\ seen' = [d \in Clients |-> seen'[d]]
    BY <1>1, <2>1
  <2> QED BY <2>2, <2>3, <2>4 DEF AskInv
<1>6. CASE ListUserJobs(c)
  <2> DEFINE mine == MyRows(local[c].who)
             read == {j \in DOMAIN mine : InFilter(mine[j], ask[c].job)}
  <2>1. /\ pc[c] = "interact" /\ ask[c].op = "list"
        /\ page' = [page EXCEPT ![c] = read] /\ seen' = [seen EXCEPT ![c] = mine]
        /\ pc' = [pc EXCEPT ![c] = "count"] /\ local' = local /\ ask' = ask
    BY <1>6 DEF ListUserJobs
  <2>2. ask[c].job \in Filters /\ local[c].who \in UserIds
    <3>1. ask[c] \in Asks /\ local[c].who \in UserIds
      BY <2>1 DEF IInv, AskInv
    <3> QED BY <2>1, <3>1, AskFacts
  <2>3. read \subseteq Jobs
    BY MyRowsFacts
  <2>4. /\ page'[c] = read /\ seen'[c] = mine /\ pc'[c] = "count"
        /\ \A d \in Clients \ {c} : page'[d] = page[d] /\ seen'[d] = seen[d]
        /\ page' \in [Clients -> SUBSET Jobs] /\ seen' = [d \in Clients |-> seen'[d]]
    <3> HIDE DEF read, mine
    <3> QED BY <1>1, <2>1, <2>3
  <2>5. Listed(c)'
    BY <2>1, <2>2, <2>4 DEF Listed
  <2>6. Right(c)'
    BY <2>1, <2>2, <2>4, <2>5
  <2>7. \A d \in Clients \ {c} : Right(d)'
    <3> HIDE DEF Right
    <3> QED BY <1>3, <2>1, <2>4
  <2>8. ask' \in [Clients -> Asks \cup {NoAsk}]
    BY <1>1, <2>1
  <2> QED BY <2>4, <2>6, <2>7, <2>8 DEF AskInv
<1> QED BY <1>4, <1>5, <1>6 DEF JobStep

LEMMA Start == Init => IInv
<1> SUFFICES ASSUME Init PROVE IInv
  OBVIOUS
<1>1. AccountsInv
  BY AccountsStart DEF Init
<1>2. /\ rows = NoRows /\ ask = [c \in Clients |-> NoAsk] /\ page = [c \in Clients |-> {}]
      /\ seen = [c \in Clients |-> NoRows] /\ decided = [k \in Pairs |-> {}]
      /\ pc = [c \in Clients |-> "idle"]
  BY DEF Init, AccountsInit
<1>3. DOMAIN rows = {}
  BY <1>2 DEF NoRows
<1>4. RowsInv /\ TrackingWins
  BY <1>2, <1>3 DEF RowsInv, TrackingWins
<1>5. AskInv
  BY <1>2 DEF AskInv
<1> QED BY <1>1, <1>4, <1>5 DEF IInv

LEMMA Step == IInv /\ [Next]_vars => IInv'
<1> SUFFICES ASSUME IInv, [Next]_vars PROVE IInv'
  OBVIOUS
<1>1. CASE AccountsNext /\ UNCHANGED <<rows, ask, page, seen, decided>>
  <2>1. AccountsInv'
    BY <1>1, AccountsStep DEF IInv
  <2>2. /\ \A c \in Clients : pc'[c] \in {"interact", "count"} => pc'[c] = pc[c] /\ local'[c] = local[c]
        /\ \A u \in DOMAIN users : u \in DOMAIN users'
    BY <1>1, AccountsStepAside DEF IInv, AccountsInv, Quiet
  <2>3. RowsInv'
    BY <1>1, <2>2 DEF IInv, RowsInv
  <2>4. TrackingWins'
    BY <1>1 DEF IInv, TrackingWins
  <2>5. AskInv'
    BY <1>1, <2>2 DEF IInv, AskInv, Listed
  <2> QED BY <2>1, <2>3, <2>4, <2>5 DEF IInv
<1>2. ASSUME NEW u \in UserIds, Remove(u) PROVE IInv'
  <2>1. RemoveUser(u) /\ UNCHANGED <<ask, page, seen>>
    BY <1>2 DEF Remove
  <2>2. AccountsInv'
    BY <2>1, AccountsStep DEF IInv
  <2>3. pc' = pc /\ local' = local /\ DOMAIN users' = DOMAIN users \ {u}
    BY <2>1 DEF RemoveUser
  <2>4. /\ DOMAIN rows' = {x \in DOMAIN rows : x[1] # u}
        /\ \A k \in DOMAIN rows' : rows'[k] = rows[k]
        /\ \A k \in Pairs : decided'[k] = IF k[1] = u THEN {} ELSE decided[k]
        /\ decided' = [k \in Pairs |-> IF k[1] = u THEN {} ELSE decided[k]]
    BY <1>2 DEF Remove
  <2>5. RowsInv'
    <3>1. \A k \in DOMAIN rows : k[1] \in DOMAIN users /\ k[2] \in Jobs /\ k = <<k[1], k[2]>>
      BY DEF IInv, RowsInv
    <3>2. DOMAIN rows' \subseteq (DOMAIN users') \X Jobs
      BY <2>3, <2>4, <3>1
    <3>3. decided' \in [Pairs -> SUBSET Stages]
      BY <2>4 DEF IInv, RowsInv
    <3> QED BY <2>4, <3>2, <3>3 DEF IInv, RowsInv
  <2>6. TrackingWins'
    BY <2>4 DEF IInv, TrackingWins
  <2>7. AskInv'
    BY <2>1, <2>3 DEF IInv, AskInv, Listed
  <2> QED BY <2>2, <2>5, <2>6, <2>7 DEF IInv
<1>3. ASSUME NEW c \in Clients, JobStep(c) PROVE IInv'
  <2>1. AccountsInv' /\ users' = users
    BY <1>3, JobStepAccounts DEF IInv
  <2>2. AskInv'
    BY <1>3, JobStepAsks
  <2>3. RowsInv' /\ TrackingWins'
    <3>1. CASE Interact(c)
      BY <3>1, InteractKeepsRows
    <3>2. CASE Ask(c) \/ ListUserJobs(c) \/ Respond(c)
      <4>1. UNCHANGED <<rows, decided>>
        BY <3>2 DEF Ask, ListUserJobs, Respond
      <4> QED BY <2>1, <4>1 DEF IInv, RowsInv, TrackingWins
    <3> QED BY <1>3, <3>1, <3>2 DEF JobStep
  <2> QED BY <2>1, <2>2, <2>3 DEF IInv
<1>4. CASE UNCHANGED vars
  <2>1. UNCHANGED accountVars /\ UNCHANGED <<rows, ask, page, seen, decided>>
    BY <1>4 DEF vars
  <2>2. AccountsInv'
    BY <2>1, AccountsStutter DEF IInv
  <2>3. UNCHANGED <<users, pc, local>>
    BY <2>1 DEF accountVars, tables
  <2> QED BY <2>1, <2>2, <2>3 DEF IInv, RowsInv, AskInv, Listed, TrackingWins
<1> QED BY <1>1, <1>2, <1>3, <1>4 DEF Next, JobStep

-----------------------------------------------------------------------------
(* Theorems.                                                               *)

(* The invariant holds in every state, for any number of clients, emails,  *)
(* identities and jobs: what a sign-in has read and inserted is still true *)
(* of the tables (linkOrCreateUser's transaction), its id is paid for, and *)
(* what a list request shows is what it has read (ListMyJobs).             *)
THEOREM InvariantCorrect == Spec => []IInv
  BY Start, Step, PTL DEF Spec

(* Every state is well formed: rows, identities and keys refer to accounts *)
(* that are there (ON DELETE CASCADE), ids stay within their sequences.    *)
THEOREM TypeCorrect == Spec => []TypeOK
<1>1. IInv => TypeOK
  BY DEF IInv, AccountsInv, TypeInv, RowsInv, AskInv, TypeOK
<1> QED BY <1>1, InvariantCorrect, PTL

(* However registrations and first sign-ins race: one account per email,   *)
(* none that nobody can enter, and identities only on accounts whose email *)
(* their provider has verified (resolveOAuthUser, linkOrCreateUser).       *)
THEOREM AccountsStaySound == Spec => []AccountsSound
<1>1. IInv => AccountsSound
  BY DEF IInv, AccountsInv
<1> QED BY <1>1, InvariantCorrect, PTL

(* An identity opens one account for ever, whatever its email becomes      *)
(* (GetUserByIdentity comes before GetUserByEmail).                        *)
THEOREM SignInsResolve == Spec => []SignInResolves
<1>1. IInv => SignInResolves
  BY DEF IInv, AccountsInv
<1> QED BY <1>1, InvariantCorrect, PTL

(* The stage of a row is one its account has decided on, whichever of an   *)
(* application and a track request comes first (MarkJobApplied, TrackJob). *)
THEOREM TrackingStays == Spec => []TrackingWins
<1>1. IInv => TrackingWins
  BY DEF IInv
<1> QED BY <1>1, InvariantCorrect, PTL

(* A sign-in with a verified email that the database lets through ends in  *)
(* the account of its identity, or somebody else took the email meanwhile, *)
(* or an account was removed (the retry of resolveOAuthUser).              *)
THEOREM SignInsLoseOnlyToOthers == Spec => LosesOnlyToOthers
<1> DEFINE Fine == \A c \in Clients :
                     /\ local[c].identity # Nobody /\ local[c].email # NoEmail
                     /\ pc'[c] = "idle" /\ budget' = budget
                     => \/ c \in contested
                        \/ /\ local[c].identity \in DOMAIN identities'
                           /\ session'[c] = identities'[local[c].identity]
<1>1. IInv /\ [Next]_vars => [Fine]_accountVars
  <2> SUFFICES ASSUME IInv, Next PROVE Fine
    BY DEF vars
  <2>1. Quiet
    BY DEF IInv, AccountsInv, Quiet
  <2>2. ASSUME NEW c \in Clients PROVE EndsWell(c)
    <3>1. CASE AccountsNext \/ \E u \in UserIds : Remove(u)
      <4>1. AccountsNext \/ \E u \in UserIds : RemoveUser(u)
        BY <3>1 DEF Remove
      <4> QED BY <2>1, <4>1, AccountsEndWell
    <3>2. ASSUME NEW d \in Clients, JobStep(d) PROVE EndsWell(c)
      <4>1. pc'[c] = pc[c] \/ pc[c] \notin Dance
        BY <3>2, JobStepAccounts DEF IInv
      <4> QED BY <2>1, <4>1, OthersGoOn
    <3> QED BY <3>1, <3>2 DEF Next, JobStep
  <2> QED BY <2>2 DEF EndsWell
<1> QED BY <1>1, InvariantCorrect, PTL DEF Spec, LosesOnlyToOthers

(* Keys come and go by a session of their owner or with the account, never *)
(* by a key (RequireAuth on /me/api-keys, DeleteAPIKey's owner).           *)
THEOREM KeysNeedSessions == Spec => KeysBelongToSessions
<1> DEFINE Fine == \A k \in KeyIds : (k \in DOMAIN keys) # (k \in DOMAIN keys') =>
                     LET owner == IF k \in DOMAIN keys THEN keys[k].owner ELSE keys'[k].owner
                     IN \/ owner \notin DOMAIN users'
                        \/ \E c \in Clients : /\ pc[c] \in {"createKey", "revokeKey"}
                                              /\ local[c].via = "cookie" /\ local[c].who = owner
<1>1. IInv /\ [Next]_vars => [Fine]_accountVars
  <2> SUFFICES ASSUME IInv, Next PROVE Fine
    BY DEF vars
  <2>1. Quiet
    BY DEF IInv, AccountsInv, Quiet
  <2>2. ASSUME NEW k \in KeyIds PROVE KeptBySession(k)
    <3>1. CASE AccountsNext \/ \E u \in UserIds : Remove(u)
      <4>1. AccountsNext \/ \E u \in UserIds : RemoveUser(u)
        BY <3>1 DEF Remove
      <4> QED BY <2>1, <4>1, AccountsKeepKeys
    <3>2. ASSUME NEW d \in Clients, JobStep(d) PROVE KeptBySession(k)
      <4>1. keys' = keys
        BY <3>2, JobStepAccounts DEF IInv
      <4> QED BY <4>1, KeysStay
    <3> QED BY <3>1, <3>2 DEF Next, JobStep
  <2> QED BY <2>2 DEF KeptBySession
<1> QED BY <1>1, InvariantCorrect, PTL DEF Spec, KeysBelongToSessions

(* No interaction takes back another: apply marks, stages and notes stay,  *)
(* only a request of the account changes its rows, and only an unsave      *)
(* unsaves (the ON CONFLICT clauses of user_jobs.sql).                     *)
THEOREM InteractionsAddUp == Spec => NothingUndone
<1> DEFINE Kept(k) ==
             k[1] \in DOMAIN users' =>
               /\ k \in DOMAIN rows'
               /\ rows[k].applied => rows'[k].applied
               /\ rows[k].stage # None => rows'[k].stage # None
               /\ rows[k].notes # None => rows'[k].notes # None
               /\ rows'[k] # rows[k] =>
                    \E c \in Clients : Writing(c, k) /\ pc'[c] = "idle"
               /\ rows[k].saved /\ ~rows'[k].saved =>
                    \E c \in Clients : Writing(c, k) /\ ask[c].op = "unsave"
           Fine == \A k \in DOMAIN rows : Kept(k)
<1>1. IInv /\ [Next]_vars => [Fine]_vars
  <2> SUFFICES ASSUME IInv, Next, NEW k \in DOMAIN rows PROVE Kept(k)
    OBVIOUS
  <2>1. ASSUME k \in DOMAIN rows', rows'[k] = rows[k] PROVE Kept(k)
    BY <2>1
  <2>2. CASE AccountsNext /\ UNCHANGED rows
    BY <2>1, <2>2
  <2>3. ASSUME NEW u \in UserIds, Remove(u) PROVE Kept(k)
    <3>1. /\ DOMAIN users' = DOMAIN users \ {u}
          /\ rows' = [q \in {x \in DOMAIN rows : x[1] # u} |-> rows[q]]
      BY <2>3 DEF Remove, RemoveUser
    <3>2. CASE k[1] = u
      BY <3>1, <3>2
    <3>3. CASE k[1] # u
      <4>1. k \in DOMAIN rows' /\ rows'[k] = rows[k]
        BY <3>1, <3>3
      <4> QED BY <2>1, <4>1
    <3> QED BY <3>2, <3>3
  <2>4. ASSUME NEW c \in Clients, Interact(c) PROVE Kept(k)
    <3> DEFINE n == Updated(Existing(c), ask[c])
    <3>1. /\ k \in DOMAIN rows' /\ (k # Key(c) => rows'[k] = rows[k])
          /\ rows' = rows \/ rows'[Key(c)] = n
      BY <2>4, InteractRows
    <3>2. CASE rows'[k] = rows[k]
      BY <2>1, <3>1, <3>2
    <3>3. CASE rows'[k] # rows[k]
      <4>1. k = Key(c) /\ rows'[k] = n
        BY <3>1, <3>3
      <4>2. /\ k[1] = local[c].who /\ k[2] = ask[c].job /\ ask[c] \in Asks /\ ask[c].op # "list"
            /\ Existing(c) = rows[k] /\ rows[k] \in Row
        BY <2>4, <4>1, InteractFacts
      <4>3. /\ rows[k].applied => n.applied
            /\ rows[k].stage # None => n.stage # None
            /\ rows[k].notes # None => n.notes # None
            /\ rows[k].saved /\ ~n.saved => ask[c].op = "unsave"
        BY <4>2, UpdatedFacts
      <4>4. Writing(c, k) /\ pc'[c] = "idle"
        <5>1. pc[c] = "interact" /\ pc' = [pc EXCEPT ![c] = "idle"]
          BY <2>4 DEF Interact, Leave, Fail, Answer
        <5>2. pc \in [Clients -> Steps]
          BY DEF IInv, AccountsInv, TypeInv, AccountsTypeOK
        <5> QED BY <4>2, <5>1, <5>2 DEF Writing
      <4> HIDE DEF n
      <4> QED BY <3>1, <4>1, <4>3, <4>4
    <3> QED BY <3>2, <3>3
  <2>5. ASSUME NEW c \in Clients, Ask(c) \/ ListUserJobs(c) \/ Respond(c) PROVE Kept(k)
    <3>1. rows' = rows
      BY <2>5 DEF Ask, ListUserJobs, Respond
    <3> QED BY <2>1, <3>1
  <2> HIDE DEF Kept
  <2> QED BY <2>2, <2>3, <2>4, <2>5 DEF Next
<1> QED BY <1>1, InvariantCorrect, PTL DEF Spec, NothingUndone

(* The page and the total of a tab agree unless an interaction came in     *)
(* between (the WHERE clause of ListUserJobs, the FILTERs of               *)
(* CountUserJobs).                                                         *)
THEOREM PagesMatchTotals == Spec => PageMatchesTotals
<1> DEFINE Fine == \A c \in Clients :
                     pc[c] = "count" /\ pc'[c] = "idle" /\ seen[c] = MyRows(local[c].who) =>
                       Cardinality(page[c]) = Total(c)
<1>1. IInv /\ [Next]_vars => [Fine]_vars
  <2> SUFFICES ASSUME IInv, NEW c \in Clients, pc[c] = "count", seen[c] = MyRows(local[c].who)
               PROVE  Cardinality(page[c]) = Total(c)
    OBVIOUS
  <2> DEFINE mine == MyRows(local[c].who)
             f == ask[c].job
  <2>1. f \in Filters /\ page[c] = {j \in DOMAIN mine : InFilter(mine[j], f)}
    BY DEF IInv, AskInv, Listed
  <2>2. Total(c) = CountUserJobs(mine)[f]
    BY DEF Total
  <2> HIDE DEF mine, f
  <2>3. CASE f = "all"
    <3>1. page[c] = DOMAIN mine
      BY <2>1, <2>3 DEF InFilter
    <3> QED BY <2>2, <2>3, <3>1 DEF CountUserJobs
  <2>4. CASE f = "viewed"
    <3>1. page[c] = {j \in DOMAIN mine : ~(mine[j].saved \/ mine[j].applied)}
      BY <2>1, <2>4 DEF InFilter
    <3> QED BY <2>2, <2>4, <3>1 DEF CountUserJobs
  <2>5. CASE f = "saved"
    <3>1. page[c] = {j \in DOMAIN mine : mine[j].saved}
      BY <2>1, <2>5 DEF InFilter
    <3> QED BY <2>2, <2>5, <3>1 DEF CountUserJobs
  <2>6. CASE f = "applied"
    <3>1. page[c] = {j \in DOMAIN mine : mine[j].applied}
      BY <2>1, <2>6 DEF InFilter
    <3> QED BY <2>2, <2>6, <3>1 DEF CountUserJobs
  <2> QED BY <2>1, <2>3, <2>4, <2>5, <2>6 DEF Filters
<1> QED BY <1>1, InvariantCorrect, PTL DEF Spec, PageMatchesTotals

=============================================================================
