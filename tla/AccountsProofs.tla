--------------------------- MODULE AccountsProofs ---------------------------
(***************************************************************************)
(* Accounts, for any number of emails, persons, requests and seeds.        *)
(***************************************************************************)
EXTENDS Accounts, TLAPS

-----------------------------------------------------------------------------
(* The inductive invariant *)

\* Only where the deployment puts an admin is there ever one.
OnlyAdminRanks == \A e \in Emails : user[e].role = "admin" => e \in AdminEmails

\* The role a request has read is one its account does not lose; who waits for
\* the token of a new account owns it.
SessionOK(c) ==
  LET s == session[c]
  IN /\ s.pc # "idle" => s.email \in Emails
     /\ s.pc \in {"sign", "login"} =>
          /\ s.role \in Roles
          /\ s.role = "admin" => user[s.email].role = "admin"
     /\ s.pc \in {"create", "sign"} => s.person \in Persons
     /\ s.pc = "sign" => /\ user[s.email].pii = s.person
                         /\ user[s.email].password = s.person \/ s.email = AdminEmail

\* What seedAdmin has found is still there.
DeployOK == deploy \in {"reset", "promote"} => Exists(AdminEmail)

AccountsInv ==
  /\ AccountsTypeOK
  /\ OnlyAdminRanks
  /\ \A c \in Clients : SessionOK(c)
  /\ DeployOK
  /\ RegistrantOwnsAccount
  /\ DeployedHasAdmin
  /\ TokensKeepRank

-----------------------------------------------------------------------------
(* What a step does to the table *)

\* Two rows in a table: one that was there keeps whose data it holds, the
\* password of any but the admin, and the rank of an admin.
Keeps(old, new, e) ==
  /\ new # NoUser
  /\ new.pii = old.pii
  /\ new.password = old.password \/ e = AdminEmail
  /\ old.role = "admin" => new.role = "admin"

LEMMA RowTypes ==
  /\ NoUser \notin UserRow
  /\ \A r \in UserRow, x \in Roles, o \in Owners :
       /\ [r EXCEPT !.role = x] \in UserRow
       /\ [r EXCEPT !.role = x, !.password = o] \in UserRow
       /\ [role |-> x, password |-> o, pii |-> o] \in UserRow
  /\ Operator \in Owners /\ Persons \subseteq Owners
  /\ "admin" \in Roles /\ "customer" \in Roles /\ "none" \notin Roles
BY DEF NoUser, UserRow, Roles, Owners

\* The user that seed.js is about to upsert.
LEMMA SeedFacts ==
  ASSUME AccountsTypeOK, seeding # 0
  PROVE  /\ SeedUsers[seeding].email \in Emails /\ SeedUsers[seeding].role \in Roles
         /\ SeedUsers[seeding].email \in AdminEmails <=> SeedUsers[seeding].role = "admin"
<1> DEFINE S == [email : Emails, role : Roles]
<1>1. SeedUsers \in Seq(S)
  BY AccountsAssumption
<1>2. Len(SeedUsers) \in Nat /\ DOMAIN SeedUsers = 1..Len(SeedUsers)
  BY <1>1
<1>3. seeding \in DOMAIN SeedUsers
  BY <1>2 DEF AccountsTypeOK
<1> HIDE DEF S
<1>4. SeedUsers[seeding] \in S
  BY <1>1, <1>2, <1>3
<1> USE DEF S
<1>5. QED BY <1>3, <1>4, AccountsAssumption DEF AdminEmails

\* No step takes an account away or gives it to somebody else.
LEMMA RowsKept ==
  ASSUME AccountsInv, [AccountsNext]_accountVars
  PROVE  /\ user' \in [Emails -> UserRow \cup {NoUser}]
         /\ \A e \in Emails : Exists(e) => Keeps(user[e], user'[e], e)
         /\ \A e \in Emails : user'[e].role = "admin" => e \in AdminEmails
<1>0. /\ user \in [Emails -> UserRow \cup {NoUser}]
      /\ AdminEmail \in Emails /\ AdminEmail \in AdminEmails
      /\ OnlyAdminRanks /\ DeployOK
      /\ \A c \in Clients : SessionOK(c)
  BY AccountsAssumption DEF AccountsInv, AccountsTypeOK, AdminEmails
<1> DEFINE Goal == /\ user' \in [Emails -> UserRow \cup {NoUser}]
                   /\ \A e \in Emails : Exists(e) => Keeps(user[e], user'[e], e)
                   /\ \A e \in Emails : user'[e].role = "admin" => e \in AdminEmails
<1>1. CASE UNCHANGED user
  BY <1>0, <1>1 DEF Keeps, Exists, OnlyAdminRanks
<1>2. ASSUME NEW c \in Clients, CreateUser(c), user' # user PROVE Goal
  <2> DEFINE e == session[c].email
             row == [role |-> "customer", password |-> session[c].person,
                     pii |-> session[c].person]
  <2>1. e \in Emails /\ session[c].person \in Persons
    BY <1>0, <1>2 DEF CreateUser, SessionOK
  <2>2. ~Exists(e) /\ user' = [user EXCEPT ![e] = row]
    BY <1>2 DEF CreateUser, InsertRefused
  <2>3. row \in UserRow
    BY <2>1, RowTypes DEF UserRow
  <2>4. \A f \in Emails : Exists(f) => user'[f] = user[f]
    BY <1>0, <2>2
  <2>5. \A f \in Emails : user'[f] = user[f] \/ user'[f].role = "customer"
    BY <1>0, <2>1, <2>2
  <2>6. QED BY <1>0, <2>1, <2>2, <2>3, <2>4, <2>5 DEF Keeps, Exists, OnlyAdminRanks
<1>3. ASSUME InsertAdmin, user' # user PROVE Goal
  <2> DEFINE row == [role |-> "admin", password |-> Operator, pii |-> Operator]
  <2>1. ~Exists(AdminEmail) /\ user' = [user EXCEPT ![AdminEmail] = row]
    BY <1>3 DEF InsertAdmin, InsertRefused
  <2>2. row \in UserRow
    BY RowTypes DEF UserRow
  <2>3. \A f \in Emails : f # AdminEmail => user'[f] = user[f]
    BY <1>0, <2>1
  <2>4. QED BY <1>0, <2>1, <2>2, <2>3 DEF Keeps, Exists, OnlyAdminRanks
<1>4. ASSUME UpdateAdmin PROVE Goal
  <2> DEFINE row == user[AdminEmail]
             new == IF deploy = "reset" THEN WithPasswordReset(row)
                                        ELSE [row EXCEPT !.role = "admin"]
  <2>1. row \in UserRow /\ row # NoUser
    BY <1>0, <1>4, RowTypes DEF UpdateAdmin, DeployOK, Exists
  <2>2. user' = [user EXCEPT ![AdminEmail] = new]
    BY <1>4 DEF UpdateAdmin
  <2>3. new \in UserRow /\ new.pii = row.pii /\ new.role = "admin"
    BY <2>1, RowTypes DEF WithPasswordReset, UserRow
  <2>4. \A f \in Emails : f # AdminEmail => user'[f] = user[f]
    BY <1>0, <2>2
  <2>5. user'[AdminEmail] = new
    BY <1>0, <2>2
  <2>6. user' \in [Emails -> UserRow \cup {NoUser}]
    BY <1>0, <2>2, <2>3
  <2> HIDE DEF new, row
  <2>7. Keeps(user[AdminEmail], user'[AdminEmail], AdminEmail)
    BY <2>3, <2>5, RowTypes DEF Keeps, row
  <2>8. QED BY <1>0, <2>4, <2>6, <2>7 DEF Keeps, Exists, OnlyAdminRanks
<1>5. ASSUME UpsertUser PROVE Goal
  <2> DEFINE e == SeedUsers[seeding].email
             role == SeedUsers[seeding].role
             new == IF Exists(e) THEN [user[e] EXCEPT !.role = role]
                    ELSE [role |-> role, password |-> Operator, pii |-> Operator]
  <2>1. e \in Emails /\ role \in Roles /\ (e \in AdminEmails <=> role = "admin")
    BY <1>5, SeedFacts DEF UpsertUser, AccountsInv
  <2>2. user' = [user EXCEPT ![e] = new]
    BY <1>5 DEF UpsertUser
  <2>3. /\ new \in UserRow /\ new.role = role
        /\ Exists(e) => new.pii = user[e].pii /\ new.password = user[e].password
    BY <1>0, <2>1, RowTypes DEF UserRow, Exists
  <2>4. \A f \in Emails : f # e => user'[f] = user[f]
    BY <1>0, <2>2
  <2>5. user'[e] = new /\ user' \in [Emails -> UserRow \cup {NoUser}]
    BY <1>0, <2>1, <2>2, <2>3
  <2> HIDE DEF new, e, role
  <2>6. Exists(e) => Keeps(user[e], user'[e], e)
    BY <1>0, <2>1, <2>3, <2>5, RowTypes DEF Keeps, OnlyAdminRanks
  <2>7. QED BY <1>0, <2>1, <2>3, <2>4, <2>5, <2>6 DEF Keeps, Exists, OnlyAdminRanks
<1>6. QED
  BY <1>1, <1>2, <1>3, <1>4, <1>5
     DEF AccountsNext, accountVars, StartRegistration, StartLogin, SignJwt, RequestFails,
         StartSeedAdmin, SeedAdminFails, StartSeed, SeedFails

-----------------------------------------------------------------------------
(* The invariant is kept *)

LEMMA TypesKept ==
  ASSUME AccountsInv, [AccountsNext]_accountVars
  PROVE  AccountsTypeOK'
<1>0. AccountsTypeOK /\ (\A c \in Clients : SessionOK(c)) /\ AdminEmail \in Emails
  BY AccountsAssumption DEF AccountsInv
<1>1. user' \in [Emails -> UserRow \cup {NoUser}]
  BY RowsKept
<1>2. session' \in [Clients -> SessionState]
  <2>0. session \in [Clients -> SessionState] /\ user \in [Emails -> UserRow \cup {NoUser}]
    BY <1>0 DEF AccountsTypeOK
  <2>1. ASSUME NEW c \in Clients, NEW e \in Emails, NEW p \in Owners,
               StartRegistration(c, e, p) \/ StartLogin(c, e, p)
        PROVE  session' \in [Clients -> SessionState]
    <3>1. CASE StartRegistration(c, e, p)
      <4> DEFINE s == [pc |-> "create", email |-> e, person |-> p, role |-> "none"]
      <4>1. s \in SessionState
        BY DEF SessionState
      <4>2. session' = [session EXCEPT ![c] = s]
        BY <3>1 DEF StartRegistration
      <4> HIDE DEF s
      <4>3. QED BY <2>0, <4>1, <4>2
    <3>2. CASE StartLogin(c, e, p)
      <4> DEFINE s == [pc |-> "login", email |-> e, person |-> p, role |-> user[e].role]
      <4>1. user[e] \in UserRow
        BY <2>0, <3>2 DEF StartLogin, Exists
      <4>2. s \in SessionState
        BY <4>1 DEF SessionState, UserRow
      <4>3. session' = [session EXCEPT ![c] = s]
        BY <3>2 DEF StartLogin
      <4> HIDE DEF s
      <4>4. QED BY <2>0, <4>2, <4>3
    <3>3. QED BY <2>1, <3>1, <3>2
  <2>2. ASSUME NEW c \in Clients, CreateUser(c) \/ SignJwt(c) \/ RequestFails(c)
        PROVE  session' \in [Clients -> SessionState]
    <3> DEFINE s == [session[c] EXCEPT !.pc = "sign", !.role = "customer"]
    <3>1. NoSession \in SessionState
      BY DEF NoSession, SessionState, Owners
    <3>2. s \in SessionState
      BY <2>0, RowTypes DEF SessionState
    <3>3. \/ session' = [session EXCEPT ![c] = NoSession]
          \/ session' = [session EXCEPT ![c] = s]
      BY <2>0, <2>2 DEF CreateUser, SignJwt, RequestFails, SessionState
    <3> HIDE DEF s
    <3>4. QED BY <2>0, <3>1, <3>2, <3>3
  <2>3. CASE UNCHANGED session
    BY <1>0, <2>3 DEF AccountsTypeOK
  <2>4. QED
    BY <2>1, <2>2, <2>3, RowTypes
       DEF AccountsNext, accountVars, StartSeedAdmin, InsertAdmin, UpdateAdmin, SeedAdminFails,
           StartSeed, UpsertUser, SeedFails
<1>3. tokens' \subseteq [email : Emails, role : Roles] /\ registered' \subseteq Emails \X Persons
  <2>1. ASSUME NEW c \in Clients, SignJwt(c)
        PROVE  /\ tokens' \subseteq [email : Emails, role : Roles]
               /\ registered' \subseteq Emails \X Persons
    <3>1. /\ session[c].email \in Emails /\ session[c].role \in Roles
          /\ session[c].pc = "sign" => session[c].person \in Persons
      BY <1>0, <2>1 DEF SignJwt, SessionOK
    <3>2. QED BY <1>0, <2>1, <3>1 DEF SignJwt, AccountsTypeOK
  <2>2. CASE UNCHANGED <<tokens, registered>>
    BY <1>0, <2>2 DEF AccountsTypeOK
  <2>3. QED
    BY <2>1, <2>2
       DEF AccountsNext, accountVars, StartRegistration, StartLogin, CreateUser, RequestFails,
           StartSeedAdmin, InsertAdmin, UpdateAdmin, SeedAdminFails, StartSeed, UpsertUser,
           SeedFails
<1>4. deploy' \in DeployState
  BY <1>0 DEF AccountsTypeOK, DeployState, AccountsNext, accountVars, StartRegistration,
       StartLogin, CreateUser, SignJwt, RequestFails, StartSeedAdmin, InsertAdmin, UpdateAdmin,
       SeedAdminFails, StartSeed, UpsertUser, SeedFails
<1>5. seeding' \in 0..Len(SeedUsers)
  <2>1. Len(SeedUsers) \in Nat /\ (SeedUsers # <<>> => Len(SeedUsers) > 0)
    BY AccountsAssumption
  <2>2. CASE StartSeed \/ UpsertUser \/ SeedFails
    BY <1>0, <2>1, <2>2 DEF AccountsTypeOK, StartSeed, UpsertUser, SeedFails
  <2>3. CASE UNCHANGED seeding
    BY <1>0, <2>3 DEF AccountsTypeOK
  <2>4. QED
    BY <2>2, <2>3
       DEF AccountsNext, accountVars, StartRegistration, StartLogin, CreateUser, SignJwt,
           RequestFails, StartSeedAdmin, InsertAdmin, UpdateAdmin, SeedAdminFails
<1>6. QED BY <1>1, <1>2, <1>3, <1>4, <1>5 DEF AccountsTypeOK

\* The rows a request in flight and a registrant rely on are there before and after.
LEMMA SessionsKept ==
  ASSUME AccountsInv, [AccountsNext]_accountVars, NEW d \in Clients
  PROVE  SessionOK(d)'
<1>0. /\ session \in [Clients -> SessionState] /\ user \in [Emails -> UserRow \cup {NoUser}]
      /\ SessionOK(d) /\ NoUser.pii = Operator /\ NoUser.role = "none" /\ Operator \notin Persons
  BY AccountsAssumption DEF AccountsInv, AccountsTypeOK, NoUser
<1>1. \A e \in Emails : Exists(e) => Keeps(user[e], user'[e], e)
  BY RowsKept
<1>2. CASE session'[d] = session[d]
  <2>1. CASE session[d].pc \in {"sign", "login"}
    <3> DEFINE e == session[d].email
    <3>1. e \in Emails /\ session[d].role \in Roles
      BY <1>0, <2>1 DEF SessionOK
    <3>2. session[d].pc = "sign" \/ session[d].role = "admin" => Exists(e)
      BY <1>0, <2>1, <3>1 DEF SessionOK, Exists
    <3>3. session[d].role = "admin" => user'[e].role = "admin"
      BY <1>0, <1>1, <2>1, <3>1, <3>2 DEF SessionOK, Keeps
    <3>4. session[d].pc = "sign" => /\ user'[e].pii = session[d].person
                                    /\ user'[e].password = session[d].person \/ e = AdminEmail
      BY <1>0, <1>1, <2>1, <3>1, <3>2 DEF SessionOK, Keeps
    <3>5. QED BY <1>0, <1>2, <2>1, <3>1, <3>3, <3>4 DEF SessionOK
  <2>2. CASE session[d].pc \notin {"sign", "login"}
    BY <1>0, <1>2, <2>2 DEF SessionOK
  <2>3. QED BY <2>1, <2>2
<1>3. CASE session'[d] = NoSession
  BY <1>3 DEF SessionOK, NoSession
<1>4. ASSUME NEW e \in Emails, NEW p \in Persons, StartRegistration(d, e, p)
      PROVE  SessionOK(d)'
  <2>1. session'[d] = [pc |-> "create", email |-> e, person |-> p, role |-> "none"]
    BY <1>0, <1>4 DEF StartRegistration
  <2>2. QED BY <2>1 DEF SessionOK
<1>5. ASSUME NEW e \in Emails, NEW p \in Owners, StartLogin(d, e, p)
      PROVE  SessionOK(d)'
  <2>1. session'[d] = [pc |-> "login", email |-> e, person |-> p, role |-> user[e].role]
    BY <1>0, <1>5 DEF StartLogin
  <2>2. user[e] \in UserRow /\ user' = user
    BY <1>0, <1>5 DEF StartLogin, Exists
  <2>3. user[e].role \in Roles
    BY <2>2 DEF UserRow
  <2>4. QED BY <2>1, <2>2, <2>3 DEF SessionOK
<1>6. ASSUME CreateUser(d), session'[d] # NoSession PROVE SessionOK(d)'
  <2> DEFINE e == session[d].email
             p == session[d].person
  <2>1. e \in Emails /\ p \in Persons
    BY <1>0, <1>6 DEF CreateUser, SessionOK
  <2>2. user'[e] = [role |-> "customer", password |-> p, pii |-> p]
    BY <1>0, <1>6, <2>1 DEF CreateUser
  <2>3. session'[d] = [session[d] EXCEPT !.pc = "sign", !.role = "customer"]
    BY <1>0, <1>6 DEF CreateUser, SessionState
  <2>4. /\ session'[d].pc = "sign" /\ session'[d].role = "customer"
        /\ session'[d].email = e /\ session'[d].person = p
    BY <1>0, <2>3 DEF SessionState
  <2> HIDE DEF e, p
  <2>5. user'[e].pii = p /\ user'[e].password = p /\ "customer" # "admin"
    BY <2>2
  <2>6. QED BY <2>1, <2>4, <2>5, RowTypes DEF SessionOK
<1>7. QED
  <2>1. ASSUME NEW c \in Clients, c # d,
               \/ \E e \in Emails, p \in Persons : StartRegistration(c, e, p)
               \/ \E e \in Emails, p \in Owners : StartLogin(c, e, p)
               \/ CreateUser(c) \/ SignJwt(c) \/ RequestFails(c)
        PROVE  session'[d] = session[d]
    BY <1>0, <2>1 DEF StartRegistration, StartLogin, CreateUser, SignJwt, RequestFails
  <2>2. SignJwt(d) \/ RequestFails(d) => session'[d] = NoSession
    BY <1>0 DEF SignJwt, RequestFails
  <2>3. \/ \E c \in Clients : \/ \E e \in Emails, p \in Persons : StartRegistration(c, e, p)
                              \/ \E e \in Emails, p \in Owners : StartLogin(c, e, p)
                              \/ CreateUser(c) \/ SignJwt(c) \/ RequestFails(c)
        \/ session' = session
    BY DEF AccountsNext, accountVars, StartSeedAdmin, InsertAdmin, UpdateAdmin, SeedAdminFails,
         StartSeed, UpsertUser, SeedFails
  <2>4. CASE session'[d] = session[d] \/ session'[d] = NoSession
    BY <1>2, <1>3, <2>4
  <2>5. CASE session'[d] # session[d] /\ session'[d] # NoSession
    BY <1>4, <1>5, <1>6, <2>1, <2>2, <2>3, <2>5
  <2>6. QED BY <2>4, <2>5

\* What seedAdmin has found, and the admin it leaves.
LEMMA DeployKept ==
  ASSUME AccountsInv, [AccountsNext]_accountVars
  PROVE  DeployOK' /\ DeployedHasAdmin'
<1>0. /\ user \in [Emails -> UserRow \cup {NoUser}] /\ AdminEmail \in Emails
      /\ DeployOK /\ DeployedHasAdmin /\ NoUser.role = "none"
  BY AccountsAssumption DEF AccountsInv, AccountsTypeOK, NoUser
<1>1. Exists(AdminEmail) => Keeps(user[AdminEmail], user'[AdminEmail], AdminEmail)
  BY <1>0, RowsKept
<1>2. user[AdminEmail].role = "admin" => Exists(AdminEmail)
  BY <1>0 DEF Exists
<1>3. CASE deploy' = deploy
  BY <1>0, <1>1, <1>2, <1>3 DEF DeployOK, DeployedHasAdmin, Exists, Keeps
<1>4. ASSUME NEW resetPassword \in BOOLEAN, StartSeedAdmin(resetPassword)
      PROVE  DeployOK' /\ DeployedHasAdmin'
  BY <1>0, <1>4 DEF StartSeedAdmin, DeployOK, DeployedHasAdmin, Exists
<1>5. ASSUME InsertAdmin PROVE DeployOK' /\ DeployedHasAdmin'
  BY <1>0, <1>5 DEF InsertAdmin, DeployOK, DeployedHasAdmin
<1>6. ASSUME UpdateAdmin PROVE DeployOK' /\ DeployedHasAdmin'
  <2>1. user[AdminEmail] \in UserRow
    BY <1>0, <1>6 DEF UpdateAdmin, DeployOK, Exists
  <2>2. user'[AdminEmail].role = "admin"
    BY <1>0, <1>6, <2>1 DEF UpdateAdmin, WithPasswordReset, UserRow
  <2>3. QED BY <1>6, <2>2 DEF UpdateAdmin, DeployOK, DeployedHasAdmin
<1>7. CASE SeedAdminFails
  BY <1>7 DEF SeedAdminFails, DeployOK, DeployedHasAdmin
<1>8. QED
  BY <1>3, <1>4, <1>5, <1>6, <1>7
     DEF AccountsNext, accountVars, StartRegistration, StartLogin, CreateUser, SignJwt,
         RequestFails, StartSeed, UpsertUser, SeedFails

\* What was handed out: the accounts of the registered and the rank of the tokens.
LEMMA AnswersKept ==
  ASSUME AccountsInv, [AccountsNext]_accountVars
  PROVE  RegistrantOwnsAccount' /\ TokensKeepRank'
<1>0. /\ user \in [Emails -> UserRow \cup {NoUser}] /\ (\A c \in Clients : SessionOK(c))
      /\ tokens \subseteq [email : Emails, role : Roles]
      /\ RegistrantOwnsAccount /\ TokensKeepRank
      /\ NoUser.pii \notin Persons /\ NoUser.role = "none"
  BY AccountsAssumption DEF AccountsInv, AccountsTypeOK, NoUser
<1>1. \A e \in Emails : Exists(e) => Keeps(user[e], user'[e], e)
  BY RowsKept
<1>2. \A e \in Emails, p \in Persons : <<e, p>> \in registered =>
        /\ user'[e].pii = p
        /\ user'[e].password = p \/ e = AdminEmail
  BY <1>0, <1>1 DEF RegistrantOwnsAccount, Exists, Keeps
<1>3. \A t \in tokens : t.role = "admin" => user'[t.email].role = "admin"
  BY <1>0, <1>1 DEF TokensKeepRank, Exists, Keeps
<1>4. ASSUME NEW c \in Clients, SignJwt(c)
      PROVE  RegistrantOwnsAccount' /\ TokensKeepRank'
  <2> DEFINE t == [email |-> session[c].email, role |-> session[c].role]
  <2>1. user' = user /\ tokens' = tokens \cup {t}
    BY <1>4 DEF SignJwt
  <2>2. t.role = "admin" => user'[t.email].role = "admin"
    BY <1>0, <1>4, <2>1 DEF SignJwt, SessionOK
  <2>3. TokensKeepRank'
    BY <1>3, <2>1, <2>2 DEF TokensKeepRank
  <2>4. /\ session[c].pc = "sign" => registered' = registered \cup
                                      {<<session[c].email, session[c].person>>}
        /\ session[c].pc # "sign" => registered' = registered
    BY <1>4 DEF SignJwt
  <2>5. session[c].pc = "sign" =>
          /\ user'[session[c].email].pii = session[c].person
          /\ user'[session[c].email].password = session[c].person
               \/ session[c].email = AdminEmail
    BY <1>0, <2>1 DEF SessionOK
  <2>6. RegistrantOwnsAccount'
    BY <1>2, <2>4, <2>5 DEF RegistrantOwnsAccount
  <2>7. QED BY <2>3, <2>6
<1>5. CASE UNCHANGED <<tokens, registered>>
  BY <1>2, <1>3, <1>5 DEF RegistrantOwnsAccount, TokensKeepRank
<1>6. QED
  BY <1>4, <1>5
     DEF AccountsNext, accountVars, StartRegistration, StartLogin, CreateUser, RequestFails,
         StartSeedAdmin, InsertAdmin, UpdateAdmin, SeedAdminFails, StartSeed, UpsertUser,
         SeedFails

-----------------------------------------------------------------------------
(* The theorems *)

\* The inductive invariant, whatever the requests and the seeds do and in
\* whichever order.
THEOREM AccountsInvariant == AccountsSpec => []AccountsInv
<1>1. AccountsInit => AccountsInv
  <2> SUFFICES ASSUME AccountsInit PROVE AccountsInv
    OBVIOUS
  <2>1. \A e \in Emails : user[e] = NoUser
    BY DEF AccountsInit
  <2>2. AccountsTypeOK
    <3>1. NoSession \in SessionState
      BY DEF NoSession, SessionState, Owners
    <3>2. 0 \in 0..Len(SeedUsers)
      BY AccountsAssumption
    <3>3. QED BY <3>1, <3>2 DEF AccountsInit, AccountsTypeOK, DeployState
  <2>3. OnlyAdminRanks
    BY <2>1 DEF OnlyAdminRanks, NoUser
  <2>4. \A c \in Clients : SessionOK(c)
    BY DEF AccountsInit, SessionOK, NoSession
  <2>5. DeployOK /\ RegistrantOwnsAccount /\ DeployedHasAdmin /\ TokensKeepRank
    BY DEF AccountsInit, DeployOK, RegistrantOwnsAccount, DeployedHasAdmin, TokensKeepRank
  <2>6. QED BY <2>2, <2>3, <2>4, <2>5 DEF AccountsInv
<1>2. AccountsInv /\ [AccountsNext]_accountVars => AccountsInv'
  BY RowsKept, TypesKept, SessionsKept, DeployKept, AnswersKept
     DEF AccountsInv, OnlyAdminRanks
<1>3. QED BY <1>1, <1>2, PTL DEF AccountsSpec

\* Whoever register answered 201 owns the account: its personal data is his, and
\* his password opens it unless seedAdmin has reset the admin's.
THEOREM RegistrantsKeepAccounts == AccountsSpec => []RegistrantOwnsAccount
<1>1. AccountsInv => RegistrantOwnsAccount
  BY DEF AccountsInv
<1>2. QED BY <1>1, AccountsInvariant, PTL

\* A seedAdmin.js that has ended well leaves an admin.
THEOREM AdminIsDeployed == AccountsSpec => []DeployedHasAdmin
<1>1. AccountsInv => DeployedHasAdmin
  BY DEF AccountsInv
<1>2. QED BY <1>1, AccountsInvariant, PTL

\* The admin role in a JWT is the account's own.
THEOREM TokensKeepTheirRank == AccountsSpec => []TokensKeepRank
<1>1. AccountsInv => TokensKeepRank
  BY DEF AccountsInv
<1>2. QED BY <1>1, AccountsInvariant, PTL
=============================================================================
