------------------------------ MODULE Accounts ------------------------------
(***************************************************************************)
(* The users table and its three writers: register (src/src/auth/          *)
(* authController.js, src/src/users/userService.js), the deployment's      *)
(* seedAdmin.js, and seed.js, which fills a database for development.  The *)
(* last two are processes of their own beside the server.                  *)
(*                                                                         *)
(* Of passwords and personal data the model keeps whose they are.  Names   *)
(* are written to stand beside those of Checkout.                          *)
(***************************************************************************)
EXTENDS Naturals, Sequences

CONSTANTS
  Emails,
  AdminEmail,   \* ADMIN_EMAIL as seedAdmin.js uses it: trimmed and in lower case
  SeedUsers,    \* USERS of seed.js, in their order: email and role
  Persons,      \* who registers and logs in
  Operator,     \* whoever set ADMIN_PASSWORD and the password of seed.js
  Clients,      \* requests that can be in flight at once
  NoEmail

Roles == {"customer", "merchant", "admin"}

\* Where an admin is put.  seed.js takes ADMIN_EMAIL as it stands, so that its
\* admin and that of seedAdmin.js are two accounts when it is not in lower case.
AdminEmails ==
  {AdminEmail} \cup
  {SeedUsers[i].email : i \in {j \in DOMAIN SeedUsers : SeedUsers[j].role = "admin"}}

\* The other two users of seed.js have addresses of their own.
ASSUME AccountsAssumption ==
  /\ AdminEmail \in Emails /\ NoEmail \notin Emails /\ Operator \notin Persons
  /\ SeedUsers \in Seq([email : Emails, role : Roles])
  /\ \A i \in DOMAIN SeedUsers :
       SeedUsers[i].email \in AdminEmails => SeedUsers[i].role = "admin"

VARIABLES
  user,         \* table users, by its unique email
  session,      \* requests to register or to log in
  tokens,       \* the JWTs handed out: the email and the role they carry
  registered,   \* who was answered that his account is created
  deploy,       \* seedAdmin.js: where it is
  seeding       \* seed.js: the next user it upserts, 0 when it is not running

accountVars == <<user, session, tokens, registered, deploy, seeding>>

-----------------------------------------------------------------------------
Owners == Persons \cup {Operator}
UserRow == [role : Roles, password : Owners, pii : Owners]
NoUser == [role |-> "none", password |-> Operator, pii |-> Operator]

NoSession == [pc |-> "idle", email |-> NoEmail, person |-> Operator, role |-> "none"]
SessionState == [pc : {"idle", "create", "sign", "login"}, email : Emails \cup {NoEmail},
                 person : Owners, role : Roles \cup {"none"}]

DeployState == {"off", "insert", "reset", "promote", "done", "failed"}

AccountsTypeOK ==
  /\ user \in [Emails -> UserRow \cup {NoUser}]
  /\ session \in [Clients -> SessionState]
  /\ tokens \subseteq [email : Emails, role : Roles]
  /\ registered \subseteq Emails \X Persons
  /\ deploy \in DeployState
  /\ seeding \in 0..Len(SeedUsers)

AccountsInit ==
  /\ user = [e \in Emails |-> NoUser]
  /\ session = [c \in Clients |-> NoSession]
  /\ tokens = {}
  /\ registered = {}
  /\ deploy = "off"
  /\ seeding = 0

Exists(e) == user[e] # NoUser

-----------------------------------------------------------------------------
(* register *)

\* findByEmail; an email that is taken is answered 409.
StartRegistration(c, e, p) ==
  /\ session[c] = NoSession
  /\ ~Exists(e)
  /\ session' = [session EXCEPT ![c] =
       [pc |-> "create", email |-> e, person |-> p, role |-> "none"]]
  /\ UNCHANGED <<user, tokens, registered, deploy, seeding>>

\* Mutant: the INSERT replaces a row there is.
Overwrites(e) == FALSE

\* The unique constraint on the email.
InsertRefused(e) == Exists(e)

\* The password hashed, the data key wrapped by the Security Service, and the
\* INSERT, all columns at once.
CreateUser(c) ==
  LET e == session[c].email
      p == session[c].person
  IN /\ session[c].pc = "create"
     /\ IF InsertRefused(e)
        THEN session' = [session EXCEPT ![c] = NoSession] /\ UNCHANGED user
        ELSE /\ user' = [user EXCEPT ![e] = [role |-> "customer", password |-> p, pii |-> p]]
             /\ session' = [session EXCEPT ![c].pc = "sign", ![c].role = "customer"]
     /\ UNCHANGED <<tokens, registered, deploy, seeding>>

\* login: findByEmail and the comparison of the password.  What is signed later
\* is what was read here.
StartLogin(c, e, p) ==
  /\ session[c] = NoSession
  /\ Exists(e) /\ user[e].password = p
  /\ session' = [session EXCEPT ![c] =
       [pc |-> "login", email |-> e, person |-> p, role |-> user[e].role]]
  /\ UNCHANGED <<user, tokens, registered, deploy, seeding>>

\* signJwt, and the answer.
SignJwt(c) ==
  /\ session[c].pc \in {"sign", "login"}
  /\ tokens' = tokens \cup {[email |-> session[c].email, role |-> session[c].role]}
  /\ registered' = IF session[c].pc = "sign"
                   THEN registered \cup {<<session[c].email, session[c].person>>}
                   ELSE registered
  /\ session' = [session EXCEPT ![c] = NoSession]
  /\ UNCHANGED <<user, deploy, seeding>>

\* The Security Service does not wrap or sign, a statement fails, or the process
\* dies: what has been inserted stays.
RequestFails(c) ==
  /\ session[c] # NoSession
  /\ session' = [session EXCEPT ![c] = NoSession]
  /\ UNCHANGED <<user, tokens, registered, deploy, seeding>>

-----------------------------------------------------------------------------
(* seedAdmin.js *)

\* The configuration is complete and the SELECT has found what there is.
StartSeedAdmin(resetPassword) ==
  LET row == user[AdminEmail]
  IN /\ deploy \in {"off", "done", "failed"}
     /\ deploy' = CASE ~Exists(AdminEmail)  -> "insert"
                    [] Exists(AdminEmail) /\ resetPassword -> "reset"
                    [] Exists(AdminEmail) /\ ~resetPassword /\ row.role # "admin" -> "promote"
                    [] OTHER -> "done"
     /\ UNCHANGED <<user, session, tokens, registered, seeding>>

InsertAdmin ==
  /\ deploy = "insert"
  /\ IF InsertRefused(AdminEmail)
     THEN deploy' = "failed" /\ UNCHANGED user
     ELSE /\ user' = [user EXCEPT ![AdminEmail] =
               [role |-> "admin", password |-> Operator, pii |-> Operator]]
          /\ deploy' = "done"
  /\ UNCHANGED <<session, tokens, registered, seeding>>

\* Mutant: the role is left as it was found.
ResetsPasswordOnly(row) == [row EXCEPT !.password = Operator]

WithPasswordReset(row) == [row EXCEPT !.role = "admin", !.password = Operator]

\* The two UPDATEs, by the id that was found.
UpdateAdmin ==
  /\ deploy \in {"reset", "promote"}
  /\ user' = [user EXCEPT ![AdminEmail] =
       IF deploy = "reset" THEN WithPasswordReset(@) ELSE [@ EXCEPT !.role = "admin"]]
  /\ deploy' = "done"
  /\ UNCHANGED <<session, tokens, registered, seeding>>

SeedAdminFails ==
  /\ deploy \in {"insert", "reset", "promote"}
  /\ deploy' = "failed"
  /\ UNCHANGED <<user, session, tokens, registered, seeding>>

-----------------------------------------------------------------------------
(* seed.js *)

StartSeed ==
  /\ seeding = 0 /\ SeedUsers # <<>>
  /\ seeding' = 1
  /\ UNCHANGED <<user, session, tokens, registered, deploy>>

\* upsertUser: a user there is keeps the password and the personal data.
UpsertUser ==
  LET seed == SeedUsers[seeding]
  IN /\ seeding # 0
     /\ user' = [user EXCEPT ![seed.email] =
          IF Exists(seed.email) THEN [@ EXCEPT !.role = seed.role]
          ELSE [role |-> seed.role, password |-> Operator, pii |-> Operator]]
     /\ seeding' = IF seeding = Len(SeedUsers) THEN 0 ELSE seeding + 1
     /\ UNCHANGED <<session, tokens, registered, deploy>>

\* It stops at the first error; what it has written stays.
SeedFails ==
  /\ seeding # 0
  /\ seeding' = 0
  /\ UNCHANGED <<user, session, tokens, registered, deploy>>

AccountsNext ==
  \/ \E c \in Clients :
       \/ \E e \in Emails, p \in Persons : StartRegistration(c, e, p)
       \/ \E e \in Emails, p \in Owners : StartLogin(c, e, p)
       \/ CreateUser(c) \/ SignJwt(c) \/ RequestFails(c)
  \/ \E resetPassword \in BOOLEAN : StartSeedAdmin(resetPassword)
  \/ InsertAdmin \/ UpdateAdmin \/ SeedAdminFails
  \/ StartSeed \/ UpsertUser \/ SeedFails

AccountsSpec == AccountsInit /\ [][AccountsNext]_accountVars

-----------------------------------------------------------------------------
(* Properties *)

\* Whoever was answered that his account is created has it: however many
\* registrations of one email overlap with each other and with both seeds, the
\* account holds his data, and his password unless an admin's was reset.
RegistrantOwnsAccount ==
  \A e \in Emails, p \in Persons : <<e, p>> \in registered =>
    /\ user[e].pii = p
    /\ user[e].password = p \/ e = AdminEmail

\* A seedAdmin that ends well leaves an admin, whoever registered the address
\* before or during it.
DeployedHasAdmin == deploy = "done" => user[AdminEmail].role = "admin"

\* A token, also of a login that was under way while a role changed, never
\* makes an admin of somebody who is none.
TokensKeepRank ==
  \A t \in tokens : t.role = "admin" => user[t.email].role = "admin"
=============================================================================
