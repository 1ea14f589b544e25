------------------------------- MODULE Accounts -------------------------------
(***************************************************************************)
(* Control-plane accounts, roles and sessions: AuthService, the middleware *)
(* that admits requests (require_control_plane_auth) and the routes under  *)
(* /api/auth.                                                              *)
(*                                                                         *)
(* The middleware resolves the session and checks the privilege before the *)
(* body of a request has arrived; the handler runs later.  An admitted     *)
(* request is therefore a state of its own, and accounts can change under  *)
(* it.  Passwords are numbered as they are set; 0 is the bootstrap one.    *)
(***************************************************************************)
EXTENDS Naturals, FiniteSets

CONSTANTS
  Users, Admin,         \* user ids, and the account with the name "admin"
  Roles, Administrator, \* role ids, and the protected one
  Sessions,
  Full,                 \* all privileges; "auth.write" is one of them
  MaxPasswords,         \* bound: passwords after the bootstrap one
  MaxChanges            \* bound: changes of users and roles

ASSUME AccountsAssumption ==
  /\ Admin \in Users /\ Administrator \in Roles /\ "auth.write" \in Full
  /\ MaxPasswords \in Nat /\ MaxChanges \in Nat

VARIABLES
  users,     \* existing accounts
  role,      \* the role of each
  password,  \* the number of its password
  roles,     \* existing roles
  privileges, \* of each role
  session,   \* each session: "none", "valid", "revoked" or "expired"
  holder,    \* the user a session belongs to
  opened,    \* history: the password the session stands for
  admitted,  \* sessions with a request that the middleware has let through
  passwords, accountChanges

AccountVars == <<users, role, password, roles, privileges, session, holder,
                 opened, admitted, passwords, accountChanges>>
accountData == <<users, role, password, roles, privileges>>
sessionData == <<session, holder, opened>>

AccountsInit ==
  /\ users = {Admin} /\ roles = {Administrator}
  /\ role = [u \in Users |-> Administrator] /\ password = [u \in Users |-> 0]
  /\ privileges = [r \in Roles |-> IF r = Administrator THEN Full ELSE {}]
  /\ session = [s \in Sessions |-> "none"] /\ holder = [s \in Sessions |-> Admin]
  /\ opened = [s \in Sessions |-> 0]
  /\ admitted = {} /\ passwords = 0 /\ accountChanges = 0

----------------------------------------------------------------------------
(* Sessions                                                                *)

\* resolve_session finds a user for it.
Usable(s) == session[s] = "valid" /\ holder[s] \in users

CreateSession(u, s) ==
  /\ session[s] = "none"
  /\ session' = [session EXCEPT ![s] = "valid"] /\ holder' = [holder EXCEPT ![s] = u]
  /\ opened' = [opened EXCEPT ![s] = password[u]]
  /\ UNCHANGED <<accountData, admitted, passwords, accountChanges>>

\* With the right password.
Authenticates(u) == u \in users

\* authenticate and create_session, with no await between them.
Login(u, s) == Authenticates(u) /\ CreateSession(u, s)

RevokeSession(s) ==
  /\ session[s] \in {"valid", "expired"} /\ session' = [session EXCEPT ![s] = "revoked"]
  /\ UNCHANGED <<accountData, holder, opened, admitted, passwords, accountChanges>>
Logout(s) == RevokeSession(s)
Expires(s) ==
  /\ session[s] = "valid" /\ session' = [session EXCEPT ![s] = "expired"]
  /\ UNCHANGED <<accountData, holder, opened, admitted, passwords, accountChanges>>

\* _is_default_hash: such a session only reaches the bootstrap paths.
DefaultCredentials(u) == password[u] = 0

Admit(s) ==
  /\ Usable(s) /\ ~DefaultCredentials(holder[s])
  /\ "auth.write" \in privileges[role[holder[s]]]
  /\ admitted' = admitted \cup {s}
  /\ UNCHANGED <<accountData, sessionData, passwords, accountChanges>>

\* Reads, and requests that are refused or fail, leave everything as it is.
Abandons(s) ==
  /\ s \in admitted /\ admitted' = admitted \ {s}
  /\ UNCHANGED <<accountData, sessionData, passwords, accountChanges>>

\* A new password ends the sessions of the account, except the one to keep.
ChangePassword(u, s) ==
  /\ passwords < MaxPasswords /\ passwords' = passwords + 1
  /\ password' = [password EXCEPT ![u] = passwords + 1]
  /\ session' = [t \in Sessions |->
       IF holder[t] = u /\ t # s /\ session[t] \in {"valid", "expired"}
       THEN "revoked" ELSE session[t]]
  /\ opened' = [opened EXCEPT ![s] = passwords + 1]
  /\ UNCHANGED <<users, role, roles, privileges, holder, admitted, accountChanges>>

\* The handler resolves the session again; the session it came with is kept.
PasswordRequest(s) == Usable(s) /\ ChangePassword(holder[s], s)

----------------------------------------------------------------------------
(* Users and roles, as an admitted request of a session changes them *)

IsAdministrator(r) == r = Administrator \/ privileges[r] = Full
AdministratorCount == Cardinality({u \in users : IsAdministrator(role[u])})

Handles(s) ==
  /\ s \in admitted /\ admitted' = admitted \ {s}
  /\ accountChanges < MaxChanges /\ accountChanges' = accountChanges + 1

CreateUser(u, r) ==
  /\ u \notin users /\ u # Admin /\ r \in roles
  /\ users' = users \cup {u} /\ role' = [role EXCEPT ![u] = r]
  /\ passwords < MaxPasswords /\ passwords' = passwords + 1
  /\ password' = [password EXCEPT ![u] = passwords + 1]
  /\ UNCHANGED <<roles, privileges, sessionData>>

\* A variant: the last administrator can be given another role.
UpdateUserUnguarded(u, r) ==
  /\ u \in users /\ r \in roles
  /\ role' = [role EXCEPT ![u] = r]
  /\ UNCHANGED <<users, password, roles, privileges, sessionData, passwords>>

UpdateUser(u, r) ==
  /\ u \in users /\ r \in roles
  /\ ~(role[u] # r /\ IsAdministrator(role[u]) /\ AdministratorCount <= 1)
  /\ role' = [role EXCEPT ![u] = r]
  /\ UNCHANGED <<users, password, roles, privileges, sessionData, passwords>>

\* The sessions of the account are deleted with it.
DeleteUser(u, by) ==
  /\ u \in users \ {Admin, by}
  /\ ~(IsAdministrator(role[u]) /\ AdministratorCount <= 1)
  /\ users' = users \ {u}
  /\ session' = [t \in Sessions |-> IF holder[t] = u THEN "none" ELSE session[t]]
  /\ UNCHANGED <<role, password, roles, privileges, holder, opened, passwords>>

CreateRole(r, P) ==
  /\ r \notin roles /\ roles' = roles \cup {r}
  /\ privileges' = [privileges EXCEPT ![r] = P]
  /\ UNCHANGED <<users, role, password, sessionData, passwords>>

UpdateRole(r, P) ==
  /\ r \in roles \ {Administrator}
  /\ ~(IsAdministrator(r) /\ P # Full)
  /\ privileges' = [privileges EXCEPT ![r] = P]
  /\ UNCHANGED <<users, role, password, roles, sessionData, passwords>>

DeleteRole(r) ==
  /\ r \in roles \ {Administrator} /\ \A u \in users : role[u] # r
  /\ roles' = roles \ {r}
  /\ UNCHANGED <<users, role, password, privileges, sessionData, passwords>>

\* The handlers.
CreateUserRequest(s, u, r) == Handles(s) /\ CreateUser(u, r)
UpdateUserRequest(s, u, r) == Handles(s) /\ UpdateUser(u, r)
DeleteUserRequest(s, u) == Handles(s) /\ Usable(s) /\ DeleteUser(u, holder[s])
CreateRoleRequest(s, r, P) == Handles(s) /\ CreateRole(r, P)
UpdateRoleRequest(s, r, P) == Handles(s) /\ UpdateRole(r, P)
DeleteRoleRequest(s, r) == Handles(s) /\ DeleteRole(r)

\* The application starts again: requests are lost, sessions that can no
\* longer be used are purged, and there is no account to seed.
AccountsRestart ==
  /\ admitted' = {}
  /\ session' = [s \in Sessions |-> IF session[s] = "valid" THEN "valid" ELSE "none"]
  /\ UNCHANGED <<accountData, holder, opened, passwords, accountChanges>>

AccountsNext ==
  \/ \E s \in Sessions :
       \/ \E u \in Users : Login(u, s) \/ DeleteUserRequest(s, u)
       \/ Logout(s) \/ Expires(s) \/ Admit(s) \/ Abandons(s) \/ PasswordRequest(s)
       \/ \E u \in Users, r \in Roles : CreateUserRequest(s, u, r) \/ UpdateUserRequest(s, u, r)
       \/ \E r \in Roles, P \in SUBSET Full : CreateRoleRequest(s, r, P) \/ UpdateRoleRequest(s, r, P)
       \/ \E r \in Roles : DeleteRoleRequest(s, r)
  \/ AccountsRestart

AccountsSpec == AccountsInit /\ [][AccountsNext]_AccountVars

----------------------------------------------------------------------------
(* Properties                                                              *)

AccountsTypeOK ==
  /\ Admin \in users /\ users \subseteq Users
  /\ Administrator \in roles /\ roles \subseteq Roles
  /\ \A u \in users : role[u] \in roles
  /\ privileges \in [Roles -> SUBSET Full]
  /\ session \in [Sessions -> {"none", "valid", "revoked", "expired"}]
  /\ admitted \subseteq Sessions /\ passwords \in 0..MaxPasswords /\ accountChanges \in 0..MaxChanges

\* An account with every privilege remains, whichever requests were admitted
\* while others changed the roles under them.
AdministratorRemains == \E u \in users : IsAdministrator(role[u])

\* A session that can be used belongs to an account that exists, and stands for
\* the password the account has now: the ones opened with an earlier password
\* have ended, except the one that changed it.
SessionsFollowPassword ==
  \A s \in Sessions : session[s] = "valid" => /\ holder[s] \in users
                                              /\ opened[s] = password[holder[s]]

\* Accounts and sessions stay consistent under concurrent requests.
AccountsConsistent == AccountsTypeOK /\ AdministratorRemains /\ SessionsFollowPassword
=============================================================================
