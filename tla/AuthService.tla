---------------------------- MODULE AuthService ----------------------------
(***************************************************************************)
(* Accounts and sessions: src/internal/service/auth_service.go,            *)
(* user_service.go, directory_service.go and apikey_service.go, the tokens *)
(* of auth/jwt.go and the middleware that admits a request                 *)
(* (middleware/auth.go).  Every operation reads a whole row of the users   *)
(* table, changes its copy and saves the whole copy (repository/           *)
(* user_repo.go), so that a request is two steps: one that reads and       *)
(* decides, one that saves and answers.  Passwords and TOTP codes are not  *)
(* data here: a request carries the right one or is refused at once.       *)
(***************************************************************************)
EXTENDS Naturals, FiniteSets

CONSTANTS
  Users, Admins,
  DirectoryUsers,  \* the accounts an LDAP directory authenticates
  Protected,       \* the accounts that begin with two-factor authentication
  SignedIn,        \* the accounts that begin with a session
  Requests,        \* requests that may be between their read and their save
  Codes,           \* names of the recovery codes of one setup
  MaxRequests,     \* bound: requests that read a row to change it
  MaxSetups        \* bound: setups of two-factor authentication

ASSUME AuthAssumption ==
  /\ Admins \cup DirectoryUsers \cup Protected \cup SignedIn \subseteq Users
  /\ MaxRequests \in Nat /\ MaxSetups \in Nat

VARIABLES
  rows,      \* the users table
  key,       \* the API key of each user
  request,   \* the requests that have read and not saved yet
  tokens,    \* the tokens in users' hands
  count, setups,  \* counters of the bounds
  proven,    \* history: the secrets a user has shown a code of
  ended,     \* history: sessions issued before a version was bumped
  barred,    \* history: users disabled or deleted, and not enabled since
  usedCodes, \* history: users with recovery codes that have opened a session
  raced,     \* history: users whose row was saved over a change not read
  wrong      \* history: what was accepted and should not have been, by user

vars == <<rows, key, request, tokens, count, setups, proven, ended, barred, usedCodes, raced, wrong>>
bounds  == <<count, setups>>
past    == <<proven, ended, barred, usedCodes, raced, wrong>>

-----------------------------------------------------------------------------
Roles == {"super-admin", "admin", "viewer"}
DirectoryRoles == Roles \ {"super-admin"}  \* what validateSettings accepts
NoSecret == 0
NoRequest == [user |-> "none"]
AllCodes(secret) == {secret} \X Codes

OldSecret == 1   \* the one the protected accounts begin with

FirstRow(u) ==
  LET secret == IF u \in Protected THEN OldSecret ELSE NoSecret IN
  [alive |-> TRUE, role |-> IF u \in Admins THEN "super-admin" ELSE "viewer", active |-> TRUE, version |-> 0,
   password |-> u \notin DirectoryUsers, totp |-> u \in Protected, secret |-> secret, codes |-> {secret} \X {c \in Codes : u \in Protected}]

-----------------------------------------------------------------------------
(* Tokens.  proved: the second factor was given, or none was asked at the  *)
(* sign-in the token descends from.                                        *)
Token(type, u, version, proved) == [type |-> type, user |-> u, version |-> version, proved |-> proved]
Pair(u, version, proved) == {Token(type, u, version, proved) : type \in {"access", "refresh"}}
\* 2FA and WebSocket tokens carry no version: it parses as 0
TempToken(u) == Token("2fa", u, 0, FALSE)
Session(row, u, proved) == Pair(u, row.version, proved)
Ticket(t) == [t EXCEPT !.type = "websocket", !.version = 0]
\* a slip: ParseToken takes any signed token
AnyType(t, type) == type = "access" \/ t.type = type
Parses(t, type) == t.type = type

\* What accepting t of a row now would get wrong.
Errors(t) ==
  {e \in {"revoked", "barred", "unproved"} :
     \/ e = "revoked" /\ t \in ended
     \/ e = "barred" /\ t.user \in barred
     \/ e = "unproved" /\ ~t.proved}
Blame(u, errors) == wrong' = [wrong EXCEPT ![u] = @ \cup errors]

Init ==
  /\ rows = [u \in Users |-> FirstRow(u)]
  /\ key = [u \in Users |-> "none"]
  /\ request = [r \in Requests |-> NoRequest]
  /\ tokens = UNION {Session(rows[u], u, TRUE) : u \in SignedIn}
  /\ count = 0 /\ setups = OldSecret
  /\ proven = {OldSecret} /\ ended = {} /\ barred = {} /\ usedCodes = {} /\ raced = {}
  /\ wrong = [u \in Users |-> {}]

-----------------------------------------------------------------------------
(* A request reads a row and decides; Finish saves its copy and answers.   *)
(* grant: the tokens of the answer.  stubborn: the answer does not depend  *)
(* on the save.                                                            *)
Found(u) == rows[u].alive
SignsIn(u) == Found(u) /\ rows[u].active

Ask(r, q) ==
  /\ request[r] = NoRequest
  /\ count < MaxRequests /\ count' = count + 1
  /\ request' = [request EXCEPT ![r] = q]
  /\ UNCHANGED <<rows, key, tokens>>

Read(r, u, copy, grant, stubborn, code) ==
  Ask(r, [user |-> u, seen |-> rows[u], save |-> copy, delete |-> FALSE,
          grant |-> grant, stubborn |-> stubborn, code |-> code])

Change(r, u, copy) ==
  Read(r, u, copy, {}, FALSE, {}) /\ UNCHANGED <<setups, past>>

Remove(r, u) ==
  /\ Ask(r, [user |-> u, seen |-> rows[u], save |-> rows[u], delete |-> TRUE,
             grant |-> {}, stubborn |-> FALSE, code |-> {}])
  /\ UNCHANGED <<setups, past>>

\* userRepo.Update saves the row whole, and a deleted one is there again;
\* userRepo.Delete only marks it
\* a slip: only the changed columns are saved
ChangedColumns(q) ==
  IF q.delete THEN [rows[q.user] EXCEPT !.alive = FALSE]
  ELSE [f \in DOMAIN q.save |-> IF q.save[f] # q.seen[f] THEN q.save[f] ELSE rows[q.user][f]]
Written(q) == IF q.delete THEN [rows[q.user] EXCEPT !.alive = FALSE] ELSE q.save

Overwrites(q) == ~q.delete /\ rows[q.user] # q.seen
Bumps(q) == q.save.version > q.seen.version
Disables(q) == q.delete \/ (q.seen.active /\ ~q.save.active)
Enables(q) == ~q.delete /\ ~q.seen.active /\ q.save.active
SessionsOf(u) == {t \in tokens : t.user = u /\ t.type \in {"access", "refresh"}}

Saved(r) ==
  LET q == request[r]  u == q.user IN
  /\ q # NoRequest
  /\ rows' = [rows EXCEPT ![u] = Written(q)]
  /\ tokens' = tokens \cup q.grant
  /\ raced' = IF Overwrites(q) THEN raced \cup {u} ELSE raced
  /\ ended' = IF Bumps(q) THEN ended \cup SessionsOf(u) ELSE ended
  /\ barred' = (barred \ {v \in {u} : Enables(q)}) \cup {v \in {u} : Disables(q)}
  /\ usedCodes' = usedCodes \cup ({u} \X q.code)
  /\ Blame(u, IF ({u} \X q.code) \cap usedCodes # {} THEN {"reused"} ELSE {})
  /\ UNCHANGED proven

\* The database refuses: sign-ins go on without their save.
NotSaved(r) ==
  /\ request[r] # NoRequest
  /\ tokens' = IF request[r].stubborn THEN tokens \cup request[r].grant ELSE tokens
  /\ UNCHANGED <<rows, past>>

Finish(r) ==
  /\ Saved(r) \/ NotSaved(r)
  /\ request' = [request EXCEPT ![r] = NoRequest]
  /\ UNCHANGED <<key, bounds>>

-----------------------------------------------------------------------------
(* Signing in                                                              *)
FirstFactor(row, u) == IF row.totp THEN {TempToken(u)} ELSE Session(row, u, TRUE)

\* Login: LastLoginAt is saved with the row
Login(r, u) ==
  /\ SignsIn(u) /\ rows[u].password
  /\ Read(r, u, rows[u], FirstFactor(rows[u], u), TRUE, {})
  /\ UNCHANGED <<setups, past>>

\* IssueLoginForUser: a public key stands for both factors
IssueLoginForUser(r, u) ==
  /\ SignsIn(u)
  /\ Read(r, u, rows[u], Session(rows[u], u, TRUE), TRUE, {})
  /\ UNCHANGED <<setups, past>>

\* HandleCallback: another provider stands for both factors, and a disabled
\* account gets a session nobody will admit
HandleCallback(r, u) ==
  /\ Found(u)
  /\ Read(r, u, rows[u], Session(rows[u], u, TRUE), TRUE, {})
  /\ UNCHANGED <<setups, past>>

\* reconcile: a role the directory changed ends the sessions
Reconciled(u, role) ==
  IF rows[u].role = role THEN rows[u]
  ELSE [rows[u] EXCEPT !.role = role, !.version = @ + 1]

LoginDirectory(r, u, role) ==
  /\ u \in DirectoryUsers /\ SignsIn(u)
  /\ LET row == Reconciled(u, role) IN Read(r, u, row, FirstFactor(row, u), FALSE, {})
  /\ UNCHANGED <<setups, past>>

Verify2FA(t) ==
  /\ Parses(t, "2fa") /\ SignsIn(t.user)
  /\ rows[t.user].totp /\ rows[t.user].secret # NoSecret
  /\ tokens' = tokens \cup Session(rows[t.user], t.user, TRUE)
  /\ UNCHANGED <<rows, key, request, bounds, past>>

\* UseRecoveryCode: the setup need not be active
\* a slip: the code stays in the list
NotConsumed(codes, code) == codes
Consume(codes, code) == codes \ {code}
UseRecoveryCode(r, t, code) ==
  LET u == t.user IN
  /\ Parses(t, "2fa") /\ SignsIn(u)
  /\ code \in rows[u].codes
  /\ Read(r, u, [rows[u] EXCEPT !.codes = Consume(@, code)],
          Session(rows[u], u, TRUE), FALSE, {code})
  /\ UNCHANGED <<setups, past>>

-----------------------------------------------------------------------------
(* Using a session                                                         *)
Current(t) == t.version = rows[t.user].version

\* AuthMiddleware, a JWT
Admitted(t) == Parses(t, "access") /\ SignsIn(t.user) /\ Current(t)
AdmitToken(t) ==
  /\ Admitted(t)
  /\ Blame(t.user, Errors(t))
  /\ UNCHANGED <<rows, key, request, tokens, bounds, proven, ended, barred, usedCodes, raced>>

\* AuthMiddleware, an API key: versions do not matter
AdmitKey(u) ==
  /\ key[u] = "live" /\ SignsIn(u)
  /\ Blame(u, IF u \in barred THEN {"barred"} ELSE {})
  /\ UNCHANGED <<rows, key, request, tokens, bounds, proven, ended, barred, usedCodes, raced>>

\* TicketHandler.Create, and the terminal or log stream that takes the ticket
CreateTicket(t) ==
  /\ Admitted(t)
  /\ tokens' = tokens \cup {Ticket(t)}
  /\ UNCHANGED <<rows, key, request, bounds, past>>

AdmitTicket(t) ==
  /\ Parses(t, "websocket") /\ SignsIn(t.user)
  /\ Blame(t.user, Errors(t))
  /\ UNCHANGED <<rows, key, request, tokens, bounds, proven, ended, barred, usedCodes, raced>>

\* of a directory's account too, while the directory is off or its mapping is
\* not refreshed
RefreshToken(t) ==
  /\ Parses(t, "refresh") /\ SignsIn(t.user)
  /\ Current(t)
  /\ tokens' = tokens \cup Session(rows[t.user], t.user, t.proved)
  /\ Blame(t.user, Errors(t))
  /\ UNCHANGED <<rows, key, request, bounds, proven, ended, barred, usedCodes, raced>>

\* RefreshUser: the directory is on and is asked before the version is compared
RefreshDirectory(r, t, role) ==
  LET u == t.user  row == Reconciled(u, role) IN
  /\ Parses(t, "refresh") /\ u \in DirectoryUsers /\ SignsIn(u)
  /\ Read(r, u, row, IF t.version = row.version THEN Session(row, u, t.proved) ELSE {}, FALSE, {})
  /\ UNCHANGED <<setups, past>>

\* RefreshUser, an identity that is gone or another: its sessions end
IdentityLost(r, t) ==
  /\ Parses(t, "refresh") /\ t.user \in DirectoryUsers /\ SignsIn(t.user)
  /\ Change(r, t.user, [rows[t.user] EXCEPT !.version = @ + 1])

-----------------------------------------------------------------------------
(* Two-factor authentication, by an admitted user                          *)
Setup2FA(r, t) ==
  LET u == t.user  secret == setups + 1 IN
  /\ Admitted(t) /\ ~rows[u].totp
  /\ setups < MaxSetups /\ setups' = secret
  /\ Read(r, u, [rows[u] EXCEPT !.secret = secret, !.codes = AllCodes(secret)], {}, FALSE, {})
  /\ UNCHANGED past

Enable2FA(r, t) ==
  LET u == t.user IN
  /\ Admitted(t) /\ ~rows[u].totp /\ rows[u].secret # NoSecret
  /\ Read(r, u, [rows[u] EXCEPT !.totp = TRUE], {}, FALSE, {})
  /\ proven' = proven \cup {rows[u].secret}
  /\ UNCHANGED <<setups, ended, barred, usedCodes, raced, wrong>>

\* a slip: the recovery codes survive
CodesKept(row) == [row EXCEPT !.totp = FALSE, !.secret = NoSecret]
Cleared(row) == [row EXCEPT !.totp = FALSE, !.secret = NoSecret, !.codes = {}]
Disable2FA(r, t) ==
  /\ Admitted(t) /\ rows[t.user].totp
  /\ Change(r, t.user, Cleared(rows[t.user]))

\* the command line's clear2FA
Clear2FA(r, u) == Found(u) /\ Change(r, u, Cleared(rows[u]))

-----------------------------------------------------------------------------
(* Managing users                                                          *)
Bumped(row) == [row EXCEPT !.version = @ + 1]
HasAdminRole(u) == rows[u].role \in {"admin", "super-admin"}
IsAdmin(caller) == SignsIn(caller) /\ HasAdminRole(caller)

ResetPassword(r, caller, u) ==
  /\ IsAdmin(caller) /\ Found(u) /\ rows[u].password
  /\ Change(r, u, Bumped(rows[u]))

ChangePassword(r, t) ==
  /\ Admitted(t) /\ rows[t.user].password
  /\ Change(r, t.user, Bumped(rows[t.user]))

\* the command line also gives a directory account a password
ResetUserPassword(r, u) ==
  Found(u) /\ Change(r, u, [Bumped(rows[u]) EXCEPT !.password = TRUE])

\* SaveSettings of the directory ends the sessions of all its accounts
SaveSettings(r, caller, u) ==
  /\ IsAdmin(caller) /\ u \in DirectoryUsers /\ Found(u)
  /\ Change(r, u, Bumped(rows[u]))

\* UpdateUser: nobody disables themself, and no version is bumped
UpdateUser(r, caller, u, role, active) ==
  /\ IsAdmin(caller) /\ Found(u)
  /\ rows[u].role = "super-admin" => role = "super-admin"
  /\ caller # u \/ active
  /\ Change(r, u, [rows[u] EXCEPT !.role = role, !.active = active])

\* the command line's setUserRole, setUserActive, deleteUserByName
ActiveSupers == {v \in Users : SignsIn(v) /\ rows[v].role = "super-admin"}
Spared(u) == Found(u) /\ (rows[u].role = "super-admin" => Cardinality(ActiveSupers) > 1)
SetUserRole(r, u, role) ==
  /\ Found(u) /\ (role # "super-admin" => Spared(u))
  /\ Change(r, u, [Bumped(rows[u]) EXCEPT !.role = role])
SetUserActive(r, u, active) ==
  /\ IF active THEN Found(u) ELSE Spared(u)
  /\ Change(r, u, [rows[u] EXCEPT !.active = active, !.version = IF active THEN @ ELSE @ + 1])
DeleteUserByName(r, u) == Spared(u) /\ Remove(r, u)

\* DeleteUser: the admins are counted before the row is marked
AdminCount == Cardinality({v \in Users : Found(v) /\ HasAdminRole(v)})
DeleteUser(r, caller, u) ==
  /\ caller # u /\ IsAdmin(caller) /\ Found(u)
  /\ HasAdminRole(u) => AdminCount > 1
  /\ Remove(r, u)

\* APIKeyService: Generate, Revoke, and time
Generate(t) ==
  /\ Admitted(t) /\ key[t.user] = "none"
  /\ key' = [key EXCEPT ![t.user] = "live"]
  /\ UNCHANGED <<rows, request, tokens, bounds, past>>
Revoke(t) ==
  /\ Admitted(t) /\ key[t.user] # "none"
  /\ key' = [key EXCEPT ![t.user] = "none"]
  /\ UNCHANGED <<rows, request, tokens, bounds, past>>
KeyExpires(u) ==
  /\ key[u] = "live"
  /\ key' = [key EXCEPT ![u] = "expired"]
  /\ UNCHANGED <<rows, request, tokens, bounds, past>>

-----------------------------------------------------------------------------
SignInStep(r) ==
  \/ \E u \in Users : Login(r, u) \/ IssueLoginForUser(r, u) \/ HandleCallback(r, u)
  \/ \E u \in Users, role \in DirectoryRoles : LoginDirectory(r, u, role)
  \/ \E t \in tokens : \E code \in rows[t.user].codes : UseRecoveryCode(r, t, code)

SessionStep(t) ==
  \/ Verify2FA(t) \/ AdmitToken(t) \/ CreateTicket(t) \/ AdmitTicket(t) \/ RefreshToken(t)
  \/ Generate(t) \/ Revoke(t)
  \/ \E r \in Requests :
       \/ \E role \in DirectoryRoles : RefreshDirectory(r, t, role)
       \/ IdentityLost(r, t) \/ Setup2FA(r, t) \/ Enable2FA(r, t) \/ Disable2FA(r, t)
       \/ ChangePassword(r, t)

ManageStep(r, u) ==
  \/ Clear2FA(r, u) \/ ResetUserPassword(r, u) \/ DeleteUserByName(r, u)
  \/ \E role \in Roles : SetUserRole(r, u, role)
  \/ \E active \in BOOLEAN : SetUserActive(r, u, active)
  \/ \E caller \in Users : DeleteUser(r, caller, u) \/ ResetPassword(r, caller, u) \/ SaveSettings(r, caller, u)
  \/ \E caller \in Users, role \in Roles, active \in BOOLEAN : UpdateUser(r, caller, u, role, active)

Next ==
  \/ \E r \in Requests : SignInStep(r) \/ Finish(r)
  \/ \E t \in tokens : SessionStep(t)
  \/ \E r \in Requests, u \in Users : ManageStep(r, u)
  \/ \E u \in Users : AdmitKey(u) \/ KeyExpires(u)

Spec == Init /\ [][Next]_vars

-----------------------------------------------------------------------------
Versions == 0..MaxRequests
Tokens == [type : {"access", "refresh", "2fa", "websocket"}, user : Users,
           version : Versions, proved : BOOLEAN]

\* The accounts keep their types; recovery codes are those of the secret
\* they were made with, whatever saves overlapped: Setup2FA and Disable2FA
\* write both.
TypeOK ==
  /\ DOMAIN rows = Users /\ DOMAIN key = Users
  /\ \A u \in Users :
       /\ rows[u].version \in Versions /\ rows[u].role \in Roles
       /\ rows[u].codes \subseteq AllCodes(rows[u].secret)
       /\ rows[u].secret = NoSecret => rows[u].codes = {}
       /\ key[u] \in {"none", "live", "expired"}
  /\ tokens \subseteq Tokens
  /\ ended \subseteq tokens /\ barred \subseteq Users

\* A token that stands for a password alone opens nothing: no request, no
\* refresh and no WebSocket is admitted on it before the second factor
\* (auth/jwt.go tells the types apart; auth_service.go Verify2FA).
SecondFactorGiven == \A u \in Users : "unproved" \notin wrong[u]

\* Two-factor authentication is never on with a secret its user has not
\* shown a code of, even when a second setup overlaps the activation: the
\* owner could not sign in again (auth_service.go Setup2FA, Enable2FA).
EnabledWasProven == \A u \in Users : rows[u].totp => rows[u].secret \in proven

\* Only saves that overwrite what they have not read break what ends: without
\* one, no session is accepted after its version was bumped, nobody is
\* admitted after they were disabled or deleted, and no recovery code opens
\* two sessions (user_service.go ResetPassword, UpdateUser, DeleteUser;
\* auth_service.go UseRecoveryCode; middleware/auth.go).
EndedUnlessRaced == \A u \in Users : wrong[u] \ {"unproved"} # {} => u \in raced

\* user_service.go:186: ResetPassword "bumps the token version to invalidate
\* existing sessions": none of them is accepted again.
SessionsStayEnded == \A u \in Users : "revoked" \notin wrong[u]
=============================================================================
