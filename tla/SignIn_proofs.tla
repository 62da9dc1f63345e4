--------------------------- MODULE SignIn_proofs ---------------------------
(***************************************************************************)
(* Proofs about the two parts that MCSignIn composes, for any values of    *)
(* their constants.                                                        *)
(*                                                                         *)
(* Accounts (AuthService): no token of a password alone opens anything,    *)
(* two-factor authentication is on only with a proven secret, and only a   *)
(* save over what was not read brings back what was ended.  Public keys    *)
(* (Passkeys, an instance of PublicKeys): a ceremony admits one attempt,   *)
(* and a revoked key signs nobody in again.                                *)
(***************************************************************************)
EXTENDS MCSignIn, TLAPS

Secrets == Nat
Row == [alive : BOOLEAN, role : Roles, active : BOOLEAN, version : Nat, password : BOOLEAN,
        totp : BOOLEAN, secret : Secrets, codes : SUBSET (Secrets \X Codes)]
TokenTypes == {"access", "refresh", "2fa", "websocket"}
AnyToken == [type : TokenTypes, user : Users, version : Nat, proved : BOOLEAN]
Request == [user : Users, seen : Row, save : Row, delete : BOOLEAN, grant : SUBSET AnyToken,
            stubborn : BOOLEAN, code : SUBSET (Secrets \X Codes)]
Wrongs == {"revoked", "barred", "unproved", "reused"}

\* A row as it may be after n requests and s setups, p being the secrets proven.
GoodRow(x, n, s, p) ==
  /\ x \in Row /\ x.version <= n /\ x.secret <= s
  /\ x.codes \subseteq AllCodes(x.secret)
  /\ x.secret = NoSecret => x.codes = {}
  /\ x.totp => x.secret \in p

\* What is granted for a row: no session without the second factor, and none
\* of another version than the row's.
GoodGrant(t, u, version) ==
  /\ t \in AnyToken /\ t.user = u /\ t.type # "websocket"
  /\ t.type = "2fa" => t.version = 0
  /\ t.type # "2fa" => t.proved /\ t.version = version

IsSetup(q) == q.save.secret \notin {q.seen.secret, NoSecret}

\* What a request saves is what it has read, with the changes of its handler.
GoodRequest(q, n, s, p) ==
  /\ q \in Request
  /\ GoodRow(q.seen, n, s, p) /\ GoodRow(q.save, n, s, p)
  /\ q.seen.alive /\ q.save.alive
  /\ q.seen.version <= q.save.version
  /\ q.stubborn => q.save.version = q.seen.version
  /\ \A t \in q.grant : GoodGrant(t, q.user, q.save.version)
  /\ q.code \subseteq q.seen.codes
  /\ IF IsSetup(q) THEN q.code = {} ELSE q.save.codes \subseteq q.seen.codes \ q.code
  /\ q.delete => q.save = q.seen /\ q.code = {} /\ q.grant = {}

Asked == {r \in Requests : request[r] # NoRequest}

\* The types of all variables, and the facts about one row or one request.
Types ==
  /\ rows \in [Users -> Row] /\ \A u \in Users : GoodRow(rows[u], count, setups, proven)
  /\ key \in [Users -> {"none", "live", "expired"}]
  /\ request \in [Requests -> Request \cup {NoRequest}]
  /\ \A r \in Asked : GoodRequest(request[r], count, setups, proven)
  /\ tokens \subseteq AnyToken
  /\ count \in Nat /\ count <= MaxRequests /\ setups \in Nat
  /\ ended \subseteq tokens /\ barred \subseteq Users /\ raced \subseteq Users
  /\ usedCodes \subseteq Users \X (Secrets \X Codes) /\ \A x \in usedCodes : x[2][1] <= setups
  /\ wrong \in [Users -> SUBSET Wrongs]

\* A setup that is under way has a secret nobody else has, and no code of it
\* was used.
SetupsAreFresh ==
  \A r \in Asked : IsSetup(request[r]) =>
    /\ \A u \in Users : rows[u].secret # request[r].save.secret
    /\ \A p \in Asked \ {r} : request[r].save.secret \notin {request[p].seen.secret, request[p].save.secret}
    /\ \A x \in usedCodes : x[2][1] # request[r].save.secret

\* Versions only grow where no save went over another.
VersionsGrow ==
  \A r \in Asked : request[r].user \in raced
                   \/ request[r].seen.version <= rows[request[r].user].version

TokensAreEarned ==
  \A t \in tokens :
    /\ t.version <= count
    /\ t.type # "2fa" => t.proved
    /\ t.type \in {"access", "refresh"} /\ t.user \notin raced => t.version <= rows[t.user].version

EndedAreOld ==
  \A t \in ended :
    /\ t.type \in {"access", "refresh"}
    /\ t.user \in raced \/ t.version < rows[t.user].version

BarredAreOut == \A u \in barred : u \in raced \/ ~SignsIn(u)

UsedAreGone == \A x \in usedCodes : x[1] \in raced \/ x[2] \notin rows[x[1]].codes

IInv ==
  /\ Types /\ SetupsAreFresh /\ VersionsGrow /\ TokensAreEarned /\ EndedAreOld
  /\ BarredAreOut /\ UsedAreGone /\ SecondFactorGiven /\ EndedUnlessRaced

-----------------------------------------------------------------------------
\* A row stays good as requests, setups and proven secrets grow.
LEMMA GoodRowGrows ==
  ASSUME NEW x, NEW n \in Nat, NEW s \in Nat, NEW p, NEW m \in Nat, NEW t \in Nat, NEW o,
         GoodRow(x, n, s, p), n <= m, s <= t, p \subseteq o
  PROVE  GoodRow(x, m, t, o)
BY DEF GoodRow, Row, Secrets

LEMMA GoodRequestGrows ==
  ASSUME NEW q, NEW n \in Nat, NEW s \in Nat, NEW p, NEW m \in Nat, NEW t \in Nat, NEW o,
         GoodRequest(q, n, s, p), n <= m, s <= t, p \subseteq o
  PROVE  GoodRequest(q, m, t, o)
BY GoodRowGrows DEF GoodRequest

\* No request is a request nobody made.
LEMMA RequestsDiffer == NoRequest \notin Request
<1>1. \A q \in Request : "seen" \in DOMAIN q
  BY DEF Request
<1>2. DOMAIN NoRequest = {"user"}
  BY DEF NoRequest
<1>3. QED
  BY <1>1, <1>2

\* A request reads a row and decides what to save and to grant.
LEMMA AskIInv ==
  ASSUME AuthAssumption, IInv, NEW r \in Requests, NEW q, Ask(r, q),
         setups' \in Nat, setups <= setups', proven \subseteq proven',
         GoodRequest(q, count', setups', proven'), q.seen = rows[q.user],
         IsSetup(q) => setups' = setups + 1 /\ q.save.secret = setups',
         UNCHANGED <<ended, barred, usedCodes, raced, wrong>>
  PROVE  IInv'
<1>1. /\ Types /\ SetupsAreFresh /\ VersionsGrow /\ TokensAreEarned /\ EndedAreOld
      /\ BarredAreOut /\ UsedAreGone /\ SecondFactorGiven /\ EndedUnlessRaced
  BY DEF IInv
<1>2. /\ request[r] = NoRequest /\ count' = count + 1 /\ count' <= MaxRequests /\ count' \in Nat
      /\ request' = [request EXCEPT ![r] = q] /\ UNCHANGED <<rows, key, tokens>>
  BY <1>1 DEF Ask, Types, AuthAssumption
<1>3. q \in Request /\ q # NoRequest /\ q.user \in Users
  BY RequestsDiffer DEF GoodRequest, Request
<1>4. request'[r] = q /\ \A p \in Requests : p # r => request'[p] = request[p]
  BY <1>1, <1>2 DEF Types
<1>5. Asked' = Asked \cup {r} /\ r \notin Asked
  BY <1>2, <1>3, <1>4 DEF Asked
<1>6. \A u \in Users : GoodRow(rows[u], count', setups', proven')
  BY <1>1, <1>2, GoodRowGrows DEF Types
<1>7. \A p \in Asked' : GoodRequest(request'[p], count', setups', proven')
  <2>1. ASSUME NEW p \in Asked
        PROVE  GoodRequest(request'[p], count', setups', proven')
    BY <1>1, <1>2, <1>4, <1>5, GoodRequestGrows DEF Types, Asked
  <2>2. QED
    BY <1>4, <1>5, <2>1
<1>8. Types'
  <2>1. request' \in [Requests -> Request \cup {NoRequest}]
    BY <1>1, <1>2, <1>3 DEF Types
  <2>2. \A x \in usedCodes : x[2][1] <= setups'
    BY <1>1 DEF Types, Secrets
  <2>3. QED
    BY <1>1, <1>2, <1>6, <1>7, <2>1, <2>2 DEF Types
<1>9. SetupsAreFresh'
  <2>1. ASSUME NEW p \in Asked
        PROVE  /\ request[p].save.secret <= setups /\ request[p].seen.secret <= setups
               /\ request[p].save.secret \in Nat /\ request[p].seen.secret \in Nat
    BY <1>1 DEF Types, Asked, GoodRequest, GoodRow, Row, Secrets
  <2>2. \A u \in Users : rows[u].secret <= setups /\ rows[u].secret \in Nat
    BY <1>1 DEF Types, GoodRow, Row, Secrets
  <2>3. \A x \in usedCodes : x[2][1] <= setups /\ x[2][1] \in Nat
    BY <1>1 DEF Types, Secrets
  <2>4. setups \in Nat
    BY <1>1 DEF Types
  <2>5. ASSUME IsSetup(q)
        PROVE  /\ \A u \in Users : rows[u].secret # q.save.secret
               /\ \A p \in Asked : q.save.secret \notin {request[p].seen.secret, request[p].save.secret}
               /\ \A x \in usedCodes : x[2][1] # q.save.secret
    BY <2>1, <2>2, <2>3, <2>4, <2>5
  <2>6. ASSUME NEW p \in Asked, IsSetup(request[p])
        PROVE  request[p].save.secret \notin {q.seen.secret, q.save.secret}
    <3>1. request[p].save.secret # q.seen.secret
      BY <1>1, <1>3, <2>6 DEF SetupsAreFresh
    <3>2. CASE IsSetup(q)
      BY <2>4, <2>5, <2>6, <3>1, <3>2
    <3>3. CASE ~IsSetup(q)
      BY <2>6, <3>1, <3>3 DEF IsSetup
    <3>4. QED
      BY <3>2, <3>3
  <2>7. ASSUME NEW p \in Asked', IsSetup(request'[p])
        PROVE  /\ \A u \in Users : rows[u].secret # request'[p].save.secret
               /\ \A x \in usedCodes : x[2][1] # request'[p].save.secret
               /\ \A o \in Asked' \ {p} :
                    request'[p].save.secret \notin {request'[o].seen.secret, request'[o].save.secret}
    <3>1. CASE p = r
      BY <1>4, <1>5, <2>5, <2>7, <3>1 DEF Asked
    <3>2. CASE p # r
      BY <1>1, <1>4, <1>5, <2>6, <2>7, <3>2 DEF SetupsAreFresh, Asked
    <3>3. QED
      BY <3>1, <3>2
  <2>8. QED
    BY <1>2, <2>7 DEF SetupsAreFresh
<1>10. VersionsGrow'
  <2>1. rows[q.user].version \in Nat
    BY <1>1, <1>3 DEF Types, Row
  <2>2. q.seen.version <= rows[q.user].version
    BY <2>1
  <2>3. QED
    BY <1>1, <1>2, <1>4, <1>5, <2>2 DEF VersionsGrow, Asked
<1>11. TokensAreEarned'
  <2>1. \A t \in tokens : t.version <= count'
    BY <1>1, <1>2 DEF TokensAreEarned, Types, AnyToken
  <2>2. QED
    BY <1>1, <1>2, <2>1 DEF TokensAreEarned
<1>12. /\ EndedAreOld' /\ BarredAreOut' /\ UsedAreGone' /\ SecondFactorGiven' /\ EndedUnlessRaced'
  BY <1>1, <1>2 DEF EndedAreOld, BarredAreOut, UsedAreGone, SecondFactorGiven, EndedUnlessRaced,
                    SignsIn, Found
<1>13. QED
  BY <1>8, <1>9, <1>10, <1>11, <1>12 DEF IInv

-----------------------------------------------------------------------------
(* The copies the handlers save.                                           *)

\* A copy that leaves the second factor as it was, or clears it.
Keeps(copy, x) ==
  /\ copy \in Row /\ copy.alive
  /\ copy.version \in {x.version, x.version + 1}
  /\ \/ copy.totp = x.totp /\ copy.secret = x.secret /\ copy.codes \subseteq x.codes
     \/ ~copy.totp /\ copy.secret = NoSecret /\ copy.codes = {}

LEMMA KeptIsGood ==
  ASSUME NEW x, NEW n \in Nat, NEW s \in Nat, NEW p, GoodRow(x, n, s, p), NEW copy, Keeps(copy, x)
  PROVE  GoodRow(copy, n + 1, s, p)
<1>1. x.version \in Nat /\ x.secret \in Nat
  BY DEF GoodRow, Row, Secrets
<1>2. copy.version <= n + 1 /\ copy.secret <= s
  BY <1>1 DEF GoodRow, Keeps, NoSecret
<1>3. QED
  BY <1>2 DEF GoodRow, Keeps

LEMMA BumpedRow ==
  ASSUME NEW x \in Row
  PROVE  [x EXCEPT !.version = @ + 1] \in Row
BY DEF Row

\* The columns the handlers change.
LEMMA CopiesKeep ==
  ASSUME NEW x \in Row, x.alive, NEW role \in Roles, NEW enabled \in BOOLEAN, NEW codes,
         codes \subseteq x.codes
  PROVE  /\ Keeps(x, x) /\ Keeps(Bumped(x), x) /\ Keeps(Cleared(x), x)
         /\ Keeps([x EXCEPT !.version = @ + 1], x)
         /\ Keeps([x EXCEPT !.role = role, !.version = @ + 1], x)
         /\ Keeps([x EXCEPT !.codes = codes], x)
         /\ Keeps([Bumped(x) EXCEPT !.password = TRUE], x)
         /\ Keeps([x EXCEPT !.role = role, !.active = enabled], x)
         /\ Keeps([Bumped(x) EXCEPT !.role = role], x)
         /\ Keeps([x EXCEPT !.active = enabled, !.version = IF enabled THEN @ ELSE @ + 1], x)
<1> USE DEF Row, Keeps, Secrets
<1>1. Keeps(x, x)
  OBVIOUS
<1>2. Keeps(Bumped(x), x) /\ Keeps([x EXCEPT !.version = @ + 1], x)
  BY DEF Bumped
<1>3. Keeps(Cleared(x), x)
  BY DEF Cleared, NoSecret
<1>4. Keeps([x EXCEPT !.role = role, !.version = @ + 1], x)
  <2>1. [x EXCEPT !.role = role] \in Row
    OBVIOUS
  <2>2. [[x EXCEPT !.role = role] EXCEPT !.version = @ + 1] \in Row
    <3> HIDE DEF Row
    <3> QED
      BY <2>1, BumpedRow
  <2>3. [x EXCEPT !.role = role, !.version = @ + 1] \in Row
    BY <2>2
  <2>4. QED
    BY <2>3
<1>5. Keeps([x EXCEPT !.codes = codes], x)
  <2>1. [x EXCEPT !.codes = codes] \in Row
    OBVIOUS
  <2>2. QED
    BY <2>1
<1>6. Keeps([Bumped(x) EXCEPT !.password = TRUE], x)
  <2>1. Bumped(x) \in Row
    BY DEF Bumped
  <2>2. [Bumped(x) EXCEPT !.password = TRUE] \in Row
    BY <2>1
  <2>3. QED
    BY <2>2 DEF Bumped
<1>7. Keeps([x EXCEPT !.role = role, !.active = enabled], x)
  <2>1. [x EXCEPT !.role = role, !.active = enabled] \in Row
    OBVIOUS
  <2>2. QED
    BY <2>1
<1>8. Keeps([Bumped(x) EXCEPT !.role = role], x)
  <2>1. Bumped(x) \in Row
    BY DEF Bumped
  <2>2. [Bumped(x) EXCEPT !.role = role] \in Row
    BY <2>1
  <2>3. QED
    BY <2>2 DEF Bumped
<1>9. Keeps([x EXCEPT !.active = enabled, !.version = IF enabled THEN @ ELSE @ + 1], x)
  <2>1. CASE enabled
    <3>1. [x EXCEPT !.active = enabled] \in Row
      BY <2>1
    <3>2. QED
      BY <2>1, <3>1
  <2>2. CASE ~enabled
    <3>1. [x EXCEPT !.active = enabled] \in Row
      OBVIOUS
    <3>2. [[x EXCEPT !.active = enabled] EXCEPT !.version = @ + 1] \in Row
      <4> HIDE DEF Row
      <4> QED
        BY <3>1, BumpedRow
    <3>3. QED
      BY <2>2, <3>2
  <2>3. QED
    BY <2>1, <2>2
<1>10. QED
  BY <1>1, <1>2, <1>3, <1>4, <1>5, <1>6, <1>7, <1>8, <1>9

\* A request that saves such a copy.
LEMMA ReadIInv ==
  ASSUME AuthAssumption, IInv, NEW r \in Requests, NEW u \in Users, NEW copy, NEW grant,
         NEW stubborn \in BOOLEAN, NEW code, Found(u), Keeps(copy, rows[u]),
         Read(r, u, copy, grant, stubborn, code),
         stubborn => copy.version = rows[u].version,
         \A t \in grant : GoodGrant(t, u, copy.version),
         code \subseteq rows[u].codes, copy.codes \subseteq rows[u].codes \ code,
         UNCHANGED <<setups, past>>
  PROVE  IInv'
<1> DEFINE q == [user |-> u, seen |-> rows[u], save |-> copy, delete |-> FALSE,
                 grant |-> grant, stubborn |-> stubborn, code |-> code]
<1>1. Ask(r, q) /\ count' = count + 1 /\ count \in Nat /\ setups \in Nat
  BY DEF Read, Ask, IInv, Types
<1>2. GoodRow(rows[u], count, setups, proven) /\ rows[u] \in Row
  BY DEF IInv, Types
<1>3. GoodRow(rows[u], count', setups, proven) /\ GoodRow(copy, count', setups, proven)
  <2>1. GoodRow(copy, count', setups, proven)
    BY <1>1, <1>2, KeptIsGood
  <2>2. GoodRow(rows[u], count', setups, proven)
    BY <1>1, <1>2 DEF GoodRow, Row
  <2>3. QED
    BY <2>1, <2>2
<1>4. q \in Request
  <2>1. grant \subseteq AnyToken
    BY DEF GoodGrant
  <2>2. code \subseteq Secrets \X Codes /\ copy \in Row
    BY <1>2 DEF Row, Keeps
  <2>3. QED
    BY <1>2, <2>1, <2>2 DEF Request
<1>5. ~IsSetup(q) /\ rows[u].version <= copy.version /\ copy.alive
  BY <1>2 DEF IsSetup, Keeps, Row
<1>6. GoodRequest(q, count', setups, proven)
  BY <1>3, <1>4, <1>5 DEF GoodRequest, Found
<1>7. setups' = setups /\ proven' = proven /\ UNCHANGED <<ended, barred, usedCodes, raced, wrong>>
  BY DEF past
<1>8. QED
  BY <1>1, <1>5, <1>6, <1>7, AskIInv

LEMMA ChangeIInv ==
  ASSUME AuthAssumption, IInv, NEW r \in Requests, NEW u \in Users, NEW copy, Found(u),
         Keeps(copy, rows[u]), Change(r, u, copy)
  PROVE  IInv'
<1>1. copy.codes \subseteq rows[u].codes \ {}
  BY DEF Keeps
<1>2. PICK stubborn \in BOOLEAN : stubborn = FALSE
  OBVIOUS
<1>3. Read(r, u, copy, {}, stubborn, {}) /\ UNCHANGED <<setups, past>>
  BY <1>2 DEF Change
<1>4. \A t \in {} : GoodGrant(t, u, copy.version)
  OBVIOUS
<1>5. QED
  BY <1>1, <1>2, <1>3, <1>4, ReadIInv

LEMMA RemoveIInv ==
  ASSUME AuthAssumption, IInv, NEW r \in Requests, NEW u \in Users, Found(u), Remove(r, u)
  PROVE  IInv'
<1> DEFINE q == [user |-> u, seen |-> rows[u], save |-> rows[u], delete |-> TRUE,
                 grant |-> {}, stubborn |-> FALSE, code |-> {}]
<1>1. Ask(r, q) /\ count' = count + 1 /\ count \in Nat /\ setups \in Nat
  BY DEF Remove, Ask, IInv, Types
<1>2. GoodRow(rows[u], count', setups, proven) /\ rows[u] \in Row
  BY <1>1 DEF IInv, Types, GoodRow, Row
<1>3. q \in Request /\ ~IsSetup(q)
  BY <1>2 DEF Request, IsSetup
<1>4. GoodRequest(q, count', setups, proven)
  BY <1>2, <1>3 DEF GoodRequest, Found, Row
<1>5. setups' = setups /\ proven' = proven /\ UNCHANGED <<ended, barred, usedCodes, raced, wrong>>
  BY DEF Remove, past
<1>6. QED
  BY <1>1, <1>3, <1>4, <1>5, AskIInv

-----------------------------------------------------------------------------
(* Every handler that reads a row to save it.                              *)

LEMMA GrantsAreGood ==
  ASSUME NEW row, row.version \in Nat, NEW u \in Users
  PROVE  /\ \A t \in Session(row, u, TRUE) : GoodGrant(t, u, row.version)
         /\ \A t \in FirstFactor(row, u) : GoodGrant(t, u, row.version)
<1>1. \A t \in Session(row, u, TRUE) : GoodGrant(t, u, row.version)
  <2>1. ASSUME NEW type \in {"access", "refresh"}
        PROVE  GoodGrant(Token(type, u, row.version, TRUE), u, row.version)
    BY DEF Token, GoodGrant, AnyToken, TokenTypes
  <2>2. QED
    BY <2>1 DEF Session, Pair
<1>2. GoodGrant(TempToken(u), u, row.version)
  BY DEF TempToken, Token, GoodGrant, AnyToken, TokenTypes
<1>3. QED
  BY <1>1, <1>2 DEF FirstFactor

\* What IInv says of a row and of a token.
LEMMA RowsAndTokens ==
  ASSUME IInv
  PROVE  /\ \A u \in Users : rows[u] \in Row /\ rows[u].version \in Nat /\ GoodRow(rows[u], count, setups, proven)
         /\ \A t \in tokens : /\ t \in AnyToken /\ t.user \in Users
                              /\ t.type # "2fa" => t.proved = TRUE
         /\ count \in Nat /\ setups \in Nat
BY DEF IInv, Types, TokensAreEarned, Row, AnyToken

\* A sign-in saves the row as it was read.
LEMMA SignInIInv ==
  ASSUME AuthAssumption, IInv, NEW r \in Requests, NEW u \in Users,
         Login(r, u) \/ IssueLoginForUser(r, u) \/ HandleCallback(r, u)
  PROVE  IInv'
<1>1. Found(u) /\ UNCHANGED <<setups, past>>
  BY DEF Login, IssueLoginForUser, HandleCallback, SignsIn
<1>2. PICK stubborn \in BOOLEAN : stubborn = TRUE
  OBVIOUS
<1>3. PICK grant : /\ Read(r, u, rows[u], grant, stubborn, {})
                   /\ grant \in {FirstFactor(rows[u], u), Session(rows[u], u, TRUE)}
  BY <1>2 DEF Login, IssueLoginForUser, HandleCallback
<1>4. \A t \in grant : GoodGrant(t, u, rows[u].version)
  BY <1>3, GrantsAreGood, RowsAndTokens
<1>5. Keeps(rows[u], rows[u]) /\ rows[u].codes \subseteq rows[u].codes \ {} /\ {} \subseteq rows[u].codes
  BY <1>1, RowsAndTokens DEF Keeps, Found
<1>6. QED
  BY <1>1, <1>3, <1>4, <1>5, ReadIInv

LEMMA ReconciledKeeps ==
  ASSUME NEW u \in Users, rows[u] \in Row, Found(u), NEW role \in DirectoryRoles
  PROVE  /\ Keeps(Reconciled(u, role), rows[u])
         /\ Reconciled(u, role).codes = rows[u].codes
         /\ Reconciled(u, role).version \in Nat
<1>1. rows[u].alive /\ role \in Roles /\ TRUE \in BOOLEAN /\ rows[u].codes \subseteq rows[u].codes
  BY DEF Found, DirectoryRoles
<1>2. Keeps(Reconciled(u, role), rows[u])
  BY <1>1, CopiesKeep DEF Reconciled
<1>3. Reconciled(u, role).codes = rows[u].codes /\ Reconciled(u, role).version \in Nat
  BY DEF Reconciled, Row
<1>4. QED
  BY <1>2, <1>3

LEMMA LoginDirectoryIInv ==
  ASSUME AuthAssumption, IInv, NEW r \in Requests, NEW u \in Users, NEW role \in DirectoryRoles,
         LoginDirectory(r, u, role)
  PROVE  IInv'
<1> DEFINE row == Reconciled(u, role)
<1>1. Found(u) /\ UNCHANGED <<setups, past>>
  BY DEF LoginDirectory, SignsIn
<1>2. PICK stubborn \in BOOLEAN : stubborn = FALSE
  OBVIOUS
<1>3. Read(r, u, row, FirstFactor(row, u), stubborn, {})
  BY <1>2 DEF LoginDirectory
<1>4. Keeps(row, rows[u]) /\ row.codes = rows[u].codes /\ row.version \in Nat
  BY <1>1, RowsAndTokens, ReconciledKeeps
<1> HIDE DEF row
<1>5. \A t \in FirstFactor(row, u) : GoodGrant(t, u, row.version)
  BY <1>4, GrantsAreGood
<1>6. {} \subseteq rows[u].codes /\ row.codes \subseteq rows[u].codes \ {}
  BY <1>4
<1>7. QED
  BY <1>1, <1>2, <1>3, <1>4, <1>5, <1>6, ReadIInv

LEMMA UseRecoveryCodeIInv ==
  ASSUME AuthAssumption, IInv, NEW r \in Requests, NEW t \in tokens, NEW code,
         UseRecoveryCode(r, t, code)
  PROVE  IInv'
<1> DEFINE u == t.user
           copy == [rows[u] EXCEPT !.codes = Consume(@, code)]
<1>1. u \in Users /\ rows[u] \in Row /\ rows[u].version \in Nat
  BY RowsAndTokens
<1>2. Found(u) /\ UNCHANGED <<setups, past>> /\ code \in rows[u].codes
  BY DEF UseRecoveryCode, SignsIn
<1>3. PICK stubborn \in BOOLEAN : stubborn = FALSE
  OBVIOUS
<1>4. Read(r, u, copy, Session(rows[u], u, TRUE), stubborn, {code})
  BY <1>3 DEF UseRecoveryCode
<1>5. /\ copy \in Row /\ copy.alive /\ copy.version = rows[u].version
      /\ copy.totp = rows[u].totp /\ copy.secret = rows[u].secret
      /\ copy.codes = rows[u].codes \ {code}
  <2>1. Consume(rows[u].codes, code) \in SUBSET (Secrets \X Codes)
    BY <1>1 DEF Consume, Row
  <2>2. QED
    BY <1>1, <1>2, <2>1 DEF Found, Row, Consume
<1> HIDE DEF copy
<1>6. Keeps(copy, rows[u])
  BY <1>5 DEF Keeps
<1>7. \A x \in Session(rows[u], u, TRUE) : GoodGrant(x, u, copy.version)
  BY <1>1, <1>5, GrantsAreGood
<1>8. {code} \subseteq rows[u].codes /\ copy.codes \subseteq rows[u].codes \ {code}
  BY <1>2, <1>5
<1> HIDE DEF u
<1>9. QED
  BY <1>1, <1>2, <1>3, <1>4, <1>6, <1>7, <1>8, ReadIInv

LEMMA RefreshDirectoryIInv ==
  ASSUME AuthAssumption, IInv, NEW r \in Requests, NEW t \in tokens, NEW role \in DirectoryRoles,
         RefreshDirectory(r, t, role)
  PROVE  IInv'
<1> DEFINE u == t.user
           row == Reconciled(u, role)
           grant == IF t.version = row.version THEN Session(row, u, t.proved) ELSE {}
<1>1. u \in Users /\ rows[u] \in Row
  BY RowsAndTokens
<1>2. Found(u) /\ UNCHANGED <<setups, past>>
  BY DEF RefreshDirectory, SignsIn
<1>3. PICK stubborn \in BOOLEAN : stubborn = FALSE
  OBVIOUS
<1>4. Read(r, u, row, grant, stubborn, {})
  BY <1>3 DEF RefreshDirectory
<1>5. Keeps(row, rows[u]) /\ row.codes = rows[u].codes /\ row.version \in Nat
  BY <1>1, <1>2, ReconciledKeeps
<1>6. t.proved = TRUE
  BY RowsAndTokens DEF RefreshDirectory, Parses
<1> HIDE DEF row
<1>7. \A x \in grant : GoodGrant(x, u, row.version)
  BY <1>1, <1>5, <1>6, GrantsAreGood
<1>8. {} \subseteq rows[u].codes /\ row.codes \subseteq rows[u].codes \ {}
  BY <1>5
<1> HIDE DEF u, grant
<1>9. QED
  BY <1>1, <1>2, <1>3, <1>4, <1>5, <1>7, <1>8, ReadIInv

\* Setup2FA: a new secret with its codes, and nothing switched on.
LEMMA Setup2FAIInv ==
  ASSUME AuthAssumption, IInv, NEW r \in Requests, NEW t \in tokens, Setup2FA(r, t)
  PROVE  IInv'
<1> DEFINE u == t.user
           copy == [rows[u] EXCEPT !.secret = setups + 1, !.codes = AllCodes(setups + 1)]
           q == [user |-> u, seen |-> rows[u], save |-> copy, delete |-> FALSE,
                 grant |-> {}, stubborn |-> FALSE, code |-> {}]
<1>1. /\ u \in Users /\ rows[u] \in Row /\ rows[u].alive /\ ~rows[u].totp
      /\ GoodRow(rows[u], count, setups, proven) /\ count \in Nat /\ setups \in Nat
  BY RowsAndTokens DEF Setup2FA, Admitted, SignsIn, Found
<1>2. Ask(r, q) /\ count' = count + 1 /\ setups' = setups + 1 /\ UNCHANGED past
  BY DEF Setup2FA, Read, Ask
<1>3. /\ copy \in Row /\ copy.alive /\ copy.version = rows[u].version /\ copy.totp = rows[u].totp
      /\ copy.secret = setups + 1 /\ copy.codes = AllCodes(setups + 1)
  <2> DEFINE x == [rows[u] EXCEPT !.secret = setups + 1]
  <2>1. AllCodes(setups + 1) \in SUBSET (Secrets \X Codes)
    BY <1>1 DEF AllCodes, Secrets
  <2>2. /\ x \in Row /\ x.alive /\ x.version = rows[u].version /\ x.totp = rows[u].totp
        /\ x.secret = setups + 1
    BY <1>1 DEF Row, Secrets
  <2>3. copy = [x EXCEPT !.codes = AllCodes(setups + 1)]
    BY <1>1 DEF Row
  <2> HIDE DEF copy, x
  <2>4. QED
    BY <2>1, <2>2, <2>3 DEF Row
<1> HIDE DEF copy
<1>4. GoodRow(rows[u], count', setups', proven) /\ GoodRow(copy, count', setups', proven)
  <2>1. GoodRow(rows[u], count', setups', proven)
    BY <1>1, <1>2, GoodRowGrows
  <2>2. QED
    BY <1>1, <1>2, <1>3, <2>1 DEF GoodRow, NoSecret
<1>5. q \in Request
  BY <1>1, <1>3 DEF Request
<1>6. IsSetup(q) /\ q.save.secret = setups' /\ q.seen = rows[q.user]
  <2>1. rows[u].secret <= setups /\ rows[u].secret \in Nat
    BY <1>1 DEF GoodRow, Row, Secrets
  <2>2. QED
    BY <1>1, <1>2, <1>3, <2>1 DEF IsSetup, NoSecret
<1>7. rows[u].version \in Nat
  BY <1>1 DEF Row
<1>8. GoodRequest(q, count', setups', proven)
  BY <1>1, <1>3, <1>4, <1>5, <1>6, <1>7 DEF GoodRequest
<1>9. setups' \in Nat /\ setups <= setups' /\ proven' = proven /\ UNCHANGED <<ended, barred, usedCodes, raced, wrong>>
  BY <1>1, <1>2 DEF past
<1> HIDE DEF q, u
<1>10. QED
  BY <1>2, <1>6, <1>8, <1>9, AskIInv

\* Enable2FA: the secret that is switched on has just been proven.
LEMMA Enable2FAIInv ==
  ASSUME AuthAssumption, IInv, NEW r \in Requests, NEW t \in tokens, Enable2FA(r, t)
  PROVE  IInv'
<1> DEFINE u == t.user
           copy == [rows[u] EXCEPT !.totp = TRUE]
           q == [user |-> u, seen |-> rows[u], save |-> copy, delete |-> FALSE,
                 grant |-> {}, stubborn |-> FALSE, code |-> {}]
<1>1. /\ u \in Users /\ rows[u] \in Row /\ rows[u].alive /\ ~rows[u].totp
      /\ GoodRow(rows[u], count, setups, proven) /\ count \in Nat /\ setups \in Nat
  BY RowsAndTokens DEF Enable2FA, Admitted, SignsIn, Found
<1>2. /\ Ask(r, q) /\ count' = count + 1 /\ setups' = setups /\ proven' = proven \cup {rows[u].secret}
      /\ UNCHANGED <<ended, barred, usedCodes, raced, wrong>>
  BY DEF Enable2FA, Read, Ask
<1>3. /\ copy \in Row /\ copy.alive /\ copy.version = rows[u].version /\ copy.totp
      /\ copy.secret = rows[u].secret /\ copy.codes = rows[u].codes
  BY <1>1 DEF Row
<1> HIDE DEF copy
<1>4. GoodRow(rows[u], count', setups', proven') /\ GoodRow(copy, count', setups', proven')
  <2>1. GoodRow(rows[u], count', setups', proven')
    BY <1>1, <1>2, GoodRowGrows
  <2>2. QED
    BY <1>1, <1>2, <1>3, <2>1 DEF GoodRow
<1>5. q \in Request
  BY <1>1, <1>3 DEF Request
<1>6. ~IsSetup(q) /\ q.seen = rows[q.user]
  BY <1>3 DEF IsSetup
<1>7. rows[u].version \in Nat
  BY <1>1 DEF Row
<1>8. GoodRequest(q, count', setups', proven')
  BY <1>1, <1>3, <1>4, <1>5, <1>6, <1>7 DEF GoodRequest
<1>9. setups' \in Nat /\ setups <= setups' /\ proven \subseteq proven'
  BY <1>1, <1>2
<1> HIDE DEF q, u
<1>10. QED
  BY <1>2, <1>6, <1>8, <1>9, AskIInv

\* The other changes of an account by its user.
LEMMA OwnChangeIInv ==
  ASSUME AuthAssumption, IInv, NEW r \in Requests, NEW t \in tokens,
         IdentityLost(r, t) \/ Disable2FA(r, t) \/ ChangePassword(r, t)
  PROVE  IInv'
<1>1. t.user \in Users /\ rows[t.user] \in Row /\ rows[t.user].codes \subseteq rows[t.user].codes
  BY RowsAndTokens
<1>2. Found(t.user)
  BY DEF IdentityLost, Disable2FA, ChangePassword, Admitted, SignsIn
<1>3. "viewer" \in Roles
  BY DEF Roles
<1>4. /\ Keeps(Bumped(rows[t.user]), rows[t.user]) /\ Keeps(Cleared(rows[t.user]), rows[t.user])
      /\ Keeps([rows[t.user] EXCEPT !.version = @ + 1], rows[t.user])
  <2>1. PICK b \in BOOLEAN : b = TRUE
    OBVIOUS
  <2>2. rows[t.user].alive
    BY <1>2 DEF Found
  <2>3. QED
    BY <1>1, <1>3, <2>1, <2>2, CopiesKeep
<1>5. CASE IdentityLost(r, t)
  BY <1>1, <1>2, <1>4, <1>5, ChangeIInv DEF IdentityLost
<1>6. CASE Disable2FA(r, t)
  BY <1>1, <1>2, <1>4, <1>6, ChangeIInv DEF Disable2FA
<1>7. CASE ChangePassword(r, t)
  BY <1>1, <1>2, <1>4, <1>7, ChangeIInv DEF ChangePassword
<1>8. QED
  BY <1>5, <1>6, <1>7

\* The changes of an account by others.
LEMMA ManageIInv ==
  ASSUME AuthAssumption, IInv, NEW r \in Requests, NEW u \in Users, ManageStep(r, u)
  PROVE  IInv'
<1>1. rows[u] \in Row /\ rows[u].codes \subseteq rows[u].codes
  BY RowsAndTokens
<1>2. Found(u)
  BY DEF ManageStep, Clear2FA, ResetUserPassword, DeleteUserByName, SetUserRole, SetUserActive,
         DeleteUser, ResetPassword, SaveSettings, UpdateUser, Spared
<1>3. rows[u].alive
  BY <1>2 DEF Found
<1>4. ASSUME NEW role \in Roles, NEW enabled \in BOOLEAN
      PROVE  /\ Keeps(Bumped(rows[u]), rows[u]) /\ Keeps(Cleared(rows[u]), rows[u])
             /\ Keeps([Bumped(rows[u]) EXCEPT !.password = TRUE], rows[u])
             /\ Keeps([rows[u] EXCEPT !.role = role, !.active = enabled], rows[u])
             /\ Keeps([Bumped(rows[u]) EXCEPT !.role = role], rows[u])
             /\ Keeps([rows[u] EXCEPT !.active = enabled, !.version = IF enabled THEN @ ELSE @ + 1], rows[u])
  BY <1>1, <1>3, CopiesKeep
<1>5. PICK viewer \in Roles, on \in BOOLEAN : viewer = "viewer" /\ on = TRUE
  BY DEF Roles
<1>6. CASE Clear2FA(r, u)
  BY <1>2, <1>4, <1>5, <1>6, ChangeIInv DEF Clear2FA
<1>7. CASE ResetUserPassword(r, u)
  BY <1>2, <1>4, <1>5, <1>7, ChangeIInv DEF ResetUserPassword
<1>8. CASE DeleteUserByName(r, u) \/ \E caller \in Users : DeleteUser(r, caller, u)
  BY <1>2, <1>8, RemoveIInv DEF DeleteUserByName, DeleteUser
<1>9. CASE \E role \in Roles : SetUserRole(r, u, role)
  <2>1. PICK role \in Roles : Change(r, u, [Bumped(rows[u]) EXCEPT !.role = role])
    BY <1>9 DEF SetUserRole
  <2>2. QED
    BY <1>2, <1>4, <1>5, <2>1, ChangeIInv
<1>10. CASE \E enabled \in BOOLEAN : SetUserActive(r, u, enabled)
  <2>1. PICK enabled \in BOOLEAN :
          Change(r, u, [rows[u] EXCEPT !.active = enabled, !.version = IF enabled THEN @ ELSE @ + 1])
    BY <1>10 DEF SetUserActive
  <2>2. QED
    BY <1>2, <1>4, <1>5, <2>1, ChangeIInv
<1>11. CASE \E caller \in Users : ResetPassword(r, caller, u) \/ SaveSettings(r, caller, u)
  BY <1>2, <1>4, <1>5, <1>11, ChangeIInv DEF ResetPassword, SaveSettings
<1>12. CASE \E caller \in Users, role \in Roles, enabled \in BOOLEAN : UpdateUser(r, caller, u, role, enabled)
  <2>1. PICK role \in Roles, enabled \in BOOLEAN :
          Change(r, u, [rows[u] EXCEPT !.role = role, !.active = enabled])
    BY <1>12 DEF UpdateUser
  <2>2. QED
    BY <1>2, <1>4, <2>1, ChangeIInv
<1>13. QED
  BY <1>6, <1>7, <1>8, <1>9, <1>10, <1>11, <1>12 DEF ManageStep

-----------------------------------------------------------------------------
(* A request that saves and answers.                                       *)

\* What IInv says of a request under way.
LEMMA RequestFacts ==
  ASSUME IInv, NEW r \in Requests, request[r] # NoRequest
  PROVE  /\ r \in Asked /\ request[r] \in Request /\ request[r].user \in Users
         /\ GoodRequest(request[r], count, setups, proven)
         /\ request[r].seen \in Row /\ request[r].save \in Row
         /\ request[r].seen.version \in Nat /\ request[r].save.version \in Nat
         /\ request[r].save.version <= count
BY DEF IInv, Types, Asked, GoodRequest, GoodRow, Request, Row

LEMMA AnsweredAsked ==
  ASSUME IInv, NEW r \in Requests, request[r] # NoRequest,
         request' = [request EXCEPT ![r] = NoRequest]
  PROVE  /\ Asked' = Asked \ {r}
         /\ \A p \in Asked' : request'[p] = request[p]
         /\ request' \in [Requests -> Request \cup {NoRequest}]
BY DEF IInv, Types, Asked

LEMMA GrantedTokens ==
  ASSUME IInv, NEW r \in Requests, request[r] # NoRequest, NEW t \in request[r].grant
  PROVE  /\ t \in AnyToken /\ t.user = request[r].user /\ t.version <= count /\ t.version \in Nat
         /\ t.type # "2fa" => t.proved /\ t.version = request[r].save.version
<1>1. GoodGrant(t, request[r].user, request[r].save.version)
  BY RequestFacts DEF GoodRequest
<1>2. count \in Nat
  BY RowsAndTokens
<1>3. t.version \in Nat
  BY <1>1 DEF GoodGrant, AnyToken
<1>4. t.version <= count
  BY <1>1, <1>2, <1>3, RequestFacts DEF GoodGrant
<1>5. QED
  BY <1>1, <1>3, <1>4 DEF GoodGrant

LEMMA NotSavedIInv ==
  ASSUME AuthAssumption, IInv, NEW r \in Requests, NotSaved(r),
         request' = [request EXCEPT ![r] = NoRequest], UNCHANGED <<key, bounds>>
  PROVE  IInv'
<1> DEFINE q == request[r]
<1>1. /\ Types /\ SetupsAreFresh /\ VersionsGrow /\ TokensAreEarned /\ EndedAreOld
      /\ BarredAreOut /\ UsedAreGone /\ SecondFactorGiven /\ EndedUnlessRaced
  BY DEF IInv
<1>2. /\ q # NoRequest /\ UNCHANGED <<rows, key, count, setups, proven, ended, barred, usedCodes, raced, wrong>>
      /\ tokens \subseteq tokens' /\ tokens' \subseteq tokens \cup q.grant
      /\ \A t \in tokens' \ tokens : q.stubborn /\ t \in q.grant
  BY DEF NotSaved, past, bounds
<1>3. /\ Asked' = Asked \ {r} /\ \A p \in Asked' : request'[p] = request[p]
      /\ request' \in [Requests -> Request \cup {NoRequest}]
  BY <1>2, AnsweredAsked
<1>4. Types'
  <2>1. tokens' \subseteq AnyToken
    BY <1>1, <1>2, GrantedTokens DEF Types
  <2>2. QED
    BY <1>1, <1>2, <1>3, <2>1 DEF Types
<1>5. SetupsAreFresh' /\ VersionsGrow'
  BY <1>1, <1>2, <1>3 DEF SetupsAreFresh, VersionsGrow
<1>6. TokensAreEarned'
  <2>1. ASSUME NEW t \in tokens' \ tokens
        PROVE  /\ t.version <= count
               /\ t.type # "2fa" => t.proved
               /\ t.type \in {"access", "refresh"} /\ t.user \notin raced => t.version <= rows[t.user].version
    <3>1. /\ t.user = q.user /\ t.version <= count
          /\ t.type # "2fa" => t.proved /\ t.version = q.save.version
      BY <1>2, GrantedTokens
    <3>2. q.save.version = q.seen.version
      BY <1>2, RequestFacts DEF GoodRequest
    <3>3. t.user \in raced \/ q.seen.version <= rows[t.user].version
      BY <1>1, <1>2, <3>1, RequestFacts DEF VersionsGrow
    <3>4. QED
      BY <3>1, <3>2, <3>3
  <2>2. QED
    BY <1>1, <1>2, <2>1 DEF TokensAreEarned
<1>7. EndedAreOld' /\ BarredAreOut' /\ UsedAreGone' /\ SecondFactorGiven' /\ EndedUnlessRaced'
  BY <1>1, <1>2 DEF EndedAreOld, BarredAreOut, UsedAreGone, SecondFactorGiven, EndedUnlessRaced,
                    SignsIn, Found
<1>8. QED
  BY <1>4, <1>5, <1>6, <1>7 DEF IInv

\* What a save writes, and what it means that it went over nothing unread.
LEMMA SaveFacts ==
  ASSUME IInv, NEW r \in Requests, Saved(r)
  PROVE  LET q == request[r]  u == q.user  w == Written(q) IN
         /\ w \in Row /\ w.version \in Nat /\ GoodRow(w, count, setups, proven)
         /\ rows' = [rows EXCEPT ![u] = w] /\ rows'[u] = w
         /\ \A v \in Users : v # u => rows'[v] = rows[v]
         /\ raced \subseteq raced' /\ raced' \subseteq raced \cup {u}
         /\ q.delete => /\ ~w.alive /\ w.version = rows[u].version /\ w.codes = rows[u].codes
                        /\ w.secret = rows[u].secret
                        /\ q.grant = {} /\ q.code = {} /\ q.save = q.seen
         /\ ~q.delete => w = q.save
         /\ u \notin raced' => u \notin raced /\ (q.delete \/ rows[u] = q.seen)
         /\ u \notin raced' => rows[u].version <= w.version
<1> DEFINE q == request[r]
           u == q.user
           w == Written(q)
<1>1. /\ q # NoRequest /\ rows' = [rows EXCEPT ![u] = w]
      /\ raced' = IF Overwrites(q) THEN raced \cup {u} ELSE raced
  BY DEF Saved
<1>2. /\ u \in Users /\ q \in Request /\ GoodRequest(q, count, setups, proven)
      /\ q.seen \in Row /\ q.save \in Row /\ q.delete \in BOOLEAN
      /\ q.seen.version \in Nat /\ q.save.version \in Nat
  BY <1>1, RequestFacts DEF Request
<1>3. rows[u] \in Row /\ GoodRow(rows[u], count, setups, proven) /\ rows[u].version \in Nat
  BY <1>2, RowsAndTokens
<1>4. ASSUME q.delete
      PROVE  /\ w \in Row /\ ~w.alive /\ w.version = rows[u].version /\ w.codes = rows[u].codes
             /\ w.totp = rows[u].totp /\ w.secret = rows[u].secret
             /\ q.grant = {} /\ q.code = {} /\ q.save = q.seen
  <2>1. w = [rows[u] EXCEPT !.alive = FALSE]
    BY <1>4 DEF Written
  <2>2. q.grant = {} /\ q.code = {} /\ q.save = q.seen
    BY <1>2, <1>4 DEF GoodRequest
  <2> HIDE DEF w
  <2>3. QED
    BY <1>3, <2>1, <2>2 DEF Row
<1>5. ASSUME ~q.delete
      PROVE  w = q.save
  BY <1>5 DEF Written
<1>6. w \in Row /\ w.version \in Nat /\ GoodRow(w, count, setups, proven)
  <2>1. CASE q.delete
    BY <1>3, <1>4, <2>1 DEF GoodRow
  <2>2. CASE ~q.delete
    BY <1>2, <1>5, <2>2 DEF GoodRequest
  <2>3. QED
    BY <2>1, <2>2
<1>7. rows'[u] = w /\ \A v \in Users : v # u => rows'[v] = rows[v]
  BY <1>1, <1>2 DEF IInv, Types
<1>8. raced \subseteq raced' /\ raced' \subseteq raced \cup {u}
  BY <1>1
<1>9. u \notin raced' => u \notin raced /\ (q.delete \/ rows[u] = q.seen)
  BY <1>1 DEF Overwrites
<1>10. u \notin raced' => rows[u].version <= w.version
  <2>1. q.seen.version <= q.save.version
    BY <1>2 DEF GoodRequest
  <2>2. QED
    BY <1>2, <1>3, <1>4, <1>5, <1>9, <2>1
<1>11. QED
  BY <1>1, <1>4, <1>5, <1>6, <1>7, <1>8, <1>9, <1>10

LEMMA SavedIInv ==
  ASSUME AuthAssumption, IInv, NEW r \in Requests, Saved(r),
         request' = [request EXCEPT ![r] = NoRequest], UNCHANGED <<key, bounds>>
  PROVE  IInv'
<1> DEFINE q == request[r]
           u == q.user
           w == Written(q)
<1>1. /\ Types /\ SetupsAreFresh /\ VersionsGrow /\ TokensAreEarned /\ EndedAreOld
      /\ BarredAreOut /\ UsedAreGone /\ SecondFactorGiven /\ EndedUnlessRaced
  BY DEF IInv
<1>2. /\ q # NoRequest /\ tokens' = tokens \cup q.grant /\ UNCHANGED <<key, count, setups, proven>>
      /\ ended' = IF Bumps(q) THEN ended \cup SessionsOf(u) ELSE ended
      /\ barred' = (barred \ {v \in {u} : Enables(q)}) \cup {v \in {u} : Disables(q)}
      /\ usedCodes' = usedCodes \cup ({u} \X q.code)
      /\ Blame(u, IF ({u} \X q.code) \cap usedCodes # {} THEN {"reused"} ELSE {})
  BY DEF Saved, bounds
<1>3. /\ Asked' = Asked \ {r} /\ \A p \in Asked' : request'[p] = request[p]
      /\ request' \in [Requests -> Request \cup {NoRequest}]
  BY <1>2, AnsweredAsked
<1>4. /\ r \in Asked /\ q \in Request /\ u \in Users /\ GoodRequest(q, count, setups, proven)
      /\ q.seen \in Row /\ q.save \in Row /\ q.delete \in BOOLEAN
      /\ q.seen.version \in Nat /\ q.save.version \in Nat
  BY <1>2, RequestFacts DEF Request
<1>5. /\ w \in Row /\ w.version \in Nat /\ GoodRow(w, count, setups, proven)
      /\ rows' = [rows EXCEPT ![u] = w] /\ rows'[u] = w
      /\ \A v \in Users : v # u => rows'[v] = rows[v]
      /\ raced \subseteq raced' /\ raced' \subseteq raced \cup {u}
  BY SaveFacts
<1>6. /\ q.delete => /\ ~w.alive /\ w.version = rows[u].version /\ w.codes = rows[u].codes
                     /\ w.secret = rows[u].secret
                     /\ q.grant = {} /\ q.code = {} /\ q.save = q.seen
      /\ ~q.delete => w = q.save
  BY SaveFacts
<1>7. /\ u \notin raced' => u \notin raced /\ (q.delete \/ rows[u] = q.seen)
      /\ u \notin raced' => rows[u].version <= w.version
  BY SaveFacts
<1>8. \A v \in Users : rows[v] \in Row /\ rows[v].version \in Nat
  BY RowsAndTokens
<1>9. ASSUME NEW v \in Users, v \notin raced'
      PROVE  v \notin raced /\ rows[v].version <= rows'[v].version /\ rows'[v].version \in Nat
  BY <1>5, <1>7, <1>8, <1>9
<1> HIDE DEF w
<1>10. \A c \in q.code : c[1] = q.seen.secret /\ c[1] <= setups /\ c \in q.seen.codes /\ c \in Secrets \X Codes
  BY <1>4 DEF GoodRequest, GoodRow, AllCodes, Row
<1>11. Types'
  <2>1. rows' \in [Users -> Row] /\ \A v \in Users : GoodRow(rows'[v], count, setups, proven)
    BY <1>1, <1>4, <1>5 DEF Types
  <2>2. tokens' \subseteq AnyToken /\ ended' \subseteq tokens'
    BY <1>1, <1>2, GrantedTokens DEF Types, SessionsOf
  <2>3. barred' \subseteq Users /\ raced' \subseteq Users
    BY <1>1, <1>2, <1>4, <1>5 DEF Types
  <2>4. usedCodes' \subseteq Users \X (Secrets \X Codes) /\ \A x \in usedCodes' : x[2][1] <= setups
    BY <1>1, <1>2, <1>4, <1>10 DEF Types
  <2>5. wrong' \in [Users -> SUBSET Wrongs]
    BY <1>1, <1>2, <1>4 DEF Types, Blame, Wrongs
  <2>6. \A p \in Asked' : GoodRequest(request'[p], count, setups, proven)
    BY <1>1, <1>3 DEF Types
  <2>7. QED
    BY <1>1, <1>2, <1>3, <2>1, <2>2, <2>3, <2>4, <2>5, <2>6 DEF Types
<1>12. SetupsAreFresh'
  <2>1. ASSUME NEW p \in Asked', IsSetup(request'[p])
        PROVE  /\ \A v \in Users : rows'[v].secret # request'[p].save.secret
               /\ \A o \in Asked' \ {p} : request'[p].save.secret \notin {request'[o].seen.secret, request'[o].save.secret}
               /\ \A x \in usedCodes' : x[2][1] # request'[p].save.secret
    <3>1. /\ p \in Asked /\ p # r /\ request'[p] = request[p] /\ IsSetup(request[p])
      BY <1>3, <2>1
    <3>2. /\ \A v \in Users : rows[v].secret # request[p].save.secret
          /\ \A o \in Asked \ {p} : request[p].save.secret \notin {request[o].seen.secret, request[o].save.secret}
          /\ \A x \in usedCodes : x[2][1] # request[p].save.secret
      BY <1>1, <3>1 DEF SetupsAreFresh
    <3>3. request[p].save.secret \notin {q.seen.secret, q.save.secret}
      BY <1>4, <3>1, <3>2
    <3>4. \A v \in Users : rows'[v].secret # request[p].save.secret
      BY <1>4, <1>5, <1>6, <3>2, <3>3
    <3>5. \A x \in usedCodes' : x[2][1] # request[p].save.secret
      BY <1>2, <1>10, <3>2, <3>3
    <3>6. QED
      BY <1>3, <3>1, <3>2, <3>4, <3>5
  <2>2. QED
    BY <2>1 DEF SetupsAreFresh
<1>13. VersionsGrow'
  <2>1. ASSUME NEW p \in Asked', request'[p].user \notin raced'
        PROVE  request'[p].seen.version <= rows'[request'[p].user].version
    <3>1. /\ p \in Asked /\ request'[p] = request[p] /\ request[p].user \in Users
          /\ request[p].seen.version \in Nat
      BY <1>3, RequestFacts DEF Asked
    <3>2. request[p].seen.version <= rows[request[p].user].version
      BY <1>1, <1>9, <2>1, <3>1 DEF VersionsGrow
    <3>3. QED
      BY <1>8, <1>9, <2>1, <3>1, <3>2
  <2>2. QED
    BY <2>1 DEF VersionsGrow
<1>14. TokensAreEarned'
  <2>1. ASSUME NEW t \in tokens, t.type \in {"access", "refresh"}, t.user \notin raced'
        PROVE  t.version <= rows'[t.user].version
    <3>1. t.user \in Users /\ t.version \in Nat
      BY RowsAndTokens DEF AnyToken
    <3>2. t.version <= rows[t.user].version
      BY <1>1, <1>9, <2>1, <3>1 DEF TokensAreEarned
    <3>3. QED
      BY <1>8, <1>9, <2>1, <3>1, <3>2
  <2>2. ASSUME NEW t \in q.grant
        PROVE  /\ t.version <= count
               /\ t.type # "2fa" => t.proved
               /\ t.type # "2fa" => t.version <= rows'[t.user].version
    <3>1. /\ t.user = u /\ t.version <= count
          /\ t.type # "2fa" => t.proved /\ t.version = q.save.version
      BY <1>2, GrantedTokens
    <3>2. rows'[u].version = q.save.version
      BY <1>5, <1>6, <2>2
    <3>3. QED
      BY <1>4, <3>1, <3>2
  <2>3. QED
    BY <1>1, <1>2, <2>1, <2>2 DEF TokensAreEarned
<1>15. EndedAreOld'
  <2>1. ASSUME NEW t \in ended, t.user \notin raced'
        PROVE  t.version < rows'[t.user].version
    <3>1. t.user \in Users /\ t.version \in Nat
      BY <1>1, RowsAndTokens DEF AnyToken, Types
    <3>2. t.version < rows[t.user].version
      BY <1>1, <1>9, <2>1, <3>1 DEF EndedAreOld
    <3>3. QED
      BY <1>8, <1>9, <2>1, <3>1, <3>2
  <2>2. ASSUME Bumps(q), NEW t \in SessionsOf(u), u \notin raced'
        PROVE  t.version < rows'[t.user].version
    <3>1. t \in tokens /\ t.user = u /\ t.type \in {"access", "refresh"} /\ t.version \in Nat
      BY <2>2, RowsAndTokens DEF SessionsOf, AnyToken
    <3>2. t.version <= rows[u].version
      BY <1>1, <1>7, <2>2, <3>1 DEF TokensAreEarned
    <3>3. q.seen.version < q.save.version /\ ~q.delete
      BY <1>4, <1>6, <2>2 DEF Bumps
    <3>4. rows[u] = q.seen /\ rows'[u] = q.save
      BY <1>5, <1>6, <1>7, <2>2, <3>3
    <3>5. QED
      BY <1>4, <3>1, <3>2, <3>3, <3>4
  <2>3. \A t \in SessionsOf(u) : t.user = u /\ t.type \in {"access", "refresh"}
    BY DEF SessionsOf
  <2>4. QED
    BY <1>1, <1>2, <2>1, <2>2, <2>3 DEF EndedAreOld
<1>16. BarredAreOut'
  <2>1. ASSUME NEW v \in barred', v # u, v \notin raced'
        PROVE  ~(rows'[v].alive /\ rows'[v].active)
    <3>1. v \in barred /\ v \in Users /\ v \notin raced
      BY <1>1, <1>2, <1>5, <2>1 DEF Types
    <3>2. QED
      BY <1>1, <1>5, <2>1, <3>1 DEF BarredAreOut, SignsIn, Found
  <2>2. ASSUME u \in barred', u \notin raced'
        PROVE  ~(rows'[u].alive /\ rows'[u].active)
    <3>1. CASE q.delete
      BY <1>5, <1>6, <3>1
    <3>2. CASE ~q.delete /\ Disables(q)
      BY <1>5, <1>6, <3>2 DEF Disables
    <3>3. CASE ~Disables(q)
      <4>1. u \in barred /\ ~Enables(q) /\ ~q.delete /\ rows[u] = q.seen /\ u \notin raced
        BY <1>2, <1>7, <2>2, <3>3 DEF Disables
      <4>2. ~q.seen.active
        BY <1>1, <1>4, <4>1 DEF BarredAreOut, SignsIn, Found, GoodRequest
      <4>3. QED
        BY <1>5, <1>6, <4>1, <4>2 DEF Enables
    <3>4. QED
      BY <3>1, <3>2, <3>3
  <2>3. QED
    BY <2>1, <2>2 DEF BarredAreOut, SignsIn, Found
<1>17. UsedAreGone'
  <2>1. ASSUME NEW x \in usedCodes', x[1] \notin raced'
        PROVE  x[2] \notin rows'[x[1]].codes
    <3>1. CASE x[1] # u
      <4>1. x \in usedCodes /\ x[1] \in Users /\ x[1] \notin raced
        BY <1>1, <1>2, <1>5, <2>1, <3>1 DEF Types
      <4>2. QED
        BY <1>1, <1>5, <3>1, <4>1 DEF UsedAreGone
    <3>2. CASE x[1] = u /\ q.delete
      <4>1. x \in usedCodes
        BY <1>2, <1>6, <3>2
      <4>2. QED
        BY <1>1, <1>5, <1>6, <1>7, <2>1, <3>2, <4>1 DEF UsedAreGone
    <3>3. CASE x[1] = u /\ ~q.delete
      <4>1. u \notin raced /\ rows[u] = q.seen /\ rows'[u] = q.save
        BY <1>5, <1>6, <1>7, <2>1, <3>3
      <4>2. CASE IsSetup(q)
        <5>1. x \in usedCodes /\ x[2][1] # q.save.secret
          BY <1>1, <1>2, <1>4, <4>2 DEF SetupsAreFresh, GoodRequest
        <5>2. \A c \in q.save.codes : c[1] = q.save.secret
          BY <1>4 DEF GoodRequest, GoodRow, AllCodes
        <5>3. QED
          BY <3>3, <4>1, <5>1, <5>2
      <4>3. CASE ~IsSetup(q)
        <5>1. q.save.codes \subseteq q.seen.codes \ q.code
          BY <1>4, <4>3 DEF GoodRequest
        <5>2. x[2] \in q.code \/ x[2] \notin rows[u].codes
          BY <1>1, <1>2, <3>3, <4>1 DEF UsedAreGone
        <5>3. QED
          BY <3>3, <4>1, <5>1, <5>2
      <4>4. QED
        BY <4>2, <4>3
    <3>4. QED
      BY <1>4, <3>1, <3>2, <3>3
  <2>2. QED
    BY <2>1 DEF UsedAreGone
<1>18. SecondFactorGiven'
  BY <1>1, <1>2, <1>4 DEF SecondFactorGiven, Blame, Types
<1>19. EndedUnlessRaced'
  <2>1. ({u} \X q.code) \cap usedCodes # {} => u \in raced'
    <3>1. ASSUME NEW x \in ({u} \X q.code) \cap usedCodes, u \notin raced'
          PROVE  FALSE
      <4>1. x[1] = u /\ x[2] \in q.code /\ x[2] \in q.seen.codes
        BY <1>10, <3>1
      <4>2. ~q.delete /\ rows[u] = q.seen /\ u \notin raced
        BY <1>6, <1>7, <3>1, <4>1
      <4>3. QED
        BY <1>1, <3>1, <4>1, <4>2 DEF UsedAreGone
    <3>2. QED
      BY <3>1
  <2>2. \A v \in Users : wrong'[v] = IF v = u /\ ({u} \X q.code) \cap usedCodes # {} THEN wrong[v] \cup {"reused"} ELSE wrong[v]
    BY <1>1, <1>2, <1>4 DEF Blame, Types
  <2>3. QED
    BY <1>1, <1>5, <2>1, <2>2 DEF EndedUnlessRaced
<1>20. QED
  BY <1>11, <1>12, <1>13, <1>14, <1>15, <1>16, <1>17, <1>18, <1>19 DEF IInv

-----------------------------------------------------------------------------
(* Using a token or a key.                                                 *)

\* Whatever is accepted is proven, and what was ended is accepted only of an
\* account whose row a save went over.
LEMMA ErrorsExplained ==
  ASSUME IInv, NEW t \in tokens, t.type # "2fa", SignsIn(t.user),
         Current(t) \/ t.type = "websocket"
  PROVE  Errors(t) \subseteq Wrongs \ {"unproved"} /\ (Errors(t) # {} => t.user \in raced)
<1>1. t \in AnyToken /\ t.proved = TRUE /\ t.user \in Users /\ t.version \in Nat
  BY RowsAndTokens DEF AnyToken
<1>2. rows[t.user].version \in Nat
  BY <1>1, RowsAndTokens
<1>3. t \in ended => t.user \in raced
  BY <1>1, <1>2 DEF IInv, EndedAreOld, Current
<1>4. t.user \in barred => t.user \in raced
  BY DEF IInv, BarredAreOut
<1>5. QED
  BY <1>1, <1>3, <1>4 DEF Errors, Wrongs

LEMMA BlameExplained ==
  ASSUME IInv, NEW u \in Users, NEW errors, errors \subseteq Wrongs \ {"unproved"},
         errors # {} => u \in raced, Blame(u, errors), raced' = raced
  PROVE  wrong' \in [Users -> SUBSET Wrongs] /\ SecondFactorGiven' /\ EndedUnlessRaced'
<1>1. wrong \in [Users -> SUBSET Wrongs] /\ SecondFactorGiven /\ EndedUnlessRaced
  BY DEF IInv, Types
<1>2. wrong' \in [Users -> SUBSET Wrongs]
  BY <1>1 DEF Blame
<1>3. \A v \in Users : wrong'[v] = IF v = u THEN wrong[v] \cup errors ELSE wrong[v]
  BY <1>1 DEF Blame
<1>4. QED
  BY <1>1, <1>2, <1>3 DEF SecondFactorGiven, EndedUnlessRaced

\* A step that changes no row and no request.
LEMMA SessionIInv ==
  ASSUME IInv, UNCHANGED <<rows, request, bounds, proven, ended, barred, usedCodes, raced>>,
         key' \in [Users -> {"none", "live", "expired"}], tokens \subseteq tokens',
         \A t \in tokens' \ tokens :
           /\ t \in AnyToken /\ t.type # "2fa" /\ t.proved /\ t.version <= count
           /\ t.type \in {"access", "refresh"} => t.version <= rows[t.user].version,
         wrong' \in [Users -> SUBSET Wrongs], SecondFactorGiven', EndedUnlessRaced'
  PROVE  IInv'
<1>1. Types /\ SetupsAreFresh /\ VersionsGrow /\ TokensAreEarned /\ EndedAreOld
      /\ BarredAreOut /\ UsedAreGone
  BY DEF IInv
<1>2. UNCHANGED <<rows, request, count, setups, proven, ended, barred, usedCodes, raced>> /\ Asked' = Asked
  BY DEF bounds, Asked
<1>3. Types'
  BY <1>1, <1>2 DEF Types
<1>4. SetupsAreFresh' /\ VersionsGrow'
  BY <1>1, <1>2 DEF SetupsAreFresh, VersionsGrow
<1>5. TokensAreEarned'
  BY <1>1, <1>2 DEF TokensAreEarned
<1>6. EndedAreOld' /\ BarredAreOut' /\ UsedAreGone'
  BY <1>1, <1>2 DEF EndedAreOld, BarredAreOut, UsedAreGone, SignsIn, Found
<1>7. QED
  BY <1>3, <1>4, <1>5, <1>6 DEF IInv

LEMMA NewSessions ==
  ASSUME IInv, NEW u \in Users
  PROVE  \A t \in Session(rows[u], u, TRUE) :
           /\ t \in AnyToken /\ t.type # "2fa" /\ t.proved /\ t.version <= count
           /\ t.type \in {"access", "refresh"} => t.version <= rows[t.user].version
<1>1. rows[u].version \in Nat /\ rows[u].version <= count
  BY RowsAndTokens DEF GoodRow
<1>2. ASSUME NEW type \in {"access", "refresh"}, NEW t, t = Token(type, u, rows[u].version, TRUE)
      PROVE  /\ t \in AnyToken /\ t.type # "2fa" /\ t.proved /\ t.version <= count
             /\ t.type \in {"access", "refresh"} => t.version <= rows[t.user].version
  BY <1>1, <1>2 DEF Token, AnyToken, TokenTypes
<1>3. QED
  BY <1>2 DEF Session, Pair

LEMMA Verify2FAIInv ==
  ASSUME IInv, NEW t \in tokens, Verify2FA(t)
  PROVE  IInv'
<1>1. /\ UNCHANGED <<rows, key, request, bounds, proven, ended, barred, usedCodes, raced, wrong>>
      /\ tokens' = tokens \cup Session(rows[t.user], t.user, TRUE)
  BY DEF Verify2FA, past
<1>2. t.user \in Users
  BY RowsAndTokens
<1>3. /\ key' \in [Users -> {"none", "live", "expired"}] /\ wrong' \in [Users -> SUBSET Wrongs]
      /\ SecondFactorGiven' /\ EndedUnlessRaced'
  BY <1>1 DEF IInv, Types, SecondFactorGiven, EndedUnlessRaced
<1>4. QED
  BY <1>1, <1>2, <1>3, NewSessions, SessionIInv

LEMMA AdmitIInv ==
  ASSUME IInv, NEW t \in tokens, AdmitToken(t) \/ AdmitTicket(t)
  PROVE  IInv'
<1>1. /\ UNCHANGED <<rows, key, request, tokens, bounds, proven, ended, barred, usedCodes, raced>>
      /\ Blame(t.user, Errors(t))
  BY DEF AdmitToken, AdmitTicket
<1>2. t.type # "2fa" /\ SignsIn(t.user) /\ (Current(t) \/ t.type = "websocket")
  BY DEF AdmitToken, AdmitTicket, Admitted, Parses
<1>3. t.user \in Users
  BY RowsAndTokens
<1>4. Errors(t) \subseteq Wrongs \ {"unproved"} /\ (Errors(t) # {} => t.user \in raced)
  BY <1>2, ErrorsExplained
<1>5. wrong' \in [Users -> SUBSET Wrongs] /\ SecondFactorGiven' /\ EndedUnlessRaced'
  BY <1>1, <1>3, <1>4, BlameExplained
<1>6. key' \in [Users -> {"none", "live", "expired"}]
  BY <1>1 DEF IInv, Types
<1>7. QED
  BY <1>1, <1>5, <1>6, SessionIInv

LEMMA AdmitKeyIInv ==
  ASSUME IInv, NEW u \in Users, AdmitKey(u)
  PROVE  IInv'
<1> DEFINE errors == IF u \in barred THEN {"barred"} ELSE {}
<1>1. /\ UNCHANGED <<rows, key, request, tokens, bounds, proven, ended, barred, usedCodes, raced>>
      /\ Blame(u, errors)
  BY DEF AdmitKey
<1>2. errors \subseteq Wrongs \ {"unproved"} /\ (errors # {} => u \in raced)
  BY DEF AdmitKey, IInv, BarredAreOut, Wrongs
<1> HIDE DEF errors
<1>3. wrong' \in [Users -> SUBSET Wrongs] /\ SecondFactorGiven' /\ EndedUnlessRaced'
  BY <1>1, <1>2, BlameExplained
<1>4. key' \in [Users -> {"none", "live", "expired"}]
  BY <1>1 DEF IInv, Types
<1>5. QED
  BY <1>1, <1>3, <1>4, SessionIInv

LEMMA CreateTicketIInv ==
  ASSUME IInv, NEW t \in tokens, CreateTicket(t)
  PROVE  IInv'
<1>1. /\ UNCHANGED <<rows, key, request, bounds, proven, ended, barred, usedCodes, raced, wrong>>
      /\ tokens' = tokens \cup {Ticket(t)} /\ t.type = "access"
  BY DEF CreateTicket, past, Admitted, Parses
<1>2. t \in AnyToken /\ t.proved = TRUE /\ count \in Nat
  BY <1>1, RowsAndTokens
<1>3. /\ Ticket(t) \in AnyToken /\ Ticket(t).type = "websocket" /\ Ticket(t).proved
      /\ Ticket(t).version = 0
  <2> DEFINE x == [t EXCEPT !.type = "websocket"]
  <2>1. x \in AnyToken /\ x.type = "websocket" /\ x.proved = TRUE
    BY <1>2 DEF AnyToken, TokenTypes
  <2>2. Ticket(t) = [x EXCEPT !.version = 0]
    BY <1>2 DEF Ticket, AnyToken
  <2> HIDE DEF x
  <2>3. QED
    BY <2>1, <2>2 DEF AnyToken
<1>4. /\ key' \in [Users -> {"none", "live", "expired"}] /\ wrong' \in [Users -> SUBSET Wrongs]
      /\ SecondFactorGiven' /\ EndedUnlessRaced'
  BY <1>1 DEF IInv, Types, SecondFactorGiven, EndedUnlessRaced
<1>5. QED
  BY <1>1, <1>2, <1>3, <1>4, SessionIInv

LEMMA RefreshTokenIInv ==
  ASSUME IInv, NEW t \in tokens, RefreshToken(t)
  PROVE  IInv'
<1>1. /\ UNCHANGED <<rows, key, request, bounds, proven, ended, barred, usedCodes, raced>>
      /\ tokens' = tokens \cup Session(rows[t.user], t.user, t.proved)
      /\ Blame(t.user, Errors(t))
  BY DEF RefreshToken
<1>2. t.type = "refresh" /\ SignsIn(t.user) /\ Current(t)
  BY DEF RefreshToken, Parses
<1>3. t.user \in Users /\ t.proved = TRUE
  BY <1>2, RowsAndTokens
<1>4. Errors(t) \subseteq Wrongs \ {"unproved"} /\ (Errors(t) # {} => t.user \in raced)
  BY <1>2, ErrorsExplained
<1>5. wrong' \in [Users -> SUBSET Wrongs] /\ SecondFactorGiven' /\ EndedUnlessRaced'
  BY <1>1, <1>3, <1>4, BlameExplained
<1>6. key' \in [Users -> {"none", "live", "expired"}]
  BY <1>1 DEF IInv, Types
<1>7. \A x \in tokens' \ tokens : x \in Session(rows[t.user], t.user, TRUE)
  BY <1>1, <1>3
<1>8. QED
  BY <1>1, <1>3, <1>5, <1>6, <1>7, NewSessions, SessionIInv

LEMMA KeyIInv ==
  ASSUME IInv, NEW u \in Users, NEW state \in {"none", "live", "expired"},
         key' = [key EXCEPT ![u] = state], UNCHANGED <<rows, request, tokens, bounds, past>>
  PROVE  IInv'
<1>1. UNCHANGED <<rows, request, tokens, bounds, proven, ended, barred, usedCodes, raced, wrong>>
  BY DEF past
<1>2. /\ key' \in [Users -> {"none", "live", "expired"}] /\ wrong' \in [Users -> SUBSET Wrongs]
      /\ SecondFactorGiven' /\ EndedUnlessRaced'
  BY <1>1 DEF IInv, Types, SecondFactorGiven, EndedUnlessRaced
<1>3. QED
  BY <1>1, <1>2, SessionIInv

-----------------------------------------------------------------------------
LEMMA InitIInv == AuthAssumption /\ Init => IInv
<1> SUFFICES ASSUME AuthAssumption, Init PROVE IInv
  OBVIOUS
<1>1. ASSUME NEW u \in Users
      PROVE  FirstRow(u) \in Row /\ GoodRow(FirstRow(u), 0, 1, {1}) /\ FirstRow(u).version = 0
  <2> DEFINE secret == IF u \in Protected THEN 1 ELSE 0
             codes == {secret} \X {c \in Codes : u \in Protected}
  <2>1. /\ secret \in Nat /\ secret <= 1 /\ (u \in Protected => secret = 1)
        /\ codes \subseteq {secret} \X Codes /\ (secret = 0 => codes = {})
    OBVIOUS
  <2>2. codes \in SUBSET (Nat \X Codes)
    BY <2>1
  <2>3. FirstRow(u) = [alive |-> TRUE, role |-> IF u \in Admins THEN "super-admin" ELSE "viewer",
                       active |-> TRUE, version |-> 0, password |-> u \notin DirectoryUsers,
                       totp |-> u \in Protected, secret |-> secret, codes |-> codes]
    BY DEF FirstRow, OldSecret, NoSecret
  <2> HIDE DEF secret, codes
  <2>4. FirstRow(u) \in Row
    BY <2>1, <2>2, <2>3 DEF Row, Secrets, Roles
  <2>5. /\ FirstRow(u).secret = secret /\ FirstRow(u).codes = codes /\ FirstRow(u).version = 0
    BY <2>3
  <2>6. FirstRow(u).totp = (u \in Protected)
    BY <2>3
  <2>7. FirstRow(u).totp => FirstRow(u).secret \in {1}
    BY <2>1, <2>5, <2>6
  <2>8. FirstRow(u).codes \subseteq AllCodes(FirstRow(u).secret)
    BY <2>1, <2>5 DEF AllCodes
  <2>9. FirstRow(u).secret = NoSecret => FirstRow(u).codes = {}
    BY <2>1, <2>5 DEF NoSecret
  <2>10. FirstRow(u).version <= 0 /\ FirstRow(u).secret <= 1
    BY <2>1, <2>5
  <2>11. QED
    BY <2>4, <2>5, <2>7, <2>8, <2>9, <2>10 DEF GoodRow
<1>2. /\ rows = [u \in Users |-> FirstRow(u)] /\ key = [u \in Users |-> "none"]
      /\ request = [r \in Requests |-> NoRequest]
      /\ count = 0 /\ setups = 1 /\ proven = {1} /\ ended = {} /\ barred = {} /\ usedCodes = {} /\ raced = {}
      /\ wrong = [u \in Users |-> {}]
      /\ tokens = UNION {Session(rows[u], u, TRUE) : u \in SignedIn}
  BY DEF Init, OldSecret
<1>3. Asked = {}
  BY <1>2 DEF Asked
<1>4. ASSUME NEW t \in tokens
      PROVE  t \in AnyToken /\ t.type # "2fa" /\ t.proved /\ t.version = 0 /\ t.user \in Users
  <2>1. PICK u \in SignedIn : t \in Session(rows[u], u, TRUE)
    BY <1>2
  <2>2. u \in Users /\ rows[u].version = 0
    BY <1>1, <1>2 DEF AuthAssumption
  <2>3. GoodGrant(t, u, 0)
    <3>1. rows[u].version \in Nat
      BY <2>2
    <3>2. GoodGrant(t, u, rows[u].version)
      BY <2>1, <2>2, <3>1, GrantsAreGood
    <3>3. QED
      BY <2>2, <3>2
  <2>4. t.type # "2fa"
    BY <2>1 DEF Session, Pair, Token
  <2>5. QED
    BY <2>2, <2>3, <2>4 DEF GoodGrant
<1>5. Types
  <2>1. rows \in [Users -> Row] /\ \A u \in Users : GoodRow(rows[u], count, setups, proven)
    BY <1>1, <1>2
  <2>2. key \in [Users -> {"none", "live", "expired"}] /\ wrong \in [Users -> SUBSET Wrongs]
    BY <1>2
  <2>3. request \in [Requests -> Request \cup {NoRequest}] /\ tokens \subseteq AnyToken
    BY <1>2, <1>4
  <2>4. count <= MaxRequests
    BY <1>2 DEF AuthAssumption
  <2>5. /\ ended \subseteq tokens /\ barred \subseteq Users /\ raced \subseteq Users
        /\ usedCodes \subseteq Users \X (Secrets \X Codes) /\ \A x \in usedCodes : x[2][1] <= setups
        /\ count \in Nat /\ setups \in Nat
    BY <1>2
  <2>6. QED
    BY <1>3, <2>1, <2>2, <2>3, <2>4, <2>5 DEF Types
<1>6. TokensAreEarned
  <2>1. \A u \in Users : rows[u].version = 0
    BY <1>1, <1>2
  <2>2. count = 0
    BY <1>2
  <2>3. QED
    BY <1>4, <2>1, <2>2 DEF TokensAreEarned
<1>7. SetupsAreFresh /\ VersionsGrow /\ EndedAreOld /\ BarredAreOut /\ UsedAreGone
  BY <1>2, <1>3 DEF SetupsAreFresh, VersionsGrow, EndedAreOld, BarredAreOut, UsedAreGone
<1>8. SecondFactorGiven /\ EndedUnlessRaced
  BY <1>2 DEF SecondFactorGiven, EndedUnlessRaced
<1>9. QED
  BY <1>5, <1>6, <1>7, <1>8 DEF IInv

LEMMA StepIInv == AuthAssumption /\ IInv /\ [Next]_vars => IInv'
<1> SUFFICES ASSUME AuthAssumption, IInv, [Next]_vars PROVE IInv'
  OBVIOUS
<1>1. CASE \E r \in Requests : SignInStep(r)
  <2>1. PICK r \in Requests : SignInStep(r)
    BY <1>1
  <2>2. CASE \E u \in Users : Login(r, u) \/ IssueLoginForUser(r, u) \/ HandleCallback(r, u)
    BY <2>2, SignInIInv
  <2>3. CASE \E u \in Users, role \in DirectoryRoles : LoginDirectory(r, u, role)
    BY <2>3, LoginDirectoryIInv
  <2>4. CASE \E t \in tokens : \E code \in rows[t.user].codes : UseRecoveryCode(r, t, code)
    BY <2>4, UseRecoveryCodeIInv
  <2>5. QED
    BY <2>1, <2>2, <2>3, <2>4 DEF SignInStep
<1>2. CASE \E r \in Requests : Finish(r)
  BY <1>2, SavedIInv, NotSavedIInv DEF Finish
<1>3. CASE \E t \in tokens : SessionStep(t)
  <2>1. PICK t \in tokens : SessionStep(t)
    BY <1>3
  <2>2. CASE Verify2FA(t)
    BY <2>2, Verify2FAIInv
  <2>3. CASE AdmitToken(t) \/ AdmitTicket(t)
    BY <2>3, AdmitIInv
  <2>4. CASE CreateTicket(t)
    BY <2>4, CreateTicketIInv
  <2>5. CASE RefreshToken(t)
    BY <2>5, RefreshTokenIInv
  <2>6. CASE Generate(t) \/ Revoke(t)
    BY <2>6, RowsAndTokens, KeyIInv DEF Generate, Revoke
  <2>7. CASE \E r \in Requests, role \in DirectoryRoles : RefreshDirectory(r, t, role)
    BY <2>7, RefreshDirectoryIInv
  <2>8. CASE \E r \in Requests : IdentityLost(r, t) \/ Disable2FA(r, t) \/ ChangePassword(r, t)
    BY <2>8, OwnChangeIInv
  <2>9. CASE \E r \in Requests : Setup2FA(r, t)
    BY <2>9, Setup2FAIInv
  <2>10. CASE \E r \in Requests : Enable2FA(r, t)
    BY <2>10, Enable2FAIInv
  <2>11. QED
    BY <2>1, <2>2, <2>3, <2>4, <2>5, <2>6, <2>7, <2>8, <2>9, <2>10 DEF SessionStep
<1>4. CASE \E r \in Requests, u \in Users : ManageStep(r, u)
  BY <1>4, ManageIInv
<1>5. CASE \E u \in Users : AdmitKey(u) \/ KeyExpires(u)
  BY <1>5, AdmitKeyIInv, KeyIInv DEF KeyExpires
<1>6. CASE UNCHANGED vars
  BY <1>6 DEF vars, bounds, past, IInv, Types, Asked, SetupsAreFresh, VersionsGrow, TokensAreEarned,
              EndedAreOld, BarredAreOut, UsedAreGone, SecondFactorGiven, EndedUnlessRaced,
              SignsIn, Found
<1>7. QED
  BY <1>1, <1>2, <1>3, <1>4, <1>5, <1>6 DEF Next

\* The invariant of accounts and sessions, whatever requests overlap.
THEOREM Invariance == Spec => []IInv
BY InitIInv, StepIInv, AuthAssumption, PTL DEF Spec

\* The accounts keep their types, and recovery codes are those of the secret
\* they were made with (auth_service.go Setup2FA, Disable2FA).
THEOREM TypeCorrect == Spec => []TypeOK
<1>1. ASSUME IInv PROVE TypeOK
  <2>1. Types /\ TokensAreEarned
    BY <1>1 DEF IInv
  <2>2. ASSUME NEW u \in Users
        PROVE  /\ rows[u].version \in Versions /\ rows[u].role \in Roles
               /\ rows[u].codes \subseteq AllCodes(rows[u].secret)
               /\ rows[u].secret = NoSecret => rows[u].codes = {}
               /\ key[u] \in {"none", "live", "expired"}
    BY <2>1, AuthAssumption DEF Types, GoodRow, Row, Versions, AuthAssumption
  <2>3. tokens \subseteq Tokens
    <3>1. ASSUME NEW t \in tokens PROVE t \in Tokens
      <4>1. t \in AnyToken /\ t.version \in Nat /\ t.version <= count
        BY <2>1, RowsAndTokens, <1>1 DEF TokensAreEarned, AnyToken
      <4>2. t.version \in Versions
        BY <2>1, <4>1, AuthAssumption DEF Types, Versions, AuthAssumption
      <4>3. QED
        BY <4>1, <4>2 DEF AnyToken, Tokens, TokenTypes
    <3>2. QED
      BY <3>1
  <2>4. QED
    BY <2>1, <2>2, <2>3 DEF TypeOK, Types
<1>2. QED
  BY <1>1, Invariance, PTL

\* A token that stands for a password alone opens nothing, whatever overlaps
\* (auth/jwt.go; auth_service.go Verify2FA).
THEOREM SecondFactor == Spec => []SecondFactorGiven
<1>1. IInv => SecondFactorGiven
  BY DEF IInv
<1>2. QED
  BY <1>1, Invariance, PTL

\* Two-factor authentication is on only with a secret its user has shown a
\* code of (auth_service.go Setup2FA, Enable2FA).
THEOREM ProvenFactors == Spec => []EnabledWasProven
<1>1. IInv => EnabledWasProven
  BY DEF IInv, Types, GoodRow, EnabledWasProven
<1>2. QED
  BY <1>1, Invariance, PTL

\* Only a save over a row that was not read brings back what was ended
\* (user_service.go ResetPassword, UpdateUser, DeleteUser; auth_service.go
\* UseRecoveryCode).
THEOREM EndedStaysEnded == Spec => []EndedUnlessRaced
<1>1. IInv => EndedUnlessRaced
  BY DEF IInv
<1>2. QED
  BY <1>1, Invariance, PTL

-----------------------------------------------------------------------------
(****************************************************************************)
(* Public keys.                                                            *)
(****************************************************************************)

Handles == 0..MaxHandles
Counts  == 0..MaxSigns

CeremonyRow ==
  [kind : {"registration", "login"}, user : KeyUsers \cup {Passkeys!Nobody}, handle : Handles,
   allowed : SUBSET Keys, open : BOOLEAN, expired : BOOLEAN]
Credential == [user : KeyUsers, handle : Handles, count : Counts, revoked : BOOLEAN]

Finishing == [step : {"register", "validate"}, ceremony : Ceremonies, before : SUBSET Keys]
Finding   == [step : {"find"}, key : Keys, user : KeyUsers, clone : BOOLEAN, before : SUBSET Keys,
              count : Counts]
Updating  == [step : {"update"}, key : Keys, user : KeyUsers, before : SUBSET Keys,
              count : Counts, record : Credential]
Issuing   == [step : {"issue"}, key : Keys, user : KeyUsers, before : SUBSET Keys]
Attempt   == {Passkeys!Idle} \cup Finishing \cup Finding \cup Updating \cup Issuing

\* The types of all variables.
KeyTypes ==
  /\ active \subseteq KeyUsers /\ handle \in [KeyUsers -> Handles]
  /\ credential \in [Keys -> Credential \cup {Passkeys!NoKey}]
  /\ ceremony \in [Ceremonies -> CeremonyRow \cup {Passkeys!NotBegun}]
  /\ attempt \in [Attempts -> Attempt]
  /\ signs \in [Keys -> Counts]
  /\ saving \subseteq [user : KeyUsers, handle : Handles]
  /\ made \in Handles
  /\ tried \in [Ceremonies -> Nat]

\* An attempt has begun its ceremony, and knows a key that has a row.
AttemptsAreBegun ==
  \A a \in Attempts :
    /\ attempt[a] \in Finishing => ceremony[attempt[a].ceremony] # Passkeys!NotBegun
    /\ attempt[a] \in Finding \cup Updating => credential[attempt[a].key] # Passkeys!NoKey

\* A ceremony that was not begun, or is open, was not tried.
TriedIsClosed ==
  \A c \in Ceremonies :
    \/ tried[c] = 0
    \/ tried[c] = 1 /\ ceremony[c] # Passkeys!NotBegun /\ ~ceremony[c].open

\* A key that was revoked has a row that says so.
RevokedIsMarked ==
  \A k \in revoked : k \in Keys /\ credential[k] # Passkeys!NoKey /\ credential[k].revoked

\* What an attempt takes for revoked when it came is revoked, and the key it
\* goes on with was not.
CameInTime(x) ==
  x # Passkeys!Idle => /\ x.before \subseteq revoked
                       /\ x \in Finding \cup Updating \cup Issuing => x.key \notin x.before
KeysWereValid == \A a \in Attempts : CameInTime(attempt[a])

KeyInv ==
  /\ KeyTypes /\ AttemptsAreBegun /\ TriedIsClosed /\ RevokedIsMarked /\ KeysWereValid
  /\ Passkeys!RevokedSignsNobodyIn

-----------------------------------------------------------------------------
\* Rows are records: a changed field leaves the others alone.
LEMMA ClosedFields ==
  ASSUME NEW x \in CeremonyRow
  PROVE  /\ [x EXCEPT !.open = FALSE] \in CeremonyRow /\ ~[x EXCEPT !.open = FALSE].open
         /\ [x EXCEPT !.expired = TRUE] \in CeremonyRow
         /\ [x EXCEPT !.expired = TRUE].open = x.open
BY DEF CeremonyRow

LEMMA CredentialFields ==
  ASSUME NEW x \in Credential, NEW n \in Counts
  PROVE  /\ [x EXCEPT !.revoked = TRUE] \in Credential /\ [x EXCEPT !.revoked = TRUE].revoked
         /\ [x EXCEPT !.count = n] \in Credential
         /\ [x EXCEPT !.count = n].revoked = x.revoked
BY DEF Credential

\* A row is neither of the placeholders.
LEMMA RowsDiffer ==
  ASSUME Passkeys!PublicKeysAssumption
  PROVE  /\ Passkeys!NotBegun \notin CeremonyRow
         /\ Passkeys!NoKey \notin Credential
<1>1. ASSUME Passkeys!NotBegun \in CeremonyRow
      PROVE  FALSE
  <2>1. Passkeys!NotBegun.kind \in {"registration", "login"}
    BY <1>1 DEF CeremonyRow
  <2>2. QED
    BY <2>1 DEF Passkeys!NotBegun
<1>2. ASSUME Passkeys!NoKey \in Credential
      PROVE  FALSE
  <2>1. Passkeys!NoKey.user \in KeyUsers
    BY <1>2 DEF Credential
  <2>2. QED
    BY <2>1 DEF Passkeys!NoKey, Passkeys!PublicKeysAssumption
<1>3. QED
  BY <1>1, <1>2

\* The step of an attempt says which kind of record it is.
LEMMA AttemptKinds ==
  ASSUME NEW x \in Attempt
  PROVE  /\ x.step \in {"register", "validate"} => x \in Finishing
         /\ x.step = "find" => x \in Finding
         /\ x.step = "update" => x \in Updating
         /\ x.step = "issue" => x \in Issuing
         /\ x \in Finishing => x.step \in {"register", "validate"}
         /\ x \in Finding => x.step = "find"
         /\ x \in Updating => x.step = "update"
         /\ x \in Issuing => x.step = "issue"
         /\ Passkeys!Idle \notin Finishing \cup Finding \cup Updating
BY DEF Attempt, Passkeys!Idle, Finishing, Finding, Updating, Issuing

\* One attempt goes on and came in time: so did the others.
LEMMA MovesInTime ==
  ASSUME KeyTypes, KeysWereValid, NEW a \in Attempts, NEW x, attempt' = [attempt EXCEPT ![a] = x],
         revoked' = revoked, CameInTime(x)
  PROVE  KeysWereValid'
<1>1. attempt'[a] = x /\ \A b \in Attempts : b # a => attempt'[b] = attempt[b]
  BY DEF KeyTypes
<1>2. ASSUME NEW b \in Attempts
      PROVE  CameInTime(attempt'[b])
  BY <1>1 DEF KeysWereValid
<1>3. ASSUME NEW b \in Attempts
      PROVE  CameInTime(attempt[b])'
  BY <1>2 DEF CameInTime
<1>4. QED
  BY <1>3 DEF KeysWereValid

-----------------------------------------------------------------------------
\* A ceremony is begun: it was not tried before.
LEMMA BeginIInv ==
  ASSUME Passkeys!PublicKeysAssumption, KeyInv, NEW u \in KeyUsers, NEW c \in Ceremonies,
         Passkeys!BeginRegistration(u, c) \/ Passkeys!BeginLogin(u, c)
  PROVE  KeyInv'
<1>1. /\ KeyTypes /\ AttemptsAreBegun /\ TriedIsClosed /\ RevokedIsMarked /\ KeysWereValid
      /\ Passkeys!RevokedSignsNobodyIn
  BY DEF KeyInv
<1>2. PICK row : ceremony[c] = Passkeys!NotBegun /\ ceremony' = [ceremony EXCEPT ![c] = row]
                 /\ row \in CeremonyRow /\ handle' \in [KeyUsers -> Handles] /\ made' \in Handles
  <2>1. 0 \in Handles /\ Passkeys!ListActive(u) \subseteq Keys /\ Passkeys!Nobody \in KeyUsers \cup {Passkeys!Nobody}
    BY DEF Handles, Passkeys!ListActive, Passkeys!PublicKeysAssumption
  <2>2. handle[u] \in Handles /\ made \in Handles
    BY <1>1 DEF KeyTypes
  <2>3. CASE Passkeys!BeginRegistration(u, c)
    <3>1. Passkeys!WithHandle(u) \in Handles
      BY <2>2, <2>3 DEF Passkeys!BeginRegistration, Passkeys!WithHandle, Handles, Passkeys!PublicKeysAssumption
    <3>2. Passkeys!Row("registration", u, Passkeys!WithHandle(u), {}) \in CeremonyRow
      BY <3>1 DEF Passkeys!Row, CeremonyRow
    <3>3. handle' \in [KeyUsers -> Handles] /\ made' \in Handles
      BY <1>1, <2>2, <2>3, <3>1 DEF Passkeys!BeginRegistration, Passkeys!WithHandle, KeyTypes
    <3>4. QED
      BY <2>3, <3>2, <3>3 DEF Passkeys!BeginRegistration, Passkeys!StoreCeremony
  <2>4. CASE Passkeys!BeginLogin(u, c)
    <3>1. /\ Passkeys!Row("login", u, handle[u], Passkeys!ListActive(u)) \in CeremonyRow
          /\ Passkeys!Row("login", Passkeys!Nobody, 0, Keys) \in CeremonyRow
      BY <2>1, <2>2 DEF Passkeys!Row, CeremonyRow
    <3>2. handle' = handle /\ made' = made
      BY <2>4 DEF Passkeys!BeginLogin, Passkeys!bounds
    <3>3. QED
      BY <1>1, <2>4, <3>1, <3>2 DEF Passkeys!BeginLogin, Passkeys!StoreCeremony, KeyTypes
  <2>5. QED
    BY <2>3, <2>4
<1>3. UNCHANGED <<active, credential, attempt, signs, saving, tried, revoked, opened>>
  BY DEF Passkeys!BeginRegistration, Passkeys!BeginLogin, Passkeys!past
<1>4. KeyTypes'
  BY <1>1, <1>2, <1>3 DEF KeyTypes
<1>5. row # Passkeys!NotBegun
  BY <1>2, RowsDiffer
<1>6. AttemptsAreBegun'
  BY <1>1, <1>2, <1>3, <1>5 DEF AttemptsAreBegun, KeyTypes
<1>7. TriedIsClosed'
  BY <1>1, <1>2, <1>3, <1>5 DEF TriedIsClosed, KeyTypes
<1>8. RevokedIsMarked' /\ KeysWereValid' /\ Passkeys!RevokedSignsNobodyIn'
  BY <1>1, <1>3 DEF RevokedIsMarked, KeysWereValid, CameInTime, Passkeys!RevokedSignsNobodyIn
<1>9. QED
  BY <1>4, <1>6, <1>7, <1>8 DEF KeyInv

\* A ceremony is consumed: it was open, hence not tried.
LEMMA ConsumeIInv ==
  ASSUME Passkeys!PublicKeysAssumption, KeyInv, NEW a \in Attempts, NEW c \in Ceremonies,
         Passkeys!FinishRegistration(a, c) \/ Passkeys!FinishLogin(a, c)
  PROVE  KeyInv'
<1>1. /\ KeyTypes /\ AttemptsAreBegun /\ TriedIsClosed /\ RevokedIsMarked /\ KeysWereValid
      /\ Passkeys!RevokedSignsNobodyIn
  BY DEF KeyInv
<1>2. PICK next \in {"register", "validate"} :
        /\ ceremony[c].kind \in {"registration", "login"} /\ ceremony[c].open
        /\ ceremony' = [ceremony EXCEPT ![c].open = FALSE]
        /\ attempt' = [attempt EXCEPT ![a] = [step |-> next, ceremony |-> c, before |-> revoked]]
        /\ tried' = [tried EXCEPT ![c] = @ + 1]
  BY DEF Passkeys!FinishRegistration, Passkeys!FinishLogin, Passkeys!ConsumeCeremony, Passkeys!Available
<1>3. UNCHANGED <<active, handle, credential, signs, saving, made, revoked, opened>>
  BY DEF Passkeys!FinishRegistration, Passkeys!FinishLogin, Passkeys!ConsumeCeremony, Passkeys!bounds
<1>4. ceremony[c] \in CeremonyRow
  BY <1>1, <1>2 DEF KeyTypes, Passkeys!NotBegun
<1>5. ceremony'[c] \in CeremonyRow /\ ~ceremony'[c].open
  BY <1>1, <1>2, <1>4, ClosedFields DEF KeyTypes
<1>6. \A d \in Ceremonies : d # c => ceremony'[d] = ceremony[d]
  BY <1>1, <1>2 DEF KeyTypes
<1>7. tried[c] = 0
  BY <1>1, <1>2 DEF TriedIsClosed
<1>8. KeyTypes'
  <2>1. [step |-> next, ceremony |-> c, before |-> revoked] \in Attempt
    BY <1>1 DEF Attempt, Finishing, RevokedIsMarked
  <2>2. ceremony' \in [Ceremonies -> CeremonyRow \cup {Passkeys!NotBegun}]
    BY <1>1, <1>2, <1>5, <1>6 DEF KeyTypes
  <2>3. QED
    BY <1>1, <1>2, <1>3, <2>1, <2>2 DEF KeyTypes
<1>9. \A d \in Ceremonies : ceremony[d] # Passkeys!NotBegun => ceremony'[d] # Passkeys!NotBegun
  BY <1>5, <1>6, RowsDiffer
<1>10. AttemptsAreBegun'
  <2>1. /\ attempt'[a] = [step |-> next, ceremony |-> c, before |-> revoked]
        /\ attempt'[a] \notin Finding \cup Updating
    BY <1>1, <1>2 DEF KeyTypes, Finding, Updating
  <2>2. \A b \in Attempts : b # a => attempt'[b] = attempt[b]
    BY <1>1, <1>2 DEF KeyTypes
  <2>3. \A b \in Attempts : attempt[b] \in Finishing => attempt[b].ceremony \in Ceremonies
    BY DEF Finishing
  <2>4. QED
    BY <1>1, <1>3, <1>5, <1>9, <2>1, <2>2, <2>3, RowsDiffer DEF AttemptsAreBegun
<1>11. TriedIsClosed'
  <2>1. tried'[c] = 1 /\ \A d \in Ceremonies : d # c => tried'[d] = tried[d]
    BY <1>1, <1>2, <1>7 DEF KeyTypes
  <2>2. ceremony'[c] # Passkeys!NotBegun
    BY <1>5, RowsDiffer
  <2>3. QED
    BY <1>1, <1>5, <1>6, <2>1, <2>2 DEF TriedIsClosed
<1>12. RevokedIsMarked' /\ Passkeys!RevokedSignsNobodyIn'
  BY <1>1, <1>3 DEF RevokedIsMarked, Passkeys!RevokedSignsNobodyIn
<1>13. KeysWereValid'
  <2> DEFINE x == [step |-> next, ceremony |-> c, before |-> revoked]
  <2>1. x.before \subseteq revoked /\ x \notin Finding \cup Updating \cup Issuing
    BY DEF Finding, Updating, Issuing
  <2> HIDE DEF x
  <2>2. CameInTime(x)
    BY <2>1 DEF CameInTime
  <2>3. QED
    BY <1>1, <1>2, <1>3, <2>2, MovesInTime DEF x
<1>14. QED
  BY <1>8, <1>10, <1>11, <1>12, <1>13 DEF KeyInv

\* An attempt moves on, and whatever had begun and whatever key had a row still
\* has one: attempts are begun after it when the one that moved is.
LEMMA AttemptMoves ==
  ASSUME KeyTypes, AttemptsAreBegun, NEW a \in Attempts, NEW x \in Attempt,
         attempt' = [attempt EXCEPT ![a] = x],
         x \in Finishing => ceremony'[x.ceremony] # Passkeys!NotBegun,
         x \in Finding \cup Updating => credential'[x.key] # Passkeys!NoKey,
         \A d \in Ceremonies : ceremony[d] # Passkeys!NotBegun => ceremony'[d] # Passkeys!NotBegun,
         \A k \in Keys : credential[k] # Passkeys!NoKey => credential'[k] # Passkeys!NoKey
  PROVE  attempt' \in [Attempts -> Attempt] /\ AttemptsAreBegun'
<1>1. attempt'[a] = x /\ \A b \in Attempts : b # a => attempt'[b] = attempt[b]
  BY DEF KeyTypes
<1>2. /\ \A q \in Finishing : q.ceremony \in Ceremonies
      /\ \A q \in Finding \cup Updating : q.key \in Keys
  BY DEF Finishing, Finding, Updating
<1>3. ASSUME NEW b \in Attempts
      PROVE  /\ attempt'[b] \in Finishing => ceremony'[attempt'[b].ceremony] # Passkeys!NotBegun
             /\ attempt'[b] \in Finding \cup Updating => credential'[attempt'[b].key] # Passkeys!NoKey
  <2>1. CASE b = a
    BY <1>1, <2>1
  <2>2. CASE b # a
    BY <1>1, <1>2, <2>2 DEF AttemptsAreBegun
  <2>3. QED
    BY <2>1, <2>2
<1>4. QED
  BY <1>3 DEF KeyTypes, AttemptsAreBegun

\* An attempt that holds no ceremony and no key needs neither.
LEMMA AtRest ==
  ASSUME NEW x \in {Passkeys!Idle} \cup Issuing
  PROVE  x \in Attempt /\ x \notin Finishing \cup Finding \cup Updating
BY DEF Attempt, Passkeys!Idle, Finishing, Finding, Updating, Issuing

\* An attempt ends or is refused.
LEMMA EndIInv ==
  ASSUME KeyInv, NEW a \in Attempts, Passkeys!IssueLogin(a) \/ Passkeys!Refused(a)
  PROVE  KeyInv'
<1>1. /\ KeyTypes /\ AttemptsAreBegun /\ TriedIsClosed /\ RevokedIsMarked /\ KeysWereValid
      /\ Passkeys!RevokedSignsNobodyIn
  BY DEF KeyInv
<1>2. /\ attempt' = [attempt EXCEPT ![a] = Passkeys!Idle]
      /\ UNCHANGED <<active, handle, credential, ceremony, signs, saving, made, tried, revoked>>
  BY DEF Passkeys!IssueLogin, Passkeys!Refused, Passkeys!bounds, Passkeys!past
<1>3. attempt' \in [Attempts -> Attempt] /\ AttemptsAreBegun'
  BY <1>1, <1>2, AtRest, AttemptMoves
<1>4. KeysWereValid'
  <2>1. CameInTime(Passkeys!Idle)
    BY DEF CameInTime
  <2>2. QED
    BY <1>1, <1>2, <2>1, MovesInTime
<1>5. opened' = {}
  <2>1. opened = {}
    BY <1>1 DEF Passkeys!RevokedSignsNobodyIn
  <2>2. CASE Passkeys!Refused(a)
    BY <2>1, <2>2 DEF Passkeys!Refused, Passkeys!past
  <2>3. CASE Passkeys!IssueLogin(a)
    <3> DEFINE q == attempt[a]
    <3>1. q.step = "issue" /\ opened' = opened \cup ({q.key} \cap q.before)
      BY <2>3 DEF Passkeys!IssueLogin
    <3>2. q \in Issuing /\ q # Passkeys!Idle
      BY <1>1, <3>1, AttemptKinds DEF KeyTypes, Passkeys!Idle
    <3>3. q.key \notin q.before
      BY <1>1, <3>2 DEF KeysWereValid, CameInTime
    <3> HIDE DEF q
    <3>4. QED
      BY <2>1, <3>1, <3>3
  <2>4. QED
    BY <2>2, <2>3
<1>6. QED
  BY <1>1, <1>2, <1>3, <1>4, <1>5
     DEF KeyInv, KeyTypes, TriedIsClosed, RevokedIsMarked, Passkeys!RevokedSignsNobodyIn

\* A key is registered: it had no row, hence was not revoked.
LEMMA RegisterIInv ==
  ASSUME Passkeys!PublicKeysAssumption, KeyInv, NEW a \in Attempts, NEW k \in Keys, Passkeys!Register(a, k)
  PROVE  KeyInv'
<1>1. /\ KeyTypes /\ AttemptsAreBegun /\ TriedIsClosed /\ RevokedIsMarked /\ KeysWereValid
      /\ Passkeys!RevokedSignsNobodyIn
  BY DEF KeyInv
<1> DEFINE row == ceremony[attempt[a].ceremony]
           new == [user |-> row.user, handle |-> row.handle, count |-> 0, revoked |-> FALSE]
<1>2. /\ attempt[a].step = "register" /\ row.user \in active /\ credential[k] = Passkeys!NoKey
      /\ credential' = [credential EXCEPT ![k] = new]
      /\ attempt' = [attempt EXCEPT ![a] = Passkeys!Idle]
      /\ UNCHANGED <<active, handle, ceremony, signs, saving, made, tried, revoked, opened>>
  BY DEF Passkeys!Register, Passkeys!bounds, Passkeys!past
<1>3. row \in CeremonyRow
  <2>1. attempt[a] \in Finishing
    BY <1>1, <1>2, AttemptKinds DEF KeyTypes
  <2>2. attempt[a].ceremony \in Ceremonies /\ row # Passkeys!NotBegun
    BY <1>1, <2>1 DEF AttemptsAreBegun, Finishing
  <2>3. QED
    BY <1>1, <2>2 DEF KeyTypes
<1>4. new \in Credential
  <2>1. row.user \in KeyUsers /\ row.handle \in Handles /\ 0 \in Counts
    BY <1>1, <1>2, <1>3 DEF KeyTypes, CeremonyRow, Counts, Passkeys!PublicKeysAssumption
  <2> HIDE DEF row
  <2>2. QED
    BY <2>1 DEF Credential
<1> HIDE DEF row, new
<1>5. credential'[k] # Passkeys!NoKey /\ \A j \in Keys : j # k => credential'[j] = credential[j]
  BY <1>1, <1>2, <1>4, RowsDiffer DEF KeyTypes
<1>6. credential' \in [Keys -> Credential \cup {Passkeys!NoKey}]
  BY <1>1, <1>2, <1>4 DEF KeyTypes
<1>7. attempt' \in [Attempts -> Attempt] /\ AttemptsAreBegun'
  BY <1>1, <1>2, <1>5, AtRest, AttemptMoves
<1>8. RevokedIsMarked'
  BY <1>1, <1>2, <1>5 DEF RevokedIsMarked
<1>9. KeysWereValid'
  <2>1. CameInTime(Passkeys!Idle)
    BY DEF CameInTime
  <2>2. QED
    BY <1>1, <1>2, <2>1, MovesInTime
<1>10. QED
  BY <1>1, <1>2, <1>6, <1>7, <1>8, <1>9 DEF KeyInv, KeyTypes, TriedIsClosed, Passkeys!RevokedSignsNobodyIn

\* An answer is checked: its key is an active one of the user's, hence has a
\* row that is not marked, and was not revoked when the attempt came.
LEMMA ValidateIInv ==
  ASSUME Passkeys!PublicKeysAssumption, KeyInv, NEW a \in Attempts, NEW k \in Keys, Passkeys!Validate(a, k)
  PROVE  KeyInv'
<1>1. /\ KeyTypes /\ AttemptsAreBegun /\ TriedIsClosed /\ RevokedIsMarked /\ KeysWereValid
      /\ Passkeys!RevokedSignsNobodyIn
  BY DEF KeyInv
<1> DEFINE u == credential[k].user
           signed == signs[k] + 1
           clone == signed <= credential[k].count
           before == attempt[a].before
           next == [step |-> "find", key |-> k, user |-> u, clone |-> clone, before |-> before,
                    count |-> IF clone THEN credential[k].count ELSE signed]
<1>2. /\ signs[k] < MaxSigns /\ u \in active /\ ~credential[k].revoked
      /\ attempt[a].step = "validate"
      /\ signs' = [signs EXCEPT ![k] = signed]
      /\ attempt' = [attempt EXCEPT ![a] = next]
      /\ UNCHANGED <<active, handle, credential, ceremony, saving, made, tried, revoked, opened>>
  BY DEF Passkeys!Validate, Passkeys!ListActive, Passkeys!bounds, Passkeys!past
<1>3. u \in KeyUsers /\ credential[k] # Passkeys!NoKey
  BY <1>1, <1>2 DEF KeyTypes, Passkeys!NoKey, Passkeys!PublicKeysAssumption
<1>4. signed \in Counts
  <2>1. signs[k] \in 0..MaxSigns
    BY <1>1 DEF KeyTypes, Counts
  <2>2. QED
    BY <1>2, <2>1 DEF Counts, Passkeys!PublicKeysAssumption
<1>5. credential[k].count \in Counts
  BY <1>1, <1>3 DEF KeyTypes, Credential
<1>6. before \subseteq revoked /\ before \subseteq Keys /\ k \notin revoked
  <2>1. attempt[a] \in Finishing /\ attempt[a] # Passkeys!Idle
    BY <1>1, <1>2, AttemptKinds DEF KeyTypes
  <2>2. QED
    BY <1>1, <1>2, <2>1 DEF KeysWereValid, CameInTime, RevokedIsMarked, Finishing
<1>7. next \in Finding /\ next.key = k /\ next.before = before
  <2> HIDE DEF u, signed, clone, before
  <2>1. clone \in BOOLEAN
    BY DEF clone
  <2>2. QED
    BY <1>3, <1>4, <1>5, <1>6, <2>1 DEF Finding
<1> HIDE DEF u, signed, clone, before, next
<1>8. next \in Attempt /\ next \notin Finishing
  BY <1>7 DEF Attempt, Finding, Finishing
<1>9. attempt' \in [Attempts -> Attempt] /\ AttemptsAreBegun'
  BY <1>1, <1>2, <1>3, <1>7, <1>8, AttemptMoves
<1>10. KeysWereValid'
  BY <1>1, <1>2, <1>7, <1>6, MovesInTime DEF CameInTime
<1>11. QED
  BY <1>1, <1>2, <1>4, <1>9, <1>10
     DEF KeyInv, KeyTypes, TriedIsClosed, RevokedIsMarked, Passkeys!RevokedSignsNobodyIn

\* The row is read again.
LEMMA FindIInv ==
  ASSUME Passkeys!PublicKeysAssumption, KeyInv, NEW a \in Attempts, Passkeys!FindRecord(a)
  PROVE  KeyInv'
<1>1. /\ KeyTypes /\ AttemptsAreBegun /\ TriedIsClosed /\ RevokedIsMarked /\ KeysWereValid
      /\ Passkeys!RevokedSignsNobodyIn
  BY DEF KeyInv
<1> DEFINE q == attempt[a]
           next == [step |-> "update", key |-> q.key, user |-> q.user, before |-> q.before,
                    count |-> q.count, record |-> credential[q.key]]
<1>2. /\ q.step = "find" /\ attempt' = [attempt EXCEPT ![a] = next]
      /\ UNCHANGED <<active, handle, credential, ceremony, signs, saving, made, tried, revoked, opened>>
  BY DEF Passkeys!FindRecord, Passkeys!bounds, Passkeys!past
<1>3. /\ q \in Finding /\ q.key \in Keys /\ q.user \in KeyUsers /\ q.count \in Counts
      /\ q.before \subseteq Keys /\ q # Passkeys!Idle
  BY <1>1, <1>2, AttemptKinds DEF KeyTypes, Finding
<1>4. credential[q.key] # Passkeys!NoKey
  BY <1>1, <1>3 DEF AttemptsAreBegun
<1>5. credential[q.key] \in Credential
  BY <1>1, <1>3, <1>4 DEF KeyTypes
<1>6. q.before \subseteq revoked /\ q.key \notin q.before
  BY <1>1, <1>3 DEF KeysWereValid, CameInTime
<1> HIDE DEF q
<1>7. next \in Updating /\ next.key = q.key /\ next.before = q.before
  BY <1>3, <1>5 DEF Updating
<1> HIDE DEF next
<1>8. next \in Attempt /\ next \notin Finishing
  BY <1>7 DEF Attempt, Updating, Finishing
<1>9. attempt' \in [Attempts -> Attempt] /\ AttemptsAreBegun'
  BY <1>1, <1>2, <1>4, <1>7, <1>8, AttemptMoves
<1>10. KeysWereValid'
  BY <1>1, <1>2, <1>7, <1>6, MovesInTime DEF CameInTime
<1>11. QED
  BY <1>1, <1>2, <1>9, <1>10
     DEF KeyInv, KeyTypes, TriedIsClosed, RevokedIsMarked, Passkeys!RevokedSignsNobodyIn

\* The sign-in is recorded: only the counter of a row that was not marked.
LEMMA UpdateIInv ==
  ASSUME Passkeys!PublicKeysAssumption, KeyInv, NEW a \in Attempts, Passkeys!UpdateAfterLogin(a)
  PROVE  KeyInv'
<1>1. /\ KeyTypes /\ AttemptsAreBegun /\ TriedIsClosed /\ RevokedIsMarked /\ KeysWereValid
      /\ Passkeys!RevokedSignsNobodyIn
  BY DEF KeyInv
<1> DEFINE q == attempt[a]
           next == [step |-> "issue", key |-> q.key, user |-> q.user, before |-> q.before]
           row == credential[q.key]
           new == [row EXCEPT !.count = q.count]
<1>2. /\ q.step = "update" /\ ~row.revoked
      /\ credential' = [credential EXCEPT ![q.key] = new]
      /\ attempt' = [attempt EXCEPT ![a] = next]
      /\ UNCHANGED <<active, handle, ceremony, signs, saving, made, tried, revoked, opened>>
  BY DEF Passkeys!UpdateAfterLogin, Passkeys!Recorded, Passkeys!bounds, Passkeys!past
<1>3. /\ q \in Updating /\ q.key \in Keys /\ q.user \in KeyUsers /\ q.count \in Counts
      /\ q.before \subseteq Keys /\ q # Passkeys!Idle
  BY <1>1, <1>2, AttemptKinds DEF KeyTypes, Updating
<1>4. row \in Credential
  BY <1>1, <1>3 DEF AttemptsAreBegun, KeyTypes
<1>5. new \in Credential /\ new.revoked = row.revoked
  BY <1>3, <1>4, CredentialFields
<1>6. q.key \notin revoked /\ q.before \subseteq revoked
  BY <1>1, <1>2, <1>3 DEF RevokedIsMarked, KeysWereValid, CameInTime
<1> HIDE DEF q, row, new
<1>7. next \in {Passkeys!Idle} \cup Issuing /\ next.key = q.key /\ next.before = q.before
  BY <1>3 DEF Issuing
<1> HIDE DEF next
<1>8. /\ credential'[q.key] = new /\ new # Passkeys!NoKey
      /\ \A j \in Keys : j # q.key => credential'[j] = credential[j]
  BY <1>1, <1>2, <1>3, <1>5, RowsDiffer DEF KeyTypes
<1>9. attempt' \in [Attempts -> Attempt] /\ AttemptsAreBegun'
  BY <1>1, <1>2, <1>7, <1>8, AtRest, AttemptMoves
<1>10. credential' \in [Keys -> Credential \cup {Passkeys!NoKey}]
  BY <1>1, <1>2, <1>5 DEF KeyTypes
<1>11. RevokedIsMarked'
  BY <1>1, <1>2, <1>6, <1>8 DEF RevokedIsMarked
<1>12. KeysWereValid'
  BY <1>1, <1>2, <1>6, <1>7, MovesInTime DEF CameInTime
<1>13. QED
  BY <1>1, <1>2, <1>9, <1>10, <1>11, <1>12 DEF KeyInv, KeyTypes, TriedIsClosed, Passkeys!RevokedSignsNobodyIn

\* A key is revoked: its row says so from then on.
LEMMA RevokeIInv ==
  ASSUME Passkeys!PublicKeysAssumption, KeyInv, NEW u \in KeyUsers, NEW k \in Keys, Passkeys!Revoke(u, k)
  PROVE  KeyInv'
<1>1. /\ KeyTypes /\ AttemptsAreBegun /\ TriedIsClosed /\ RevokedIsMarked /\ KeysWereValid
      /\ Passkeys!RevokedSignsNobodyIn
  BY DEF KeyInv
<1> DEFINE new == [credential[k] EXCEPT !.revoked = TRUE]
<1>2. /\ credential[k].user = u /\ credential' = [credential EXCEPT ![k] = new]
      /\ revoked' = revoked \cup {k}
      /\ UNCHANGED <<active, handle, ceremony, attempt, signs, saving, made, tried, opened>>
  BY DEF Passkeys!Revoke, Passkeys!ListActive, Passkeys!bounds
<1>3. credential[k] \in Credential
  BY <1>1, <1>2 DEF KeyTypes, Passkeys!NoKey, Passkeys!PublicKeysAssumption
<1>4. new \in Credential /\ new.revoked
  <2>1. 0 \in Counts
    BY DEF Counts, Passkeys!PublicKeysAssumption
  <2>2. QED
    BY <1>3, <2>1, CredentialFields
<1> HIDE DEF new
<1>5. /\ credential'[k] = new /\ new # Passkeys!NoKey
      /\ \A j \in Keys : j # k => credential'[j] = credential[j]
  BY <1>1, <1>2, <1>4, RowsDiffer DEF KeyTypes
<1>6. credential' \in [Keys -> Credential \cup {Passkeys!NoKey}]
  BY <1>1, <1>2, <1>4 DEF KeyTypes
<1>7. AttemptsAreBegun'
  <2>1. \A x \in Finding \cup Updating : x.key \in Keys
    BY DEF Finding, Updating
  <2>2. QED
    BY <1>1, <1>2, <1>5, <2>1 DEF AttemptsAreBegun
<1>8. RevokedIsMarked'
  BY <1>1, <1>2, <1>4, <1>5 DEF RevokedIsMarked
<1>9. KeysWereValid'
  BY <1>1, <1>2 DEF KeysWereValid, CameInTime
<1>10. QED
  BY <1>1, <1>2, <1>6, <1>7, <1>8, <1>9 DEF KeyInv, KeyTypes, TriedIsClosed, Passkeys!RevokedSignsNobodyIn

\* A ceremony expires: it stays begun, and as open as it was.
LEMMA ExpiresIInv ==
  ASSUME Passkeys!PublicKeysAssumption, KeyInv, NEW c \in Ceremonies, Passkeys!Expires(c)
  PROVE  KeyInv'
<1>1. /\ KeyTypes /\ AttemptsAreBegun /\ TriedIsClosed /\ RevokedIsMarked /\ KeysWereValid
      /\ Passkeys!RevokedSignsNobodyIn
  BY DEF KeyInv
<1> DEFINE new == [ceremony[c] EXCEPT !.expired = TRUE]
<1>2. /\ ceremony[c] # Passkeys!NotBegun /\ ceremony' = [ceremony EXCEPT ![c] = new]
      /\ UNCHANGED <<active, handle, credential, attempt, signs, saving, made, tried, revoked, opened>>
  BY DEF Passkeys!Expires, Passkeys!bounds, Passkeys!past
<1>3. ceremony[c] \in CeremonyRow
  BY <1>1, <1>2 DEF KeyTypes
<1>4. new \in CeremonyRow /\ new.open = ceremony[c].open
  BY <1>3, ClosedFields
<1> HIDE DEF new
<1>5. /\ ceremony'[c] = new /\ new # Passkeys!NotBegun
      /\ \A d \in Ceremonies : d # c => ceremony'[d] = ceremony[d]
  BY <1>1, <1>2, <1>4, RowsDiffer DEF KeyTypes
<1>6. ceremony' \in [Ceremonies -> CeremonyRow \cup {Passkeys!NotBegun}]
  BY <1>1, <1>2, <1>4 DEF KeyTypes
<1>7. AttemptsAreBegun'
  <2>1. \A x \in Finishing : x.ceremony \in Ceremonies
    BY DEF Finishing
  <2>2. QED
    BY <1>1, <1>2, <1>5, <2>1 DEF AttemptsAreBegun
<1>8. TriedIsClosed'
  BY <1>1, <1>2, <1>4, <1>5 DEF TriedIsClosed
<1>9. KeysWereValid'
  BY <1>1, <1>2 DEF KeysWereValid, CameInTime
<1>10. QED
  BY <1>1, <1>2, <1>6, <1>7, <1>8, <1>9 DEF KeyInv, KeyTypes, RevokedIsMarked, Passkeys!RevokedSignsNobodyIn

\* The administrator, and the other services, touch the user's row only.
LEMMA UserIInv ==
  ASSUME KeyInv, NEW u \in KeyUsers, Passkeys!UpdateUser(u) \/ Passkeys!BeginSave(u)
  PROVE  KeyInv'
<1>1. /\ KeyTypes /\ AttemptsAreBegun /\ TriedIsClosed /\ RevokedIsMarked /\ KeysWereValid
      /\ Passkeys!RevokedSignsNobodyIn
  BY DEF KeyInv
<1>2. UNCHANGED <<handle, credential, ceremony, attempt, signs, made, tried, revoked, opened>>
  BY DEF Passkeys!UpdateUser, Passkeys!BeginSave, Passkeys!bounds, Passkeys!past
<1>3. active' \subseteq KeyUsers /\ saving' \subseteq [user : KeyUsers, handle : Handles]
  <2>1. CASE Passkeys!UpdateUser(u)
    BY <1>1, <2>1 DEF Passkeys!UpdateUser, KeyTypes
  <2>2. CASE Passkeys!BeginSave(u)
    BY <1>1, <2>2 DEF Passkeys!BeginSave, KeyTypes
  <2>3. QED
    BY <2>1, <2>2
<1>4. QED
  BY <1>1, <1>2, <1>3
     DEF KeyInv, KeyTypes, AttemptsAreBegun, TriedIsClosed, RevokedIsMarked, KeysWereValid, CameInTime,
         Passkeys!RevokedSignsNobodyIn

LEMMA EndSaveIInv ==
  ASSUME KeyInv, NEW s \in saving, Passkeys!EndSave(s)
  PROVE  KeyInv'
<1>1. /\ KeyTypes /\ AttemptsAreBegun /\ TriedIsClosed /\ RevokedIsMarked /\ KeysWereValid
      /\ Passkeys!RevokedSignsNobodyIn
  BY DEF KeyInv
<1>2. /\ saving' = saving \ {s} /\ handle' = [handle EXCEPT ![s.user] = s.handle]
      /\ UNCHANGED <<active, credential, ceremony, attempt, signs, made, tried, revoked, opened>>
  BY DEF Passkeys!EndSave, Passkeys!bounds, Passkeys!past
<1>3. s.user \in KeyUsers /\ s.handle \in Handles
  BY <1>1 DEF KeyTypes
<1>4. QED
  BY <1>1, <1>2, <1>3
     DEF KeyInv, KeyTypes, AttemptsAreBegun, TriedIsClosed, RevokedIsMarked, KeysWereValid, CameInTime,
         Passkeys!RevokedSignsNobodyIn

-----------------------------------------------------------------------------
LEMMA KeyInit ==
  ASSUME Passkeys!PublicKeysAssumption, Passkeys!Init
  PROVE  KeyInv
<1>1. 0 \in Handles /\ 0 \in Counts
  BY DEF Handles, Counts, Passkeys!PublicKeysAssumption
<1>2. KeyTypes
  BY <1>1 DEF Passkeys!Init, KeyTypes, Attempt
<1>3. AttemptsAreBegun
  BY AtRest DEF Passkeys!Init, AttemptsAreBegun
<1>4. TriedIsClosed /\ RevokedIsMarked /\ KeysWereValid /\ Passkeys!RevokedSignsNobodyIn
  BY DEF Passkeys!Init, TriedIsClosed, RevokedIsMarked, KeysWereValid, CameInTime,
         Passkeys!RevokedSignsNobodyIn
<1>5. QED
  BY <1>2, <1>3, <1>4 DEF KeyInv

LEMMA KeyStep ==
  ASSUME Passkeys!PublicKeysAssumption, KeyInv, [Passkeys!Next]_(Passkeys!vars)
  PROVE  KeyInv'
<1>1. ASSUME NEW a \in Attempts, Passkeys!AttemptStep(a)
      PROVE  KeyInv'
  BY <1>1, ConsumeIInv, RegisterIInv, ValidateIInv, FindIInv, UpdateIInv, EndIInv DEF Passkeys!AttemptStep
<1>2. ASSUME NEW u \in KeyUsers, NEW c \in Ceremonies, Passkeys!BeginRegistration(u, c) \/ Passkeys!BeginLogin(u, c)
      PROVE  KeyInv'
  BY <1>2, BeginIInv
<1>3. ASSUME NEW u \in KeyUsers, NEW k \in Keys, Passkeys!Revoke(u, k)
      PROVE  KeyInv'
  BY <1>3, RevokeIInv
<1>4. ASSUME NEW u \in KeyUsers, Passkeys!UpdateUser(u) \/ Passkeys!BeginSave(u)
      PROVE  KeyInv'
  BY <1>4, UserIInv
<1>5. ASSUME NEW c \in Ceremonies, Passkeys!Expires(c)
      PROVE  KeyInv'
  BY <1>5, ExpiresIInv
<1>6. ASSUME NEW s \in saving, Passkeys!EndSave(s)
      PROVE  KeyInv'
  BY <1>6, EndSaveIInv
<1>7. CASE UNCHANGED Passkeys!vars
  BY <1>7 DEF Passkeys!vars, KeyInv, KeyTypes, AttemptsAreBegun, TriedIsClosed, RevokedIsMarked,
              KeysWereValid, CameInTime, Passkeys!RevokedSignsNobodyIn
<1>8. QED
  BY <1>1, <1>2, <1>3, <1>4, <1>5, <1>6, <1>7 DEF Passkeys!Next

\* The inductive invariant holds throughout, for any users, keys, ceremonies
\* and requests, under either counter policy.
THEOREM KeyInvariance == Passkeys!Spec => []KeyInv
<1>1. Passkeys!Init => KeyInv
  BY PublicKeysAssumption, KeyInit
<1>2. KeyInv /\ [Passkeys!Next]_(Passkeys!vars) => KeyInv'
  BY PublicKeysAssumption, KeyStep
<1>3. QED
  BY <1>1, <1>2, PTL DEF Passkeys!Spec

\* A ceremony admits one attempt, however many requests try to finish it at
\* once and however the first one ends: ConsumeCeremony closes what it admits,
\* and nothing opens a ceremony again.
THEOREM SingleUse == Passkeys!Spec => []CeremonyTriedOnce
<1>1. KeyInv => CeremonyTriedOnce
  BY DEF KeyInv, TriedIsClosed, CeremonyTriedOnce, Passkeys!CeremonyTriedOnce
<1>2. QED
  BY <1>1, KeyInvariance, PTL

\* A revocation lasts: a finish request that arrives after it never opens a
\* session with the key, whatever sign-ins with it were under way.  Nothing
\* takes the mark off the row of a revoked key (the update of a sign-in writes
\* the counter of a row that has none), so every later request reads it.
THEOREM RevocationHolds == Passkeys!Spec => []RevokedSignsNobodyIn
<1>1. KeyInv => RevokedSignsNobodyIn
  BY DEF KeyInv, RevokedSignsNobodyIn, Passkeys!RevokedSignsNobodyIn
<1>2. QED
  BY <1>1, KeyInvariance, PTL

-----------------------------------------------------------------------------
(* The sum that the runs check: a step of it is a step of one part and a   *)
(* stutter of the other.                                                   *)

LEMMA SumSteps == [MCNext]_all => [Next]_vars /\ [Passkeys!Next]_(Passkeys!vars)
BY DEF MCNext, all, keyVars, Passkeys!vars

\* In the sum: a second factor is given and was proven, what was ended stays
\* so unless a save raced it, a ceremony is tried once, and a revocation lasts.
THEOREM SignInIsSafe ==
  MCSpec => [](/\ SecondFactorGiven /\ EnabledWasProven /\ EndedUnlessRaced
               /\ CeremonyTriedOnce /\ RevokedSignsNobodyIn)
<1>1. MCInit => IInv /\ KeyInv
  BY AuthAssumption, PublicKeysAssumption, InitIInv, KeyInit DEF MCInit
<1>2. (IInv /\ KeyInv) /\ [MCNext]_all => (IInv /\ KeyInv)'
  BY SumSteps, AuthAssumption, PublicKeysAssumption, StepIInv, KeyStep
<1>3. IInv => SecondFactorGiven /\ EnabledWasProven /\ EndedUnlessRaced
  BY DEF IInv, Types, GoodRow, EnabledWasProven
<1>4. KeyInv => CeremonyTriedOnce /\ RevokedSignsNobodyIn
  BY DEF KeyInv, TriedIsClosed, CeremonyTriedOnce, Passkeys!CeremonyTriedOnce, RevokedSignsNobodyIn
<1>5. QED
  BY <1>1, <1>2, <1>3, <1>4, PTL DEF MCSpec
=============================================================================
