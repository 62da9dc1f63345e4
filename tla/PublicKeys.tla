----------------------------- MODULE PublicKeys -----------------------------
(***************************************************************************)
(* Passkeys and security keys: src/internal/service/publickey_service.go,  *)
(* its handler and repository/publickey_repo.go.  A ceremony is a stored   *)
(* challenge with what the WebAuthn library remembers of it; finishing one *)
(* consumes it first, whatever comes of it, and then takes a statement at  *)
(* a time, so that finishing, revoking and disabling overlap.  What an     *)
(* authenticator signs is right or the request is refused; a credential's  *)
(* name, transports and attestation are left out.                          *)
(***************************************************************************)
EXTENDS Naturals, FiniteSets

CONSTANTS
  Users,
  OtherMethod,   \* users who can sign in without a key
  Keys,          \* credentials an authenticator may make
  Ceremonies,    \* ids of ceremonies; each is begun once
  Attempts,      \* finish requests that may be under way
  CounterPolicy, \* "deny" or "warn"
  MaxSigns,      \* bound: signatures of one key
  MaxHandles,    \* bound: user handles made
  MaxSaves       \* bound: saves of a user's row by other services

Nobody == "nobody"

PublicKeysAssumption ==
  /\ OtherMethod \subseteq Users /\ Nobody \notin Users
  /\ CounterPolicy \in {"deny", "warn"}
  /\ MaxSigns \in Nat /\ MaxHandles \in Nat

VARIABLES
  active,     \* the users whose account is active
  handle,     \* Users -> public_key_handle of the row, 0 when empty
  credential, \* Keys -> the row of public_key_credentials, or NoKey
  ceremony,   \* Ceremonies -> the row of public_key_ceremonies, or NotBegun
  attempt,    \* Attempts -> the finish request, or Idle
  signs,      \* Keys -> the authenticator's signature counter
  saving,     \* the rows another service has read and will save whole
  made, saves,\* counters of the bounds
  tried,      \* history: for each ceremony the attempts it admitted
  revoked,    \* history: the keys that were revoked
  opened      \* history: the keys that opened a session after their revocation

vars == <<active, handle, credential, ceremony, attempt, signs, saving, made, saves,
          tried, revoked, opened>>
past == <<tried, revoked, opened>>
bounds == <<made, saves>>

NoKey == [user |-> Nobody]
NotBegun == [kind |-> "none"]
Idle == [step |-> "idle"]

Init ==
  /\ active = Users
  /\ handle = [u \in Users |-> 0]
  /\ credential = [k \in Keys |-> NoKey]
  /\ ceremony = [c \in Ceremonies |-> NotBegun]
  /\ attempt = [a \in Attempts |-> Idle]
  /\ signs = [k \in Keys |-> 0]
  /\ saving = {}
  /\ made = 0 /\ saves = 0
  /\ tried = [c \in Ceremonies |-> 0] /\ revoked = {} /\ opened = {}

(* ListActive: the credentials of a user that are not revoked.             *)
ListActive(u) == {k \in Keys : credential[k].user = u /\ ~credential[k].revoked}

-----------------------------------------------------------------------------
(* Beginning a ceremony                                                    *)

StoreCeremony(c, row) ==
  /\ ceremony[c] = NotBegun
  /\ ceremony' = [ceremony EXCEPT ![c] = row]

Row(kind, u, h, allowed) ==
  [kind |-> kind, user |-> u, handle |-> h, allowed |-> allowed, open |-> TRUE, expired |-> FALSE]

(* SetUserHandle writes only where there is none.                          *)
WithHandle(u) == IF handle[u] = 0 THEN made + 1 ELSE handle[u]

BeginRegistration(u, c) ==
  /\ u \in active
  /\ handle[u] = 0 => made < MaxHandles
  /\ StoreCeremony(c, Row("registration", u, WithHandle(u), {}))
  /\ handle' = [handle EXCEPT ![u] = WithHandle(u)]
  /\ made' = IF handle[u] = 0 THEN made + 1 ELSE made
  /\ UNCHANGED <<active, credential, attempt, signs, saving, saves, past>>

(* A name without an account or without a key is answered like any other:  *)
(* by a ceremony for whichever key the browser offers.                     *)
BeginLogin(u, c) ==
  /\ StoreCeremony(c, IF u \in active /\ ListActive(u) # {}
                      THEN Row("login", u, handle[u], ListActive(u))
                      ELSE Row("login", Nobody, 0, Keys))
  /\ UNCHANGED <<active, handle, credential, attempt, signs, saving, bounds, past>>

-----------------------------------------------------------------------------
(* Finishing one: ConsumeCeremony is one conditional update.               *)

\* a slip: the ceremony is only looked up
LookedUp(c, kind) == ceremony[c].kind = kind /\ ~ceremony[c].expired
Available(c, kind) == ceremony[c].kind = kind /\ ceremony[c].open /\ ~ceremony[c].expired

(* before: history, the keys that were revoked before the attempt came.    *)
ConsumeCeremony(a, c, kind, next) ==
  /\ attempt[a] = Idle /\ Available(c, kind)
  /\ ceremony' = [ceremony EXCEPT ![c].open = FALSE]
  /\ attempt' = [attempt EXCEPT ![a] = [step |-> next, ceremony |-> c, before |-> revoked]]
  /\ tried' = [tried EXCEPT ![c] = @ + 1]
  /\ UNCHANGED <<active, handle, credential, signs, saving, bounds, revoked, opened>>

FinishRegistration(a, c) == ConsumeCeremony(a, c, "registration", "register")
FinishLogin(a, c) == ConsumeCeremony(a, c, "login", "validate")

(* The attempt is refused: its user is another or is disabled, the answer  *)
(* is not valid, a statement fails.  The ceremony stays consumed.          *)
Refused(a) ==
  /\ attempt[a] # Idle
  /\ attempt' = [attempt EXCEPT ![a] = Idle]
  /\ UNCHANGED <<active, handle, credential, ceremony, signs, saving, bounds, past>>

(* The authenticator keeps the handle it was given; the library compares   *)
(* the one of the ceremony with the account's.                             *)
Register(a, k) ==
  LET row == ceremony[attempt[a].ceremony] IN
  /\ attempt[a].step = "register"
  /\ row.user \in active /\ handle[row.user] = row.handle
  /\ credential[k] = NoKey
  /\ credential' = [credential EXCEPT ![k] =
       [user |-> row.user, handle |-> row.handle, count |-> 0, revoked |-> FALSE]]
  /\ attempt' = [attempt EXCEPT ![a] = Idle]
  /\ UNCHANGED <<active, handle, ceremony, signs, saving, bounds, past>>

(* The account is the ceremony's or the one the key's handle finds; its    *)
(* active credentials are loaded and the answer is checked against them.   *)
(* A counter that does not exceed the one loaded warns of a clone, and     *)
(* then the loaded one is kept.                                            *)
Validate(a, k) ==
  LET row == ceremony[attempt[a].ceremony]
      u == credential[k].user
      count == signs[k] + 1
      clone == count <= credential[k].count
  IN
  /\ attempt[a].step = "validate" /\ signs[k] < MaxSigns
  /\ u \in active /\ row.user \in {u, Nobody}
  /\ k \in row.allowed \cap ListActive(u)
  /\ handle[u] = credential[k].handle
  /\ row.user = u => row.handle = handle[u]
  /\ signs' = [signs EXCEPT ![k] = count]
  /\ attempt' = [attempt EXCEPT ![a] =
       [step |-> "find", key |-> k, user |-> u, clone |-> clone, before |-> attempt[a].before,
        count |-> IF clone THEN credential[k].count ELSE count]]
  /\ UNCHANGED <<active, handle, credential, ceremony, saving, bounds, past>>

(* FindActiveByCredentialID reads the row again: the counter the update    *)
(* will compare is this one.                                               *)
FindRecord(a) ==
  LET q == attempt[a] IN
  /\ q.step = "find"
  /\ credential[q.key].user = q.user /\ ~credential[q.key].revoked
  /\ q.clone => CounterPolicy = "warn"
  /\ attempt' = [attempt EXCEPT ![a] =
       [step |-> "update", key |-> q.key, user |-> q.user, before |-> q.before,
        count |-> q.count, record |-> credential[q.key]]]
  /\ UNCHANGED <<active, handle, credential, ceremony, signs, saving, bounds, past>>

Recorded(a, row) ==
  LET q == attempt[a] IN
  /\ q.step = "update"
  /\ credential' = [credential EXCEPT ![q.key] = row]
  /\ attempt' = [attempt EXCEPT ![a] =
       [step |-> "issue", key |-> q.key, user |-> q.user, before |-> q.before]]
  /\ UNCHANGED <<active, handle, ceremony, signs, saving, bounds, past>>

\* a slip: the record that was found is saved whole, as users are
SaveAfterLogin(a) == Recorded(a, [attempt[a].record EXCEPT !.count = attempt[a].count])
UpdateAfterLogin(a) ==
  LET row == credential[attempt[a].key] IN
  /\ Recorded(a, [row EXCEPT !.count = attempt[a].count])
  /\ ~row.revoked /\ row.count = attempt[a].record.count

(* IssueLoginForUser looks at the account again, and saves it whole.       *)
IssueLogin(a) ==
  LET q == attempt[a] IN
  /\ q.step = "issue" /\ q.user \in active
  /\ attempt' = [attempt EXCEPT ![a] = Idle]
  /\ opened' = opened \cup ({q.key} \cap q.before)
  /\ UNCHANGED <<active, handle, credential, ceremony, signs, saving, bounds, tried, revoked>>

-----------------------------------------------------------------------------
(* Revoke, by the user or an administrator: one transaction that locks the *)
(* user's row.                                                             *)
Revoke(u, k) ==
  /\ k \in ListActive(u)
  /\ u \in OtherMethod \/ Cardinality(ListActive(u)) > 1
  /\ credential' = [credential EXCEPT ![k].revoked = TRUE]
  /\ revoked' = revoked \cup {k}
  /\ UNCHANGED <<active, handle, ceremony, attempt, signs, saving, bounds, tried, opened>>

(* Time, an administrator, and the other services.                         *)
Expires(c) ==
  /\ ceremony[c] # NotBegun /\ ceremony[c].open /\ ~ceremony[c].expired
  /\ ceremony' = [ceremony EXCEPT ![c].expired = TRUE]
  /\ UNCHANGED <<active, handle, credential, attempt, signs, saving, bounds, past>>

UpdateUser(u) ==
  /\ active' = IF u \in active THEN active \ {u} ELSE active \cup {u}
  /\ UNCHANGED <<handle, credential, ceremony, attempt, signs, saving, bounds, past>>

(* A sign-in or a change of the account elsewhere reads the row and saves  *)
(* it whole, handle included; whether it is active is left out.            *)
BeginSave(u) ==
  /\ saves < MaxSaves /\ saves' = saves + 1
  /\ saving' = saving \cup {[user |-> u, handle |-> handle[u]]}
  /\ UNCHANGED <<active, handle, credential, ceremony, attempt, signs, made, past>>

EndSave(s) ==
  /\ saving' = saving \ {s}
  /\ handle' = [handle EXCEPT ![s.user] = s.handle]
  /\ UNCHANGED <<active, credential, ceremony, attempt, signs, bounds, past>>

AttemptStep(a) ==
  \/ \E c \in Ceremonies : FinishRegistration(a, c) \/ FinishLogin(a, c)
  \/ \E k \in Keys : Register(a, k) \/ Validate(a, k)
  \/ FindRecord(a) \/ UpdateAfterLogin(a) \/ IssueLogin(a) \/ Refused(a)

Next ==
  \/ \E a \in Attempts : AttemptStep(a)
  \/ \E u \in Users : \/ \E c \in Ceremonies : BeginRegistration(u, c) \/ BeginLogin(u, c)
                      \/ \E k \in Keys : Revoke(u, k)
                      \/ UpdateUser(u) \/ BeginSave(u)
  \/ \E c \in Ceremonies : Expires(c)
  \/ \E s \in saving : EndSave(s)

Spec == Init /\ [][Next]_vars

-----------------------------------------------------------------------------
(* The rows keep their types, and an unused key has none.                  *)
TypeOK ==
  /\ active \subseteq Users /\ handle \in [Users -> 0..MaxHandles]
  /\ \A k \in Keys : credential[k] # NoKey =>
       credential[k].user \in Users /\ credential[k].count \in 0..MaxSigns
  /\ signs \in [Keys -> 0..MaxSigns]

(* A ceremony admits one attempt to finish it, of the kind it was begun    *)
(* for, however many arrive at once and however the first one ends         *)
(* (model.go, PublicKeyCeremony: "making every finish attempt single-use   *)
(* even when requests arrive concurrently").                               *)
CeremonyTriedOnce == \A c \in Ceremonies : tried[c] <= 1

(* A revocation lasts: a finish request that arrives after it opens no      *)
(* session with the key, whatever sign-ins with it were under way when it  *)
(* was revoked and save its row later (publickey_repo.go, Revoke and       *)
(* UpdateAfterLogin).  A request that arrived before the revocation and    *)
(* has recorded its counter still signs its owner in                       *)
(* (publickey_service.go:275, 282).                                        *)
RevokedSignsNobodyIn == opened = {}

(* What that leaves: a session may be issued after the revocation.         *)
RevocationIsImmediate ==
  [][\A a \in Attempts : IssueLogin(a) => attempt[a].key \notin revoked]_vars

(* The counter of a credential never goes back (publickey_repo.go,         *)
(* ErrCounterRace).                                                        *)
CounterGrows ==
  [][\A k \in Keys : credential[k] # NoKey => credential[k]'.count >= credential[k].count]_vars

(* The account of a credential keeps the handle its authenticator was      *)
(* given, without which it can sign in nobody.                             *)
PasskeysStayUsable ==
  \A k \in Keys : credential[k] # NoKey => handle[credential[k].user] = credential[k].handle
=============================================================================
