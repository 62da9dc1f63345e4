------------------------------ MODULE MCSignIn ------------------------------
(***************************************************************************)
(* Who gets in, for TLC: accounts and sessions, and the ceremonies of      *)
(* public keys.  The two keep separate state (public keys see of a users   *)
(* row only its handle and whether it is active), so a behaviour exercises *)
(* one of them, chosen at first, and leaves the other as it was.           *)
(***************************************************************************)
EXTENDS MCAuthService

CONSTANTS
  KeyUsers, OtherMethod, Keys, Ceremonies, Attempts, CounterPolicy, MaxSigns, MaxHandles, MaxSaves

VARIABLES
  part,
  active, handle, credential, ceremony, attempt, signs, saving, made, saves, tried, revoked, opened

Passkeys == INSTANCE PublicKeys WITH Users <- KeyUsers

ASSUME PublicKeysAssumption == Passkeys!PublicKeysAssumption

keyVars == <<active, handle, credential, ceremony, attempt, signs, saving, made, saves,
             tried, revoked, opened>>
all == <<part, vars, keyVars>>

MCInit == part \in {"accounts", "keys"} /\ Init /\ Passkeys!Init

MCNext ==
  /\ UNCHANGED part
  /\ \/ part = "accounts" /\ Next /\ UNCHANGED keyVars
     \/ part = "keys" /\ Passkeys!Next /\ UNCHANGED vars

MCSpec == MCInit /\ [][MCNext]_all

(* PublicKeys: a ceremony is tried once, and a revocation lasts.           *)
CeremonyTriedOnce == Passkeys!CeremonyTriedOnce
RevokedSignsNobodyIn == Passkeys!RevokedSignsNobodyIn
=============================================================================
