--------------------------- MODULE CredentialStore ---------------------------
(***************************************************************************)
(* The credential file and the sidecar lock its writers take, in whatever  *)
(* process they run.  Readers take no lock: the file is replaced by a      *)
(* rename, so that they find it before or after a mutation.                *)
(***************************************************************************)
EXTENDS Naturals, Sequences, SequencesExt, FiniteSets

CONSTANTS NoRecord, NoToken, Nobody

VARIABLES creds,        \* the file: a record, or none, under each reference
          storeLock,    \* who holds the lock file
          copy          \* the file as its holder read it

storeVars == <<creds, storeLock, copy>>

StoreInit(file) == creds = file /\ storeLock = Nobody /\ copy = NoRecord

(* The file is read again under the lock, never before it.                   *)
Acquire(t) ==
    /\ storeLock = Nobody
    /\ storeLock' = t
    /\ copy' = creds
    /\ UNCHANGED creds

(* Ten seconds are all a mutation waits for another one.                     *)
LockedTimeout(t) ==
    /\ storeLock \notin {t, Nobody}
    /\ UNCHANGED storeVars

(* Mutant: a missing refresh token is taken for a deletion.                  *)
DropMissingTokens(edited) == edited

(* A grant written without a refresh token keeps the one it had.             *)
PreserveRefreshTokens(edited) ==
    [r \in DOMAIN edited |->
        IF edited[r] # NoRecord /\ edited[r].kind = "oauth" /\ edited[r].refresh = NoToken
           /\ copy[r] # NoRecord /\ copy[r].kind = "oauth"
        THEN [edited[r] EXCEPT !.refresh = copy[r].refresh]
        ELSE edited[r]]

Persist(t, edited) ==
    /\ storeLock = t
    /\ creds' = PreserveRefreshTokens(edited)
    /\ storeLock' = Nobody
    /\ copy' = NoRecord

(* A mutation that fails, a write that fails and a holder that dies leave    *)
(* the file as it was.                                                      *)
Release(t) ==
    /\ storeLock = t
    /\ storeLock' = Nobody
    /\ copy' = NoRecord
    /\ UNCHANGED creds

(* Whoever holds the lock knows what the file holds, whatever the others do. *)
HolderIsCurrent == storeLock # Nobody => copy = creds
=============================================================================
