----------------------------- MODULE OAuthGrants -----------------------------
(***************************************************************************)
(* The OAuth grant stored under one reference: callers in any number of    *)
(* processes resolve it and refresh it when its access token has expired,  *)
(* inside the store's transaction, while the user logs in and out.  The    *)
(* provider takes a refresh token once when it rotates them.               *)
(***************************************************************************)
EXTENDS CredentialStore

CONSTANTS Grant,            \* the reference
          Callers,
          UserOrder,        \* the user's commands, one after another
          UserOp,           \* what each does: "login" or "logout"
          MaxTokens         \* bound on the tokens the provider mints

VARIABLES caller,           \* what each caller does
          user,             \* the user's commands
          provider,         \* the provider: the last token minted, the refresh tokens it
                            \* takes, the access tokens that have expired
          lost              \* refresh tokens spent by an exchange whose answer never reached the file

grantVars == <<storeVars, caller, user, provider, lost>>

UserOps == Range(UserOrder)
OAuth(access, refresh, account) ==
    [kind |-> "oauth", access |-> access, refresh |-> refresh, account |-> account]
Expired(record) == IF record = NoRecord THEN FALSE ELSE record.access \in provider.expired

Grants == [kind : {"oauth"}, access : Nat, refresh : Nat \cup {NoToken}, account : {"first"} \cup UserOps]

(* Callers and commands are different processes.                            *)
ASSUME GrantsAssumption ==
    /\ UserOrder \in Seq(UserOps)
    /\ NoRecord \notin Grants /\ NoToken \notin Nat /\ MaxTokens \in Nat \ {0}
    /\ Nobody \notin Callers \cup UserOps /\ Callers \cap UserOps = {}

GrantsInit ==
    /\ caller = [c \in Callers |-> [pc |-> "idle", posts |-> 0, reply |-> NoRecord]]
    /\ user = [u \in UserOps |-> [pc |-> "idle", minted |-> NoRecord]]
    /\ provider = [minted |-> 1, live |-> {1}, expired |-> {}]
    /\ lost = {}

GrantFile == [r \in {Grant} |-> OAuth(1, 1, "first")]
-----------------------------------------------------------------------------
(* The provider *)

Expire ==
    /\ \E t \in (1..provider.minted) \ provider.expired :
         provider' = [provider EXCEPT !.expired = @ \cup {t}]
    /\ UNCHANGED <<storeVars, caller, user, lost>>

(* What it answers a refresh token, and what that leaves of it: a new pair,  *)
(* the old token being spent, or a new access token alone.  (At the bound it *)
(* refuses.)                                                                *)
Exchange(grant) ==
    IF grant.refresh \notin provider.live \/ provider.minted = MaxTokens
    THEN {[reply |-> NoRecord, after |-> provider]}
    ELSE LET new == provider.minted + 1 IN
         {[reply |-> OAuth(new, new, grant.account),
           after |-> [provider EXCEPT !.minted = new, !.live = (@ \ {grant.refresh}) \cup {new}]],
          [reply |-> OAuth(new, NoToken, grant.account), after |-> [provider EXCEPT !.minted = new]]}
-----------------------------------------------------------------------------
(* resolve_ready *)

Ends(c, how) == caller' = [caller EXCEPT ![c].pc = how, ![c].reply = NoRecord, ![c].posts = 0]

(* The file is read without the lock; only an expired grant is refreshed.    *)
Resolve(c) ==
    /\ caller[c].pc \in {"idle", "rereading"}
    /\ IF creds[Grant] = NoRecord THEN Ends(c, "failed")
       ELSE IF caller[c].pc = "idle" /\ Expired(creds[Grant])
       THEN caller' = [caller EXCEPT ![c].pc = "locking"]
       ELSE caller' = [caller EXCEPT ![c].pc = "ready"]
    /\ UNCHANGED <<storeVars, user, provider, lost>>

RefreshLocks(c) ==
    /\ caller[c].pc = "locking"
    /\ \/ Acquire(c) /\ caller' = [caller EXCEPT ![c].pc = "checking"]
       \/ LockedTimeout(c) /\ Ends(c, "failed")
    /\ UNCHANGED <<user, provider, lost>>

(* Under the lock the grant is looked at again: it may be gone, or another   *)
(* caller may have refreshed it (the file is written as it was read).        *)
RefreshChecks(c) ==
    /\ caller[c].pc = "checking"
    /\ LET record == copy[Grant] IN
       \/ /\ IF record = NoRecord THEN TRUE ELSE Expired(record) /\ record.refresh = NoToken
          /\ Release(c) /\ Ends(c, "failed")
       \/ /\ record # NoRecord /\ ~Expired(record)
          /\ Persist(c, copy) /\ caller' = [caller EXCEPT ![c].pc = "rereading"]
       \/ /\ Expired(record) /\ record.refresh # NoToken
          /\ caller' = [caller EXCEPT ![c].pc = "posting"] /\ UNCHANGED storeVars
    /\ UNCHANGED <<user, provider, lost>>

(* A request that never left is sent once more, and one whose outcome is     *)
(* unknown is confirmed once; a refusal, and a second failure, end it.       *)
RefreshPosts(c) ==
    /\ caller[c].pc = "posting"
    /\ \/ \E x \in Exchange(copy[Grant]) :                              \* answered
            /\ provider' = x.after
            /\ IF x.reply = NoRecord THEN Release(c) /\ Ends(c, "failed")
               ELSE /\ caller' = [caller EXCEPT ![c].pc = "landing", ![c].reply = x.reply]
                    /\ UNCHANGED storeVars
            /\ UNCHANGED lost
       \/ \E x \in Exchange(copy[Grant]) \cup {[reply |-> NoRecord, after |-> provider]} :  \* no answer
            /\ provider' = x.after
            /\ lost' = lost \cup (provider.live \ x.after.live)
            /\ IF caller[c].posts = 0
               THEN caller' = [caller EXCEPT ![c].posts = 1] /\ UNCHANGED storeVars
               ELSE Release(c) /\ Ends(c, "failed")
    /\ UNCHANGED user

RefreshLands(c) ==
    /\ caller[c].pc = "landing"
    /\ \/ /\ Persist(c, [copy EXCEPT ![Grant] = caller[c].reply])
          /\ caller' = [caller EXCEPT ![c].pc = "rereading", ![c].reply = NoRecord, ![c].posts = 0]
          /\ UNCHANGED lost
       \/ Release(c) /\ Ends(c, "failed") /\ lost' = lost \cup {copy[Grant].refresh}
    /\ UNCHANGED <<user, provider>>

(* The process dies; the lock of a dead process is free.                     *)
CallerDies(c) ==
    /\ caller[c].pc \in {"locking", "checking", "posting", "landing"}
    /\ Ends(c, "failed")
    /\ IF storeLock = c THEN Release(c) ELSE UNCHANGED storeVars
    /\ lost' = IF caller[c].pc = "landing" THEN lost \cup {copy[Grant].refresh} ELSE lost
    /\ UNCHANGED <<user, provider>>
-----------------------------------------------------------------------------
(* The user *)

(* A login mints its grant first and stores it afterwards.                   *)
UserBegins(u) ==
    /\ user[u].pc = "idle"
    /\ \A i, j \in DOMAIN UserOrder : i < j /\ UserOrder[j] = u => user[UserOrder[i]].pc \in {"done", "refused"}
    /\ IF UserOp[u] = "logout"
       THEN user' = [user EXCEPT ![u].pc = "locking"] /\ UNCHANGED provider
       ELSE LET new == provider.minted + 1 IN
            /\ provider.minted < MaxTokens
            /\ user' = [user EXCEPT ![u] = [pc |-> "locking", minted |-> OAuth(new, new, u)]]
            /\ provider' = [provider EXCEPT !.minted = new, !.live = @ \cup {new}]
    /\ UNCHANGED <<storeVars, caller, lost>>

UserLocks(u) ==
    /\ user[u].pc = "locking"
    /\ \/ Acquire(u) /\ user' = [user EXCEPT ![u].pc = "writing"]
       \/ LockedTimeout(u) /\ user' = [user EXCEPT ![u].pc = "refused"]
    /\ UNCHANGED <<caller, provider, lost>>

UserWrites(u) ==
    /\ user[u].pc = "writing"
    /\ Persist(u, [copy EXCEPT ![Grant] = user[u].minted])
    /\ user' = [user EXCEPT ![u].pc = "done"]
    /\ UNCHANGED <<caller, provider, lost>>
-----------------------------------------------------------------------------
CallerStep(c) == Resolve(c) \/ RefreshLocks(c) \/ RefreshChecks(c) \/ RefreshPosts(c) \/ RefreshLands(c)
UserStep(u) == UserBegins(u) \/ UserLocks(u) \/ UserWrites(u)

GrantsNext ==
    \/ Expire
    \/ \E c \in Callers : CallerStep(c) \/ CallerDies(c)
    \/ \E u \in UserOps : UserStep(u)

GrantsTypeOK ==
    /\ provider.minted \in 1..MaxTokens /\ provider.live \cup provider.expired \subseteq 1..provider.minted
    /\ \A c \in Callers :
         /\ caller[c].pc \in {"idle", "locking", "checking", "posting", "landing", "rereading", "ready", "failed"}
         /\ caller[c].posts \in 0..1
    /\ \A u \in UserOps : user[u].pc \in {"idle", "locking", "writing", "done", "refused"}
    /\ lost \subseteq 1..provider.minted
-----------------------------------------------------------------------------

(* A stored grant keeps a refresh token, and it is one the provider still    *)
(* takes, unless the lock's holder has just exchanged it or the answer of    *)
(* its exchange never reached the file: contenders never spend one twice.    *)
StoredGrantIsLive ==
    creds[Grant] # NoRecord =>
        \/ creds[Grant].refresh \in provider.live
        \/ creds[Grant].refresh \in lost
        \/ \E c \in Callers : caller[c].pc = "landing" /\ storeLock = c

(* Only the holder of the lock exchanges, and with the token that is stored. *)
ExchangeIsExclusive ==
    \A c \in Callers : caller[c].pc \in {"checking", "posting", "landing"} =>
        storeLock = c /\ copy = creds

(* What the user did last stands: a refresh that was on its way neither      *)
(* brings back a grant that was removed nor overwrites a later login.        *)
LastWordIsTheUsers ==
    \A i \in DOMAIN UserOrder :
        LET u == UserOrder[i] IN
        user[u].pc = "done" /\ (\A j \in DOMAIN UserOrder : j > i => user[UserOrder[j]].pc \in {"idle", "refused"})
        => IF UserOp[u] = "logout" THEN creds[Grant] = NoRecord
           ELSE creds[Grant] # NoRecord /\ creds[Grant].account = u
=============================================================================
