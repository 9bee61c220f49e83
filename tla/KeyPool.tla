------------------------------- MODULE KeyPool -------------------------------
(***************************************************************************)
(* The API keys pooled under one reference: runs of the wire adapter, in   *)
(* any number of processes, resolve the pool, send with its first healthy  *)
(* member, record what the endpoint says of a key and rotate, while the    *)
(* user stores and removes keys.                                           *)
(***************************************************************************)
EXTENDS CredentialStore

CONSTANTS SlotOrder,            \* the references of the pool, in their order
          KeyRuns,
          EditOrder,            \* the user's commands, one after another
          EditOf,               \* what each does: [op, slot, key]
          PoolAtStart,          \* the keys stored in the slots at the start
          NoKey,
          MaxTime,              \* bound on the clock
          BaseCooldown, MaxCooldown, MaxRetryAfter,
          RetryAfters           \* the Retry-After values endpoints declare; 0 for none

ASSUME CooldownAssumption ==
    /\ {BaseCooldown, MaxCooldown, MaxRetryAfter, MaxTime} \cup RetryAfters \subseteq Nat
    /\ 0 < BaseCooldown /\ BaseCooldown <= MaxCooldown /\ 0 < MaxRetryAfter

VARIABLES now, keyRun, edit

poolVars == <<storeVars, now, keyRun, edit>>

Slots == Range(SlotOrder)
Edits == Range(EditOrder)
Healthy == [until |-> 0, step |-> 0, invalid |-> FALSE]
Api(key) == [kind |-> "api", key |-> key, state |-> Healthy]
Keys == {EditOf[e].key : e \in Edits} \cup ({PoolAtStart[s] : s \in Slots} \ {NoKey})
KeyState == [until : Nat, step : Nat, invalid : BOOLEAN]
ApiRecord == [kind : {"api"}, key : Keys, state : KeyState]

(* Runs and commands are different processes, and a command names a slot     *)
(* unless it adds a key.                                                    *)
ASSUME PoolAssumption ==
    /\ SlotOrder \in Seq(Slots)
    /\ NoRecord \notin ApiRecord /\ "none" \notin Slots
    /\ Nobody \notin KeyRuns \cup Edits /\ KeyRuns \cap Edits = {}
    /\ \A e \in Edits : EditOf[e].op # "add" => EditOf[e].slot \in Slots

Stored(file) == {s \in Slots : file[s] # NoRecord}
UsableState(state) == ~state.invalid /\ state.until <= now
Lesser(a, b) == IF a < b THEN a ELSE b

(* What a run knows; `earned` is what endpoints answered it, by slot.        *)
NewRun == [pc |-> "idle", members |-> << >>, using |-> 0,
           verdict |-> [status |-> "none", after |-> 0], earned |-> {}]
RunEnded(run, how) == [NewRun EXCEPT !.pc = how, !.earned = run.earned]

PoolInit ==
    /\ now = 0
    /\ keyRun = [r \in KeyRuns |-> NewRun]
    /\ edit = [e \in Edits |-> [pc |-> "idle", slot |-> "none"]]

PoolFile == [s \in Slots |-> IF PoolAtStart[s] = NoKey THEN NoRecord ELSE Api(PoolAtStart[s])]
-----------------------------------------------------------------------------
(* What is recorded of a key *)

MarkKeyCooling(state, after) ==
    LET step == IF after > 0 THEN Lesser(after, MaxRetryAfter)
                ELSE IF state.step = 0 THEN BaseCooldown
                ELSE Lesser(2 * state.step, MaxCooldown)
    IN [state EXCEPT !.until = now + step, !.step = step]

MarkKeyInvalid == [Healthy EXCEPT !.invalid = TRUE]

(* The mark goes to whatever key the slot holds by now.                      *)
RecordKeyFailure(file, slot, verdict) ==
    IF file[slot] = NoRecord THEN file
    ELSE [file EXCEPT ![slot].state = IF verdict.status = "limited"
                                      THEN MarkKeyCooling(@, verdict.after) ELSE MarkKeyInvalid]

ClearKeyState(file, slot) ==
    IF file[slot] = NoRecord THEN file ELSE [file EXCEPT ![slot].state = Healthy]
-----------------------------------------------------------------------------
(* A run *)

Members(file) ==
    [i \in {i \in DOMAIN SlotOrder : file[SlotOrder[i]] # NoRecord} |->
        LET slot == SlotOrder[i]
        IN [slot |-> slot, key |-> file[slot].key, state |-> file[slot].state, attempted |-> FALSE]]

Usable(run) == {i \in DOMAIN run.members : ~run.members[i].attempted /\ UsableState(run.members[i].state)}

(* The pool is resolved once: what is recorded of a key later is not seen.   *)
ResolvePool(r) ==
    /\ keyRun[r].pc = "idle"
    /\ keyRun' = [keyRun EXCEPT ![r] = IF Stored(creds) = {} THEN RunEnded(@, "failed")
                                       ELSE [@ EXCEPT !.members = Members(creds), !.pc = "choosing"]]
    /\ UNCHANGED <<storeVars, now, edit>>

(* The first member that is usable now is sent; material that makes no       *)
(* header is passed over.                                                   *)
SendNext(r) ==
    /\ keyRun[r].pc = "choosing"
    /\ LET usable == Usable(keyRun[r]) IN
       \/ usable = {} /\ keyRun' = [keyRun EXCEPT ![r] = RunEnded(@, "failed")]
       \/ \E first \in usable, pc \in {"sent", "choosing"} :
            /\ \A j \in usable : first <= j
            /\ keyRun' = [keyRun EXCEPT ![r].members[first].attempted = TRUE, ![r].using = first, ![r].pc = pc]
    /\ UNCHANGED <<storeVars, now, edit>>

(* A success clears what was recorded of the key when the pool was resolved; *)
(* 401, 403 and 429 are recorded; any other failure, and a request that got  *)
(* no response, ends the run with nothing said of the key.                   *)
EndpointAnswers(r) ==
    /\ keyRun[r].pc = "sent"
    /\ LET member == keyRun[r].members[keyRun[r].using]
           Judged(status, after) ==
               [keyRun EXCEPT ![r].pc = "record", ![r].verdict = [status |-> status, after |-> after],
                              ![r].earned = @ \cup {<<member.slot, status>>}]
       IN \/ keyRun' = [keyRun EXCEPT ![r] = IF member.state = Healthy THEN RunEnded(@, "succeeded")
                                             ELSE [@ EXCEPT !.pc = "clear"]]
          \/ \E after \in RetryAfters : keyRun' = Judged("limited", after)
          \/ keyRun' = Judged("rejected", 0)
          \/ keyRun' = [keyRun EXCEPT ![r] = RunEnded(@, "failed")]
    /\ UNCHANGED <<storeVars, now, edit>>

RunLocks(r) ==
    /\ keyRun[r].pc \in {"record", "clear"} /\ storeLock # r
    /\ Acquire(r)
    /\ UNCHANGED <<now, keyRun, edit>>

(* Whether or not the mark was written, a run goes on with the next usable   *)
(* member, or ends with the response it has.                                *)
RunGoesOn(r) ==
    keyRun' = [keyRun EXCEPT ![r] = IF @.pc = "clear" THEN RunEnded(@, "succeeded")
                                    ELSE IF Usable(@) = {} THEN RunEnded(@, "failed")
                                    ELSE [@ EXCEPT !.pc = "choosing"]]

RunRecords(r) ==
    /\ keyRun[r].pc \in {"record", "clear"}
    /\ LET slot == keyRun[r].members[keyRun[r].using].slot IN
       Persist(r, IF keyRun[r].pc = "clear" THEN ClearKeyState(copy, slot)
                  ELSE RecordKeyFailure(copy, slot, keyRun[r].verdict))
    /\ RunGoesOn(r)
    /\ UNCHANGED <<now, edit>>

RunCannotRecord(r) ==
    /\ keyRun[r].pc \in {"record", "clear"}
    /\ LockedTimeout(r) \/ Release(r)
    /\ RunGoesOn(r)
    /\ UNCHANGED <<now, edit>>

(* A cancelled or killed run stops where it is; a lock it holds is freed.    *)
RunDies(r) ==
    /\ keyRun[r].pc \in {"record", "clear"}
    /\ keyRun' = [keyRun EXCEPT ![r] = RunEnded(@, "failed")]
    /\ IF storeLock = r THEN Release(r) ELSE UNCHANGED storeVars
    /\ UNCHANGED <<now, edit>>
-----------------------------------------------------------------------------
(* The user *)

EditLocks(e) ==
    /\ edit[e].pc = "idle"
    /\ \A i, j \in DOMAIN EditOrder : i < j /\ EditOrder[j] = e => edit[EditOrder[i]].pc \in {"done", "refused"}
    /\ \/ Acquire(e) /\ edit' = [edit EXCEPT ![e].pc = "editing"]
       \/ LockedTimeout(e) /\ edit' = [edit EXCEPT ![e].pc = "refused"]
    /\ UNCHANGED <<now, keyRun>>

(* Adding the material of a member revives it; new material takes the first  *)
(* free slot, if there is one (their number is bounded here); storing under  *)
(* a reference overwrites it.                                               *)
First(slots) ==
    {SlotOrder[i] : i \in {i \in DOMAIN SlotOrder : /\ SlotOrder[i] \in slots
                             /\ \A j \in DOMAIN SlotOrder : SlotOrder[j] \in slots => i <= j}}

SlotFor(file, job) ==
    LET twins == {s \in Stored(file) : file[s].key = job.key}
    IN IF job.op # "add" THEN {job.slot}
       ELSE First(IF twins # {} THEN twins ELSE Slots \ Stored(file))

EditPersists(e) ==
    /\ edit[e].pc = "editing"
    /\ \E slot \in SlotFor(copy, EditOf[e]) :
         /\ Persist(e, [copy EXCEPT ![slot] = IF EditOf[e].op = "remove" THEN NoRecord ELSE Api(EditOf[e].key)])
         /\ edit' = [edit EXCEPT ![e] = [pc |-> "done", slot |-> slot]]
    /\ UNCHANGED <<now, keyRun>>

EditFails(e) ==
    /\ edit[e].pc = "editing"
    /\ Release(e)
    /\ edit' = [edit EXCEPT ![e].pc = "refused"]
    /\ UNCHANGED <<now, keyRun>>

Elapse ==
    /\ now < MaxTime
    /\ now' = now + 1
    /\ UNCHANGED <<storeVars, keyRun, edit>>
-----------------------------------------------------------------------------
RunStep(r) == ResolvePool(r) \/ SendNext(r) \/ RunLocks(r) \/ RunRecords(r) \/ RunCannotRecord(r)
EditStep(e) == EditLocks(e) \/ EditPersists(e) \/ EditFails(e)

PoolNext ==
    \/ Elapse
    \/ \E r \in KeyRuns : RunStep(r) \/ EndpointAnswers(r) \/ RunDies(r)
    \/ \E e \in Edits : EditStep(e)

RunOver == {"succeeded", "failed"}

PoolTypeOK ==
    /\ now \in 0..MaxTime
    /\ \A r \in KeyRuns :
         /\ keyRun[r].pc \in {"idle", "choosing", "sent", "record", "clear"} \cup RunOver
         /\ \A i \in DOMAIN keyRun[r].members :
              keyRun[r].members[i].slot \in Slots /\ keyRun[r].members[i].state.until \in Nat
    /\ \A e \in Edits : edit[e].pc \in {"idle", "editing", "done", "refused"}
-----------------------------------------------------------------------------

(* What is recorded against a slot was answered to a run that used the slot: *)
(* no run benches a key no endpoint complained of.                           *)
BenchedForCause ==
    \A s \in Stored(creds) :
        /\ creds[s].state.invalid => \E r \in KeyRuns : <<s, "rejected">> \in keyRun[r].earned
        /\ creds[s].state.until > 0 => \E r \in KeyRuns : <<s, "limited">> \in keyRun[r].earned

(* What a command of the user did stands whatever the runs record meanwhile, *)
(* until another command concerns the same slot.                             *)
EditsStand ==
    \A e \in Edits :
        edit[e].pc = "done" /\ (\A f \in Edits \ {e} : edit[f].slot # edit[e].slot) =>
            LET record == creds[edit[e].slot] IN
            IF EditOf[e].op = "remove" THEN record = NoRecord
            ELSE record # NoRecord /\ record.key = EditOf[e].key

(* A rejected key stays out of rotation until the user stores it again or    *)
(* removes it (schema.rs:363-365).                                          *)
InvalidStaysOut ==
    [][\A s \in Stored(creds) :
          creds[s].state.invalid /\ (creds'[s] = NoRecord \/ ~creds'[s].state.invalid)
          => storeLock \in Edits]_poolVars
=============================================================================
