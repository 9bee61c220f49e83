-------------------------- MODULE ModelGatewayProofs --------------------------
(***************************************************************************)
(* What is proved of the model gateway.  Of the credentials behind it: the *)
(* keys pooled under one reference and the grant under another are records *)
(* of one file that many processes change.  Each kind has an inductive     *)
(* invariant of its own (PoolInv, GrantsInv) over the same store, and      *)
(* ModelInv puts them side by side.  Of one answer it serves (AnswerInv):  *)
(* what is on the wire is what the gateway took from the channel of the    *)
(* run, which holds the rest in order.                                     *)
(***************************************************************************)
EXTENDS MCModelGateway, TLAPS

-----------------------------------------------------------------------------
(* The keys. *)

ApiFile == [Slots -> {NoRecord} \cup ApiRecord]
Member == [slot : Slots, key : Keys, state : KeyState, attempted : BOOLEAN]
Roster == {<< >>} \cup UNION {[S -> Member] : S \in SUBSET DOMAIN SlotOrder}
Complaints == Slots \X {"limited", "rejected"}
RunState == [pc : {"idle", "choosing", "sent", "record", "clear", "succeeded", "failed"},
             members : Roster, using : Nat,
             verdict : [status : {"none", "limited", "rejected"}, after : Nat],
             earned : SUBSET Complaints]
EditState == [pc : {"idle", "editing", "done", "refused"}, slot : Slots \cup {"none"}]

PoolTyped ==
    /\ now \in 0..MaxTime
    /\ creds \in ApiFile
    /\ storeLock \in {Nobody} \cup KeyRuns \cup Edits
    /\ keyRun \in [KeyRuns -> RunState]
    /\ edit \in [Edits -> EditState]

(* A run that sent a key knows which one, and what it is about to record of *)
(* it is what the endpoint answered.                                        *)
VerdictsAreEarned ==
    \A r \in KeyRuns :
        /\ keyRun[r].pc \in {"sent", "record", "clear"} => keyRun[r].using \in DOMAIN keyRun[r].members
        /\ keyRun[r].pc = "record" =>
               /\ keyRun[r].verdict.status # "none"
               /\ <<keyRun[r].members[keyRun[r].using].slot, keyRun[r].verdict.status>> \in keyRun[r].earned

EditsAreSlotted == \A e \in Edits : edit[e].pc = "done" <=> edit[e].slot # "none"

PoolInv ==
    /\ PoolTyped /\ HolderIsCurrent /\ VerdictsAreEarned /\ EditsAreSlotted
    /\ BenchedForCause /\ EditsStand

-----------------------------------------------------------------------------
(* A file of keys holds no grant, whose refresh token would be carried over. *)
LEMMA KeysAreNoGrants == ASSUME NEW file \in ApiFile PROVE PreserveRefreshTokens(file) = file
<1>1. \A s \in Slots : file[s] = NoRecord \/ file[s].kind = "api" BY DEF ApiFile, ApiRecord
<1>2. DOMAIN file = Slots BY DEF ApiFile
<1>3. PreserveRefreshTokens(file) = [s \in Slots |-> file[s]]
    BY <1>1, <1>2 DEF PreserveRefreshTokens
<1>. QED BY <1>3 DEF ApiFile

LEMMA SlotsAreNamed == \A i \in DOMAIN SlotOrder : SlotOrder[i] \in Slots
BY DEF Slots, Range

LEMMA StoredKeys ==
    ASSUME NEW file \in ApiFile, NEW s \in Slots
    PROVE  /\ file[s] = NoRecord \/ file[s] \in ApiRecord
           /\ file[s] # NoRecord => /\ file[s].key \in Keys /\ file[s].state \in KeyState
                                    /\ file[s].state.until \in Nat /\ file[s].state.step \in Nat
                                    /\ file[s].state.invalid \in BOOLEAN /\ file[s].kind = "api"
BY DEF ApiFile, ApiRecord, KeyState

LEMMA RunsEnd ==
    ASSUME NEW run \in RunState, NEW how \in {"succeeded", "failed"}
    PROVE  /\ RunEnded(run, how) \in RunState /\ RunEnded(run, how).pc = how
           /\ RunEnded(run, how).earned = run.earned
BY DEF RunEnded, NewRun, RunState, Roster

LEMMA RosterMembers ==
    ASSUME NEW run \in RunState
    PROVE  /\ DOMAIN run.members \subseteq DOMAIN SlotOrder
           /\ \A i \in DOMAIN run.members : run.members[i] \in Member
<1>1. run.members \in Roster BY DEF RunState
<1>2. CASE run.members = << >> BY <1>2
<1>3. CASE run.members # << >>
    <2>1. PICK S \in SUBSET DOMAIN SlotOrder : run.members \in [S -> Member] BY <1>1, <1>3 DEF Roster
    <2>. QED BY <2>1
<1>. QED BY <1>2, <1>3

LEMMA MembersAreStored ==
    ASSUME NEW file \in ApiFile
    PROVE  Members(file) \in Roster
<1> DEFINE S == {i \in DOMAIN SlotOrder : file[SlotOrder[i]] # NoRecord}
<1>1. \A i \in S : [slot |-> SlotOrder[i], key |-> file[SlotOrder[i]].key,
                    state |-> file[SlotOrder[i]].state, attempted |-> FALSE] \in Member
    BY SlotsAreNamed, StoredKeys DEF Member
<1>2. Members(file) \in [S -> Member] BY <1>1 DEF Members
<1>3. S \in SUBSET DOMAIN SlotOrder OBVIOUS
<1>. QED BY <1>2, <1>3 DEF Roster

LEMMA MembersMarked ==
    ASSUME NEW run \in RunState, NEW first \in DOMAIN run.members
    PROVE  /\ [run.members EXCEPT ![first].attempted = TRUE] \in Roster
           /\ DOMAIN [run.members EXCEPT ![first].attempted = TRUE] = DOMAIN run.members
<1>1. run.members # << >> OBVIOUS
<1>2. PICK S \in SUBSET DOMAIN SlotOrder : run.members \in [S -> Member] BY <1>1 DEF RunState, Roster
<1>3. [run.members EXCEPT ![first].attempted = TRUE] \in [S -> Member] BY <1>2 DEF Member
<1>. QED BY <1>2, <1>3 DEF Roster

(* A step of one run that leaves the file alone, keeps what it earned and    *)
(* knows what it sent.                                                      *)
LEMMA RunOnly ==
    ASSUME PoolInv, NEW r \in KeyRuns, NEW run \in RunState,
           keyRun' = [keyRun EXCEPT ![r] = run], UNCHANGED <<creds, now, edit>>,
           storeLock' \in {Nobody} \cup KeyRuns \cup Edits, HolderIsCurrent',
           keyRun[r].earned \subseteq run.earned,
           run.pc \in {"sent", "record", "clear"} => run.using \in DOMAIN run.members,
           run.pc = "record" => /\ run.verdict.status # "none"
                                /\ <<run.members[run.using].slot, run.verdict.status>> \in run.earned
    PROVE  PoolInv'
<1>1. keyRun \in [KeyRuns -> RunState] BY DEF PoolInv, PoolTyped
<1>2. /\ keyRun' \in [KeyRuns -> RunState] /\ keyRun'[r] = run
      /\ \A q \in KeyRuns \ {r} : keyRun'[q] = keyRun[q]
    BY <1>1
<1>3. PoolTyped' BY <1>2 DEF PoolInv, PoolTyped
<1>4. VerdictsAreEarned' BY <1>2 DEF PoolInv, VerdictsAreEarned
<1>5. BenchedForCause'
    <2>1. \A q \in KeyRuns : keyRun[q].earned \subseteq keyRun'[q].earned BY <1>2
    <2>. QED BY <2>1 DEF PoolInv, BenchedForCause, Stored
<1>6. EditsStand' /\ EditsAreSlotted' BY DEF PoolInv, EditsStand, EditsAreSlotted
<1>. QED BY <1>3, <1>4, <1>5, <1>6 DEF PoolInv

LEMMA ResolveKeeps == ASSUME PoolInv, NEW r \in KeyRuns, ResolvePool(r) PROVE PoolInv'
<1>1. keyRun[r] \in RunState /\ creds \in ApiFile BY DEF PoolInv, PoolTyped
<1>2. UNCHANGED <<creds, storeLock, copy, now, edit>> BY DEF ResolvePool, storeVars
<1>3. HolderIsCurrent' /\ storeLock' \in {Nobody} \cup KeyRuns \cup Edits
    BY <1>2 DEF PoolInv, PoolTyped, HolderIsCurrent
<1>4. CASE Stored(creds) = {}
    <2>1. keyRun' = [keyRun EXCEPT ![r] = RunEnded(keyRun[r], "failed")] BY <1>4 DEF ResolvePool
    <2>. QED BY <1>1, <1>2, <1>3, <2>1, RunsEnd, RunOnly
<1>5. CASE Stored(creds) # {}
    <2> DEFINE run == [keyRun[r] EXCEPT !.members = Members(creds), !.pc = "choosing"]
    <2>1. keyRun' = [keyRun EXCEPT ![r] = run] BY <1>5 DEF ResolvePool
    <2>2. run \in RunState /\ run.pc = "choosing" /\ run.earned = keyRun[r].earned
        BY <1>1, MembersAreStored DEF RunState
    <2>. HIDE DEF run
    <2>. QED BY <1>2, <1>3, <2>1, <2>2, RunOnly
<1>. QED BY <1>4, <1>5

LEMMA SendKeeps == ASSUME PoolInv, NEW r \in KeyRuns, SendNext(r) PROVE PoolInv'
<1>1. keyRun \in [KeyRuns -> RunState] /\ keyRun[r] \in RunState BY DEF PoolInv, PoolTyped
<1>2. UNCHANGED <<creds, storeLock, copy, now, edit>> BY DEF SendNext, storeVars
<1>3. HolderIsCurrent' /\ storeLock' \in {Nobody} \cup KeyRuns \cup Edits
    BY <1>2 DEF PoolInv, PoolTyped, HolderIsCurrent
<1>4. CASE keyRun' = [keyRun EXCEPT ![r] = RunEnded(keyRun[r], "failed")]
    BY <1>1, <1>2, <1>3, <1>4, RunsEnd, RunOnly
<1>5. ASSUME NEW first \in Usable(keyRun[r]), NEW pc \in {"sent", "choosing"},
             keyRun' = [keyRun EXCEPT ![r].members[first].attempted = TRUE, ![r].using = first, ![r].pc = pc]
      PROVE  PoolInv'
    <2> DEFINE run == [keyRun[r] EXCEPT !.members = [keyRun[r].members EXCEPT ![first].attempted = TRUE],
                                        !.using = first, !.pc = pc]
    <2>1. first \in DOMAIN keyRun[r].members BY DEF Usable
    <2>2. first \in Nat BY <2>1, <1>1, RosterMembers, PoolAssumption
    <2>3. keyRun' = [keyRun EXCEPT ![r] = run] BY <1>1, <1>5 DEF RunState
    <2>4. /\ run \in RunState /\ run.pc = pc /\ run.earned = keyRun[r].earned /\ run.using = first
          /\ first \in DOMAIN run.members
        BY <1>1, <2>1, <2>2, MembersMarked DEF RunState
    <2>. HIDE DEF run
    <2>. QED BY <1>2, <1>3, <2>3, <2>4, RunOnly
<1>. QED BY <1>4, <1>5 DEF SendNext

LEMMA AnswerKeeps == ASSUME PoolInv, NEW r \in KeyRuns, EndpointAnswers(r) PROVE PoolInv'
<1> DEFINE run == keyRun[r]
           member == run.members[run.using]
<1>1. run \in RunState /\ run.using \in DOMAIN run.members
    BY DEF PoolInv, PoolTyped, VerdictsAreEarned, EndpointAnswers
<1>2. UNCHANGED <<creds, storeLock, copy, now, edit>> BY DEF EndpointAnswers, storeVars
<1>3. HolderIsCurrent' /\ storeLock' \in {Nobody} \cup KeyRuns \cup Edits
    BY <1>2 DEF PoolInv, PoolTyped, HolderIsCurrent
<1>4. member \in Member /\ member.slot \in Slots BY <1>1, RosterMembers DEF Member
<1>5. keyRun \in [KeyRuns -> RunState] BY DEF PoolInv, PoolTyped
<1>. HIDE DEF member
<1>6. ASSUME NEW how \in {"succeeded", "failed"}, keyRun' = [keyRun EXCEPT ![r] = RunEnded(run, how)]
      PROVE  PoolInv'
    BY <1>1, <1>2, <1>3, <1>6, RunsEnd, RunOnly
<1>7. ASSUME keyRun' = [keyRun EXCEPT ![r] = [run EXCEPT !.pc = "clear"]] PROVE PoolInv'
    <2> DEFINE cleared == [run EXCEPT !.pc = "clear"]
    <2>1. /\ cleared \in RunState /\ cleared.pc = "clear" /\ cleared.earned = run.earned
          /\ cleared.using = run.using /\ cleared.members = run.members
        BY <1>1 DEF RunState
    <2>. HIDE DEF cleared
    <2>2. keyRun' = [keyRun EXCEPT ![r] = cleared] BY <1>7 DEF cleared
    <2>. QED BY <1>1, <1>2, <1>3, <2>1, <2>2, RunOnly
<1>8. ASSUME NEW status \in {"limited", "rejected"}, NEW after \in Nat,
             keyRun' = [keyRun EXCEPT ![r].pc = "record", ![r].verdict = [status |-> status, after |-> after],
                                      ![r].earned = @ \cup {<<member.slot, status>>}]
      PROVE  PoolInv'
    <2> DEFINE judged == [run EXCEPT !.pc = "record", !.verdict = [status |-> status, after |-> after],
                                    !.earned = @ \cup {<<member.slot, status>>}]
    <2>1. /\ judged \in RunState /\ judged.pc = "record" /\ judged.earned = run.earned \cup {<<member.slot, status>>}
          /\ judged.using = run.using /\ judged.members = run.members /\ judged.verdict.status = status
        <3>1. <<member.slot, status>> \in Complaints BY <1>4 DEF Complaints
        <3>2. run.earned \cup {<<member.slot, status>>} \in SUBSET Complaints BY <1>1, <3>1 DEF RunState
        <3>3. [status |-> status, after |-> after]
                  \in [status : {"none", "limited", "rejected"}, after : Nat]
            OBVIOUS
        <3>. QED BY <1>1, <3>2, <3>3 DEF RunState
    <2>2. keyRun' = [keyRun EXCEPT ![r] = judged] BY <1>5, <1>8 DEF RunState
    <2>3. judged.members[judged.using].slot = member.slot BY <2>1 DEF member
    <2>. HIDE DEF judged
    <2>. QED BY <1>1, <1>2, <1>3, <2>1, <2>2, <2>3, RunOnly
<1>9. RetryAfters \subseteq Nat BY CooldownAssumption
<1>. QED BY <1>6, <1>7, <1>8, <1>9 DEF EndpointAnswers, member

(* The file in the hands of whoever holds the lock.                         *)
LEMMA LockKeeps ==
    ASSUME PoolInv, NEW t \in KeyRuns \cup Edits,
           Acquire(t) \/ LockedTimeout(t) \/ Release(t) \/ UNCHANGED storeVars
    PROVE  /\ creds' = creds /\ HolderIsCurrent' /\ storeLock' \in {Nobody} \cup KeyRuns \cup Edits
BY DEF PoolInv, PoolTyped, Acquire, LockedTimeout, Release, storeVars, HolderIsCurrent

LEMMA RunLocksKeeps == ASSUME PoolInv, NEW r \in KeyRuns, RunLocks(r) PROVE PoolInv'
<1>1. creds' = creds /\ HolderIsCurrent' /\ storeLock' \in {Nobody} \cup KeyRuns \cup Edits
    BY LockKeeps DEF RunLocks
<1>2. UNCHANGED <<now, keyRun, edit>> BY DEF RunLocks
<1>. QED BY <1>1, <1>2 DEF PoolInv, PoolTyped, VerdictsAreEarned, EditsAreSlotted, BenchedForCause, EditsStand, Stored

LEMMA RunGoesOnTo ==
    ASSUME PoolInv, NEW r \in KeyRuns, RunGoesOn(r)
    PROVE  \E run \in RunState : /\ keyRun' = [keyRun EXCEPT ![r] = run] /\ run.earned = keyRun[r].earned
                                 /\ run.pc \in {"choosing", "succeeded", "failed"}
<1>1. keyRun[r] \in RunState BY DEF PoolInv, PoolTyped
<1>2. CASE keyRun[r].pc = "clear"
    <2>1. keyRun' = [keyRun EXCEPT ![r] = RunEnded(keyRun[r], "succeeded")] BY <1>2 DEF RunGoesOn
    <2>. QED BY <1>1, <2>1, RunsEnd
<1>3. CASE keyRun[r].pc # "clear" /\ Usable(keyRun[r]) = {}
    <2>1. keyRun' = [keyRun EXCEPT ![r] = RunEnded(keyRun[r], "failed")] BY <1>3 DEF RunGoesOn
    <2>. QED BY <1>1, <2>1, RunsEnd
<1>4. CASE keyRun[r].pc # "clear" /\ Usable(keyRun[r]) # {}
    <2>1. keyRun' = [keyRun EXCEPT ![r] = [keyRun[r] EXCEPT !.pc = "choosing"]] BY <1>4 DEF RunGoesOn
    <2>2. [keyRun[r] EXCEPT !.pc = "choosing"] \in RunState BY <1>1 DEF RunState
    <2>. QED BY <1>1, <2>1, <2>2 DEF RunState
<1>. QED BY <1>2, <1>3, <1>4

LEMMA CannotRecordKeeps == ASSUME PoolInv, NEW r \in KeyRuns, RunCannotRecord(r) PROVE PoolInv'
<1>1. creds' = creds /\ HolderIsCurrent' /\ storeLock' \in {Nobody} \cup KeyRuns \cup Edits
    BY LockKeeps DEF RunCannotRecord
<1>2. PICK run \in RunState : /\ keyRun' = [keyRun EXCEPT ![r] = run] /\ run.earned = keyRun[r].earned
                              /\ run.pc \in {"choosing", "succeeded", "failed"}
    BY RunGoesOnTo DEF RunCannotRecord
<1>3. UNCHANGED <<now, edit>> BY DEF RunCannotRecord
<1>. QED BY <1>1, <1>2, <1>3, RunOnly

LEMMA RunDiesKeeps == ASSUME PoolInv, NEW r \in KeyRuns, RunDies(r) PROVE PoolInv'
<1>1. creds' = creds /\ HolderIsCurrent' /\ storeLock' \in {Nobody} \cup KeyRuns \cup Edits
    BY LockKeeps DEF RunDies
<1>2. keyRun' = [keyRun EXCEPT ![r] = RunEnded(keyRun[r], "failed")] /\ UNCHANGED <<now, edit>> BY DEF RunDies
<1>3. keyRun[r] \in RunState BY DEF PoolInv, PoolTyped
<1>. QED BY <1>1, <1>2, <1>3, RunsEnd, RunOnly

(* What a mark makes of the file: the record of one slot, marked with what  *)
(* the endpoint said, or cleared.                                           *)
LEMMA MarksAreStates ==
    ASSUME PoolInv, NEW state \in KeyState, NEW after \in Nat
    PROVE  /\ MarkKeyCooling(state, after) \in KeyState /\ MarkKeyCooling(state, after).invalid = state.invalid
           /\ MarkKeyInvalid \in KeyState /\ MarkKeyInvalid.until = 0
           /\ Healthy \in KeyState /\ ~Healthy.invalid /\ Healthy.until = 0
<1>1. /\ BaseCooldown \in Nat /\ MaxCooldown \in Nat /\ MaxRetryAfter \in Nat /\ MaxTime \in Nat /\ now \in Nat
    BY CooldownAssumption DEF PoolInv, PoolTyped
<1>2. state.step \in Nat BY DEF KeyState
<1>3. /\ Lesser(after, MaxRetryAfter) \in Nat /\ Lesser(2 * state.step, MaxCooldown) \in Nat
    BY <1>1, <1>2 DEF Lesser
<1>4. PICK step \in Nat : MarkKeyCooling(state, after) = [state EXCEPT !.until = now + step, !.step = step]
    BY <1>1, <1>3 DEF MarkKeyCooling
<1>5. /\ MarkKeyCooling(state, after) \in KeyState /\ MarkKeyCooling(state, after).invalid = state.invalid
    <2>1. now + step \in Nat BY <1>1
    <2>2. [state EXCEPT !.until = now + step, !.step = step] \in KeyState BY <2>1 DEF KeyState
    <2>. QED BY <1>4, <2>2 DEF KeyState
<1>6. /\ MarkKeyInvalid \in KeyState /\ MarkKeyInvalid.until = 0
      /\ Healthy \in KeyState /\ ~Healthy.invalid /\ Healthy.until = 0
    BY DEF MarkKeyInvalid, Healthy, KeyState
<1>. QED BY <1>5, <1>6

LEMMA FileMarked ==
    ASSUME NEW file \in ApiFile, NEW slot \in Slots, file[slot] # NoRecord, NEW state \in KeyState
    PROVE  \E marked \in ApiFile :
               /\ marked = [file EXCEPT ![slot].state = state]
               /\ marked[slot] # NoRecord /\ marked[slot].state = state
               /\ marked[slot].key = file[slot].key
               /\ \A s \in Slots : s # slot => marked[s] = file[s]
<1> DEFINE marked == [file EXCEPT ![slot].state = state]
<1>1. file[slot] \in ApiRecord BY StoredKeys
<1>2. [file[slot] EXCEPT !.state = state] \in ApiRecord BY <1>1 DEF ApiRecord
<1>3. marked = [file EXCEPT ![slot] = [file[slot] EXCEPT !.state = state]] BY DEF ApiFile
<1>4. /\ marked \in ApiFile /\ marked[slot] = [file[slot] EXCEPT !.state = state]
      /\ \A s \in Slots : s # slot => marked[s] = file[s]
    BY <1>2, <1>3 DEF ApiFile
<1>5. marked[slot] # NoRecord BY <1>2, <1>4, PoolAssumption
<1>. QED BY <1>1, <1>4, <1>5 DEF ApiRecord

LEMMA RecordKeeps == ASSUME PoolInv, NEW r \in KeyRuns, RunRecords(r) PROVE PoolInv'
<1> DEFINE was == keyRun[r]
           slot == was.members[was.using].slot
           edited == IF was.pc = "clear" THEN ClearKeyState(copy, slot)
                     ELSE RecordKeyFailure(copy, slot, was.verdict)
<1>0. Persist(r, edited) /\ RunGoesOn(r) /\ UNCHANGED <<now, edit>> /\ was.pc \in {"record", "clear"}
    BY DEF RunRecords
<1>1. /\ creds \in ApiFile /\ was \in RunState /\ was.using \in DOMAIN was.members
      /\ was.pc = "record" => <<slot, was.verdict.status>> \in was.earned /\ was.verdict.status # "none"
    BY <1>0 DEF PoolInv, PoolTyped, VerdictsAreEarned
<1>2. copy = creds BY <1>0, PoolAssumption DEF PoolInv, HolderIsCurrent, Persist
<1>3. slot \in Slots BY <1>1, RosterMembers DEF Member
<1>4. was.verdict.after \in Nat /\ was.verdict.status \in {"none", "limited", "rejected"} BY <1>1 DEF RunState
<1>. HIDE DEF slot
<1>5. \/ edited = creds
      \/ \E state \in KeyState :
            /\ creds[slot] # NoRecord /\ edited = [creds EXCEPT ![slot].state = state]
            /\ state.invalid => creds[slot].state.invalid \/ <<slot, "rejected">> \in was.earned
            /\ state.until > 0 => <<slot, "limited">> \in was.earned
    <2>1. CASE creds[slot] = NoRecord BY <1>2, <2>1 DEF ClearKeyState, RecordKeyFailure
    <2>2. CASE creds[slot] # NoRecord
        <3>1. creds[slot].state \in KeyState BY <1>1, <1>3, <2>2, StoredKeys
        <3>2. CASE was.pc = "clear"
            <4>1. edited = [creds EXCEPT ![slot].state = Healthy] BY <1>2, <2>2, <3>2 DEF ClearKeyState
            <4>2. Healthy \in KeyState /\ ~Healthy.invalid /\ ~(Healthy.until > 0) BY DEF Healthy, KeyState
            <4>. QED BY <2>2, <4>1, <4>2
        <3>3. CASE was.pc # "clear" /\ was.verdict.status = "limited"
            <4> DEFINE state == MarkKeyCooling(creds[slot].state, was.verdict.after)
            <4>1. edited = [creds EXCEPT ![slot].state = state] BY <1>2, <2>2, <3>3 DEF RecordKeyFailure
            <4>2. state \in KeyState /\ state.invalid = creds[slot].state.invalid
                BY <1>4, <3>1, MarksAreStates
            <4>3. <<slot, "limited">> \in was.earned BY <1>0, <1>1, <3>3
            <4>. QED BY <2>2, <4>1, <4>2, <4>3
        <3>4. CASE was.pc # "clear" /\ was.verdict.status # "limited"
            <4>1. edited = [creds EXCEPT ![slot].state = MarkKeyInvalid] BY <1>2, <2>2, <3>4 DEF RecordKeyFailure
            <4>2. MarkKeyInvalid \in KeyState /\ ~(MarkKeyInvalid.until > 0) BY <1>4, <3>1, MarksAreStates
            <4>3. <<slot, "rejected">> \in was.earned BY <1>0, <1>1, <1>4, <3>4
            <4>. QED BY <2>2, <4>1, <4>2, <4>3
        <3>. QED BY <3>2, <3>3, <3>4
    <2>. QED BY <2>1, <2>2
<1>. HIDE DEF edited
<1>6. PICK run \in RunState : /\ keyRun' = [keyRun EXCEPT ![r] = run] /\ run.earned = was.earned
                              /\ run.pc \in {"choosing", "succeeded", "failed"}
    BY <1>0, RunGoesOnTo
<1>7. storeLock' = Nobody /\ HolderIsCurrent' BY <1>0 DEF Persist, HolderIsCurrent
<1>8. CASE edited = creds
    <2>1. creds' = creds BY <1>0, <1>1, <1>8, KeysAreNoGrants DEF Persist
    <2>. QED BY <1>0, <1>6, <1>7, <2>1, RunOnly
<1>9. CASE edited # creds
    <2>1. PICK state \in KeyState :
            /\ creds[slot] # NoRecord /\ edited = [creds EXCEPT ![slot].state = state]
            /\ state.invalid => creds[slot].state.invalid \/ <<slot, "rejected">> \in was.earned
            /\ state.until > 0 => <<slot, "limited">> \in was.earned
        BY <1>5, <1>9
    <2>a. PICK marked \in ApiFile :
               /\ marked = [creds EXCEPT ![slot].state = state]
               /\ marked[slot] # NoRecord /\ marked[slot].state = state
               /\ marked[slot].key = creds[slot].key
               /\ \A s \in Slots : s # slot => marked[s] = creds[s]
        BY <1>1, <1>3, <2>1, FileMarked
    <2>2. /\ edited \in ApiFile /\ edited[slot] # NoRecord /\ edited[slot].state = state
          /\ edited[slot].key = creds[slot].key /\ \A s \in Slots : s # slot => edited[s] = creds[s]
        BY <2>1, <2>a
    <2>3. creds' = edited BY <1>0, <2>2, KeysAreNoGrants DEF Persist
    <2>4. /\ keyRun' \in [KeyRuns -> RunState] /\ keyRun'[r] = run
          /\ \A q \in KeyRuns \ {r} : keyRun'[q] = keyRun[q]
        BY <1>6 DEF PoolInv, PoolTyped
    <2>5. PoolTyped' BY <1>0, <1>7, <2>2, <2>3, <2>4 DEF PoolInv, PoolTyped
    <2>6. VerdictsAreEarned' BY <1>6, <2>4 DEF PoolInv, VerdictsAreEarned
    <2>7. BenchedForCause'
        <3>1. \A q \in KeyRuns : keyRun'[q].earned = keyRun[q].earned BY <1>6, <2>4
        <3>2. ASSUME NEW s \in Slots, creds'[s] # NoRecord
              PROVE  /\ creds'[s].state.invalid => \E q \in KeyRuns : <<s, "rejected">> \in keyRun'[q].earned
                     /\ creds'[s].state.until > 0 => \E q \in KeyRuns : <<s, "limited">> \in keyRun'[q].earned
            <4>1. CASE s = slot
                BY <1>3, <2>1, <2>2, <2>3, <3>1, <3>2, <4>1 DEF PoolInv, BenchedForCause, Stored
            <4>2. CASE s # slot
                BY <2>2, <2>3, <3>1, <3>2, <4>2 DEF PoolInv, BenchedForCause, Stored
            <4>. QED BY <4>1, <4>2
        <3>. QED BY <3>2 DEF BenchedForCause, Stored
    <2>8. EditsAreSlotted' BY <1>0 DEF PoolInv, EditsAreSlotted
    <2>9. EditsStand'
        <3>1. \A s \in Slots : /\ creds'[s] = NoRecord <=> creds[s] = NoRecord
                               /\ creds'[s].key = creds[s].key
            BY <2>1, <2>2, <2>3
        <3>2. \A e \in Edits : edit[e].pc = "done" => edit[e].slot \in Slots
            BY DEF PoolInv, PoolTyped, EditState, EditsAreSlotted
        <3>. QED BY <1>0, <3>1, <3>2 DEF PoolInv, EditsStand
    <2>. QED BY <1>7, <2>5, <2>6, <2>7, <2>8, <2>9 DEF PoolInv
<1>. QED BY <1>8, <1>9

-----------------------------------------------------------------------------

LEMMA EditWaitsKeeps == ASSUME PoolInv, NEW e \in Edits, EditLocks(e) \/ EditFails(e) PROVE PoolInv'
<1>1. creds' = creds /\ HolderIsCurrent' /\ storeLock' \in {Nobody} \cup KeyRuns \cup Edits
    BY LockKeeps DEF EditLocks, EditFails
<1>2. PICK pc \in {"editing", "refused"} : edit' = [edit EXCEPT ![e].pc = pc]
    BY DEF EditLocks, EditFails
<1>3. edit \in [Edits -> EditState] /\ edit[e].pc # "done" BY DEF PoolInv, PoolTyped, EditLocks, EditFails
<1>4. /\ edit' \in [Edits -> EditState] /\ edit'[e].pc = pc /\ edit'[e].slot = edit[e].slot
      /\ \A f \in Edits : f # e => edit'[f] = edit[f]
    BY <1>2, <1>3 DEF EditState
<1>5. UNCHANGED <<now, keyRun>> BY DEF EditLocks, EditFails
<1>6. PoolTyped' /\ VerdictsAreEarned' BY <1>1, <1>4, <1>5 DEF PoolInv, PoolTyped, VerdictsAreEarned
<1>7. EditsAreSlotted' BY <1>3, <1>4 DEF PoolInv, EditsAreSlotted
<1>8. BenchedForCause' BY <1>1, <1>5 DEF PoolInv, BenchedForCause, Stored
<1>9. EditsStand'
    <2>1. \A f \in Edits : edit'[f].slot = edit[f].slot /\ (edit'[f].pc = "done" => edit[f].pc = "done")
        BY <1>4
    <2>. QED BY <1>1, <2>1 DEF PoolInv, EditsStand
<1>. QED BY <1>1, <1>6, <1>7, <1>8, <1>9 DEF PoolInv

LEMMA EditPersistsKeeps == ASSUME PoolInv, NEW e \in Edits, EditPersists(e) PROVE PoolInv'
<1> DEFINE job == EditOf[e]
           record == IF job.op = "remove" THEN NoRecord ELSE Api(job.key)
<1>0. PICK slot \in SlotFor(copy, job) :
          /\ Persist(e, [copy EXCEPT ![slot] = record])
          /\ edit' = [edit EXCEPT ![e] = [pc |-> "done", slot |-> slot]]
    BY DEF EditPersists
<1>1. edit[e].pc = "editing" /\ UNCHANGED <<now, keyRun>> BY DEF EditPersists
<1>2. copy = creds /\ creds \in ApiFile
    BY <1>0, PoolAssumption DEF PoolInv, PoolTyped, HolderIsCurrent, Persist
<1>3. slot \in Slots /\ slot # "none"
    <2>1. \A slots : First(slots) \subseteq Slots BY SlotsAreNamed DEF First
    <2>. QED BY <1>0, <2>1, PoolAssumption DEF SlotFor
<1>4. record \in {NoRecord} \cup ApiRecord /\ (job.op = "remove" <=> record = NoRecord)
      /\ (job.op # "remove" => record.key = job.key /\ record.state = Healthy)
    <2>1. job.key \in Keys BY DEF Keys
    <2>2. Api(job.key) \in ApiRecord /\ Api(job.key).key = job.key /\ Api(job.key).state = Healthy
        BY <2>1 DEF Api, ApiRecord, Healthy, KeyState
    <2>. QED BY <2>2, PoolAssumption
<1>. HIDE DEF record
<1>5. [copy EXCEPT ![slot] = record] \in ApiFile BY <1>2, <1>3, <1>4 DEF ApiFile
<1>6. creds' = [creds EXCEPT ![slot] = record] /\ storeLock' = Nobody /\ HolderIsCurrent'
    BY <1>0, <1>2, <1>5, KeysAreNoGrants DEF Persist, HolderIsCurrent
<1>7. /\ creds' \in ApiFile /\ creds'[slot] = record
      /\ \A s \in Slots : s # slot => creds'[s] = creds[s]
    BY <1>2, <1>3, <1>5, <1>6 DEF ApiFile
<1>8. /\ edit' \in [Edits -> EditState] /\ edit'[e] = [pc |-> "done", slot |-> slot]
      /\ \A f \in Edits : f # e => edit'[f] = edit[f]
    BY <1>0, <1>3 DEF PoolInv, PoolTyped, EditState
<1>9. PoolTyped' /\ VerdictsAreEarned'
    BY <1>1, <1>6, <1>7, <1>8 DEF PoolInv, PoolTyped, VerdictsAreEarned
<1>10. EditsAreSlotted' BY <1>3, <1>8 DEF PoolInv, EditsAreSlotted
<1>11. BenchedForCause'
    <2>1. ASSUME NEW s \in Slots, creds'[s] # NoRecord
          PROVE  /\ creds'[s].state.invalid => \E q \in KeyRuns : <<s, "rejected">> \in keyRun'[q].earned
                 /\ creds'[s].state.until > 0 => \E q \in KeyRuns : <<s, "limited">> \in keyRun'[q].earned
        <3>1. CASE s = slot
            <4>1. creds'[s].state = Healthy BY <1>4, <1>7, <2>1, <3>1
            <4>2. ~Healthy.invalid /\ ~(Healthy.until > 0) BY DEF Healthy
            <4>. QED BY <4>1, <4>2
        <3>2. CASE s # slot BY <1>1, <1>7, <2>1, <3>2 DEF PoolInv, BenchedForCause, Stored
        <3>. QED BY <3>1, <3>2
    <2>. QED BY <2>1 DEF BenchedForCause, Stored
<1>12. EditsStand'
    <2> SUFFICES ASSUME NEW f \in Edits, edit'[f].pc = "done",
                        \A g \in Edits \ {f} : edit'[g].slot # edit'[f].slot
                 PROVE  IF EditOf[f].op = "remove" THEN creds'[edit'[f].slot] = NoRecord
                        ELSE creds'[edit'[f].slot] # NoRecord /\ creds'[edit'[f].slot].key = EditOf[f].key
        BY DEF EditsStand
    <2>1. CASE f = e BY <1>4, <1>7, <1>8, <2>1
    <2>2. CASE f # e
        <3>1. edit[f] = edit'[f] /\ edit[f].slot \in Slots /\ edit[f].slot # slot
            BY <1>8, <2>2 DEF PoolInv, PoolTyped, EditState, EditsAreSlotted
        <3>2. edit[e].slot = "none" BY <1>1 DEF PoolInv, EditsAreSlotted
        <3>3. \A g \in Edits \ {f} : edit[g].slot # edit[f].slot BY <1>8, <2>2, <3>1, <3>2, PoolAssumption
        <3>4. creds'[edit'[f].slot] = creds[edit[f].slot] BY <1>7, <3>1
        <3>. QED BY <3>1, <3>3, <3>4 DEF PoolInv, EditsStand
    <2>. QED BY <2>1, <2>2
<1>. QED BY <1>6, <1>9, <1>10, <1>11, <1>12 DEF PoolInv

LEMMA ElapseKeeps == ASSUME PoolInv, Elapse PROVE PoolInv'
<1>0. MaxTime \in Nat BY CooldownAssumption
<1>1. now' \in 0..MaxTime BY <1>0 DEF PoolInv, PoolTyped, Elapse
<1>2. UNCHANGED <<creds, storeLock, copy, keyRun, edit>> BY DEF Elapse, storeVars
<1>. QED BY <1>1, <1>2 DEF PoolInv, PoolTyped, HolderIsCurrent, VerdictsAreEarned, EditsAreSlotted, BenchedForCause, EditsStand, Stored

LEMMA PoolStarts == PoolInit /\ StoreInit(PoolFile) => PoolInv
<1>. SUFFICES ASSUME PoolInit, StoreInit(PoolFile) PROVE PoolInv OBVIOUS
<1>1. \A s \in Slots : PoolFile[s] = NoRecord
                       \/ /\ PoolFile[s] \in ApiRecord
                          /\ ~PoolFile[s].state.invalid /\ ~(PoolFile[s].state.until > 0)
    <2>1. ASSUME NEW s \in Slots, PoolAtStart[s] # NoKey
          PROVE  Api(PoolAtStart[s]) \in ApiRecord /\ Api(PoolAtStart[s]).state = Healthy
        <3>1. PoolAtStart[s] \in Keys BY <2>1 DEF Keys
        <3>. QED BY <3>1 DEF Api, ApiRecord, Healthy, KeyState
    <2>2. ~Healthy.invalid /\ ~(Healthy.until > 0) BY DEF Healthy
    <2>. QED BY <2>1, <2>2 DEF PoolFile
<1>2. PoolFile \in ApiFile BY <1>1 DEF PoolFile, ApiFile
<1>3. NewRun \in RunState /\ NewRun.pc = "idle" BY DEF NewRun, RunState, Roster
<1>4. [pc |-> "idle", slot |-> "none"] \in EditState BY DEF EditState
<1>5. PoolTyped BY <1>2, <1>3, <1>4, CooldownAssumption DEF PoolTyped, PoolInit, StoreInit
<1>6. HolderIsCurrent BY DEF HolderIsCurrent, StoreInit
<1>7. VerdictsAreEarned BY <1>3 DEF VerdictsAreEarned, PoolInit
<1>8. BenchedForCause BY <1>1 DEF BenchedForCause, Stored, StoreInit
<1>9. EditsAreSlotted /\ EditsStand BY DEF EditsAreSlotted, EditsStand, PoolInit
<1>. QED BY <1>5, <1>6, <1>7, <1>8, <1>9 DEF PoolInv

LEMMA PoolKeeps == PoolInv /\ [PoolNext]_poolVars => PoolInv'
<1>. SUFFICES ASSUME PoolInv, [PoolNext]_poolVars PROVE PoolInv' OBVIOUS
<1>1. CASE Elapse BY <1>1, ElapseKeeps
<1>2. ASSUME NEW r \in KeyRuns, RunStep(r) \/ EndpointAnswers(r) \/ RunDies(r) PROVE PoolInv'
    BY <1>2, ResolveKeeps, SendKeeps, AnswerKeeps, RunLocksKeeps, RecordKeeps, CannotRecordKeeps, RunDiesKeeps
    DEF RunStep
<1>3. ASSUME NEW e \in Edits, EditStep(e) PROVE PoolInv'
    BY <1>3, EditWaitsKeeps, EditPersistsKeeps DEF EditStep
<1>4. CASE UNCHANGED poolVars
    <2>1. UNCHANGED <<creds, storeLock, copy, now, keyRun, edit>> BY <1>4 DEF poolVars, storeVars
    <2>. QED BY <2>1 DEF PoolInv, PoolTyped, HolderIsCurrent, VerdictsAreEarned, EditsAreSlotted,
                         BenchedForCause, EditsStand, Stored
<1>. QED BY <1>1, <1>2, <1>3, <1>4 DEF PoolNext
-----------------------------------------------------------------------------
(* The grants. *)

CallerState == [pc : {"idle", "locking", "checking", "posting", "landing", "rereading", "ready", "failed"},
                posts : 0..1, reply : {NoRecord} \cup Grants]
UserState == [pc : {"idle", "locking", "writing", "done", "refused"}, minted : {NoRecord} \cup Grants]

GrantsTyped ==
    /\ creds \in [{Grant} -> {NoRecord} \cup Grants]
    /\ storeLock \in {Nobody} \cup Callers \cup UserOps
    /\ caller \in [Callers -> CallerState]
    /\ user \in [UserOps -> UserState]
    /\ provider \in [minted : 1..MaxTokens, live : SUBSET Nat, expired : SUBSET Nat]
    /\ provider.live \cup provider.expired \cup lost \subseteq 1..provider.minted

(* What is stored has a refresh token the provider minted.                  *)
StoredIsMinted ==
    /\ creds[Grant] # NoRecord => creds[Grant].refresh \in 1..provider.minted
    /\ \A c \in Callers : caller[c].pc \in {"posting", "landing"} => creds[Grant] # NoRecord

(* A login that has its grant and has not stored it.                        *)
Pending(u) == user[u].pc \in {"locking", "writing"} /\ UserOp[u] # "logout"
(* An answer on its way to the file is about the grant that is stored, and  *)
(* no login brings the same tokens.                                         *)
AnswersAreLive ==
    \A c \in Callers : caller[c].pc = "landing" =>
        /\ caller[c].reply # NoRecord
        /\ caller[c].reply.account = creds[Grant].account
        /\ \/ caller[c].reply.refresh \in provider.live
           \/ caller[c].reply.refresh = NoToken /\ creds[Grant].refresh \in provider.live
        /\ \A u \in UserOps : Pending(u) => caller[c].reply.refresh # user[u].minted.refresh

(* What a login is about to store is live, its own, and not yet stored.     *)
LoginsAreLive ==
    /\ \A u \in UserOps : UserOp[u] = "logout" => user[u].minted = NoRecord
    /\ \A u \in UserOps : Pending(u) =>
            /\ user[u].minted # NoRecord /\ user[u].minted.account = u
            /\ user[u].minted.refresh \in provider.live
            /\ creds[Grant] # NoRecord => creds[Grant].refresh # user[u].minted.refresh
    /\ \A u, v \in UserOps : Pending(u) /\ Pending(v) /\ v # u =>
            user[v].minted.refresh # user[u].minted.refresh

(* The user does one thing after another.                                   *)
OneAfterAnother ==
    \A i, j \in DOMAIN UserOrder :
        i < j /\ user[UserOrder[j]].pc # "idle" => user[UserOrder[i]].pc \in {"done", "refused"}

LastDone ==
    \A i \in DOMAIN UserOrder :
        user[UserOrder[i]].pc = "done" /\ (\A j \in DOMAIN UserOrder : j > i => user[UserOrder[j]].pc # "done")
        => IF UserOp[UserOrder[i]] = "logout" THEN creds[Grant] = NoRecord
           ELSE creds[Grant] # NoRecord /\ creds[Grant].account = UserOrder[i]

GrantsInv ==
    /\ GrantsTyped /\ HolderIsCurrent /\ ExchangeIsExclusive
    /\ StoredIsMinted /\ AnswersAreLive /\ StoredGrantIsLive
    /\ LoginsAreLive /\ OneAfterAnother /\ LastDone
-----------------------------------------------------------------------------

GrantFiles == [{Grant} -> {NoRecord} \cup Grants]
AtExchange == {"checking", "posting", "landing"}

LEMMA GrantFields ==
    /\ NoRecord \notin Grants
    /\ \A g \in Grants : g.kind = "oauth" /\ g.access \in Nat /\ g.refresh \in Nat \cup {NoToken}
    /\ \A access \in Nat, refresh \in Nat \cup {NoToken}, account \in {"first"} \cup UserOps :
          /\ OAuth(access, refresh, account) \in Grants
          /\ OAuth(access, refresh, account).refresh = refresh
          /\ OAuth(access, refresh, account).account = account
BY GrantsAssumption DEF Grants, OAuth

(* Another grant in the place of the stored one keeps its refresh token     *)
(* where it brings none.                                                    *)
LEMMA GrantReplaced ==
    ASSUME copy \in GrantFiles, NEW g \in {NoRecord} \cup Grants,
           NEW t, Persist(t, [copy EXCEPT ![Grant] = g])
    PROVE  /\ creds' \in GrantFiles /\ creds'[Grant] \in {NoRecord} \cup Grants
           /\ g = NoRecord <=> creds'[Grant] = NoRecord
           /\ g # NoRecord => creds'[Grant].account = g.account
           /\ g # NoRecord /\ g.refresh # NoToken => creds'[Grant].refresh = g.refresh
           /\ g # NoRecord /\ g.refresh = NoToken /\ copy[Grant] # NoRecord =>
                  creds'[Grant].refresh = copy[Grant].refresh
<1> DEFINE edited == [copy EXCEPT ![Grant] = g]
<1>1. edited \in GrantFiles /\ edited[Grant] = g /\ DOMAIN edited = {Grant} BY DEF GrantFiles
<1>2. copy[Grant] \in {NoRecord} \cup Grants BY DEF GrantFiles
<1>3. creds' = [r \in {Grant} |->
                  IF edited[r] # NoRecord /\ edited[r].kind = "oauth" /\ edited[r].refresh = NoToken
                     /\ copy[r] # NoRecord /\ copy[r].kind = "oauth"
                  THEN [edited[r] EXCEPT !.refresh = copy[r].refresh]
                  ELSE edited[r]]
    BY <1>1 DEF Persist, PreserveRefreshTokens
<1>. HIDE DEF edited
<1>4. CASE g # NoRecord /\ g.refresh = NoToken /\ copy[Grant] # NoRecord
    <2>1. creds' = [r \in {Grant} |-> [g EXCEPT !.refresh = copy[Grant].refresh]]
        BY <1>1, <1>2, <1>3, <1>4, GrantFields
    <2>2. [g EXCEPT !.refresh = copy[Grant].refresh] \in Grants BY <1>2, <1>4, GrantFields DEF Grants
    <2>3. /\ [g EXCEPT !.refresh = copy[Grant].refresh].account = g.account
          /\ [g EXCEPT !.refresh = copy[Grant].refresh].refresh = copy[Grant].refresh
        BY <1>4 DEF Grants
    <2>. QED BY <1>4, <2>1, <2>2, <2>3, GrantFields DEF GrantFiles
<1>5. CASE ~(g # NoRecord /\ g.refresh = NoToken /\ copy[Grant] # NoRecord)
    <2>1. creds' = [r \in {Grant} |-> g] BY <1>1, <1>3, <1>5
    <2>. QED BY <1>5, <2>1 DEF GrantFiles
<1>. QED BY <1>4, <1>5

LEMMA GrantKept ==
    ASSUME copy \in GrantFiles, NEW t, Persist(t, copy)
    PROVE  creds' = copy
<1>1. /\ DOMAIN copy = {Grant}
      /\ \A r \in {Grant} : copy[r] # NoRecord => [copy[r] EXCEPT !.refresh = copy[r].refresh] = copy[r]
    BY DEF GrantFiles, Grants
<1>2. creds' = [r \in {Grant} |-> copy[r]] BY <1>1 DEF Persist, PreserveRefreshTokens
<1>. QED BY <1>2 DEF GrantFiles

LEMMA CallerFields ==
    GrantsTyped => /\ creds[Grant] \in {NoRecord} \cup Grants
                   /\ \A c \in Callers : caller[c] \in CallerState
                   /\ \A u \in UserOps : user[u] \in UserState /\ user[u].minted \in {NoRecord} \cup Grants
                   /\ provider.minted \in Nat /\ MaxTokens \in Nat /\ provider.minted <= MaxTokens
BY GrantsAssumption DEF GrantsTyped, UserState

(* One lock: who exchanges, or is about to write, is alone.                 *)
LEMMA ExchangersAreAlone ==
    ASSUME GrantsInv, NEW c \in Callers, storeLock \in {Nobody, c}
    PROVE  \A d \in Callers : d # c => caller[d].pc \notin AtExchange
BY GrantsAssumption DEF GrantsInv, ExchangeIsExclusive, AtExchange

(* A step of one caller that leaves the file as it is.                      *)
LEMMA CallerOnly ==
    ASSUME GrantsInv, NEW c \in Callers, NEW state \in CallerState,
           caller' = [caller EXCEPT ![c] = state], UNCHANGED <<creds, user>>,
           storeLock' \in {Nobody} \cup Callers \cup UserOps, HolderIsCurrent',
           storeLock \in {Nobody, c} \/ UNCHANGED <<storeLock, copy>>,
           provider' \in [minted : 1..MaxTokens, live : SUBSET Nat, expired : SUBSET Nat],
           provider'.live \cup provider'.expired \cup lost' \subseteq 1..provider'.minted,
           provider.minted <= provider'.minted, lost \subseteq lost',
           storeLock = c \/ UNCHANGED provider,
           \A t \in provider.live : t \in provider'.live \/ (creds[Grant] # NoRecord /\ t = creds[Grant].refresh),
           state.pc \in AtExchange => storeLock' = c /\ copy' = creds,
           state.pc \in {"posting", "landing"} => creds[Grant] # NoRecord,
           state.pc = "landing" =>
                /\ state.reply # NoRecord /\ state.reply.account = creds[Grant].account
                /\ \/ state.reply.refresh \in provider'.live
                   \/ state.reply.refresh = NoToken /\ creds[Grant].refresh \in provider'.live
                /\ \A u \in UserOps : Pending(u) => state.reply.refresh # user[u].minted.refresh,
           \/ state.pc = "landing"
           \/ creds[Grant] # NoRecord => creds[Grant].refresh \in provider'.live \cup lost'
           \/ caller[c].pc # "landing" /\ UNCHANGED <<provider, lost>>
    PROVE  GrantsInv'
<1>0. GrantsTyped BY DEF GrantsInv
<1>1. /\ caller' \in [Callers -> CallerState] /\ caller'[c] = state
      /\ \A d \in Callers : d # c => caller'[d] = caller[d]
    BY <1>0 DEF GrantsTyped
<1>2. GrantsTyped' BY <1>0, <1>1 DEF GrantsTyped
<1>3. \A d \in Callers : d # c /\ caller[d].pc \in AtExchange =>
          storeLock' = d /\ copy' = creds /\ UNCHANGED provider
    <2>1. CASE storeLock \in {Nobody, c} BY <2>1, ExchangersAreAlone
    <2>2. CASE storeLock \notin {Nobody, c} BY <2>2 DEF GrantsInv, ExchangeIsExclusive, AtExchange
    <2>. QED BY <2>1, <2>2
<1>4. ExchangeIsExclusive' BY <1>1, <1>3 DEF ExchangeIsExclusive, AtExchange
<1>5. StoredIsMinted'
    BY <1>0, <1>1, CallerFields, GrantsAssumption DEF GrantsInv, GrantsTyped, StoredIsMinted
<1>6. AnswersAreLive'
    <2>1. ASSUME NEW d \in Callers, d # c, caller'[d].pc = "landing"
          PROVE  caller'[d] = caller[d] /\ UNCHANGED <<creds, provider>>
        BY <1>1, <1>3, <2>1 DEF AtExchange
    <2>. QED BY <1>1, <2>1 DEF GrantsInv, AnswersAreLive, Pending
<1>7. StoredGrantIsLive'
    <2> SUFFICES ASSUME creds[Grant] # NoRecord
                 PROVE  \/ creds[Grant].refresh \in provider'.live \cup lost'
                        \/ \E d \in Callers : caller'[d].pc = "landing" /\ storeLock' = d
        BY DEF StoredGrantIsLive
    <2>1. CASE state.pc = "landing" BY <1>1, <2>1 DEF AtExchange
    <2>2. CASE caller[c].pc # "landing" /\ UNCHANGED <<provider, lost>>
        BY <1>1, <1>3, <2>2 DEF GrantsInv, StoredGrantIsLive, AtExchange
    <2>. QED BY <2>1, <2>2
<1>8. LoginsAreLive' BY DEF GrantsInv, LoginsAreLive, Pending
<1>9. OneAfterAnother' /\ LastDone' BY DEF GrantsInv, OneAfterAnother, LastDone
<1>. QED BY <1>2, <1>4, <1>5, <1>6, <1>7, <1>8, <1>9 DEF GrantsInv

(* The provider has no part in most of them.                                *)
LEMMA CallerAlone ==
    ASSUME GrantsInv, NEW c \in Callers, NEW state \in CallerState,
           caller' = [caller EXCEPT ![c] = state], UNCHANGED <<creds, user, provider>>,
           storeLock' \in {Nobody} \cup Callers \cup UserOps, HolderIsCurrent',
           storeLock \in {Nobody, c} \/ UNCHANGED <<storeLock, copy>>,
           lost' = lost \/ (creds[Grant] # NoRecord /\ lost' = lost \cup {creds[Grant].refresh}),
           caller[c].pc = "landing" => creds[Grant].refresh \in lost',
           state.pc # "landing",
           state.pc \in AtExchange => storeLock' = c /\ copy' = creds,
           state.pc = "posting" => creds[Grant] # NoRecord
    PROVE  GrantsInv'
<1>1. /\ provider \in [minted : 1..MaxTokens, live : SUBSET Nat, expired : SUBSET Nat]
      /\ provider.live \cup provider.expired \cup lost' \subseteq 1..provider.minted
      /\ provider.minted <= provider.minted
    BY GrantsAssumption DEF GrantsInv, GrantsTyped, StoredIsMinted
<1>2. \/ creds[Grant] # NoRecord => creds[Grant].refresh \in provider'.live \cup lost'
      \/ caller[c].pc # "landing" /\ UNCHANGED <<provider, lost>>
    OBVIOUS
<1>. QED BY <1>1, <1>2, CallerOnly

LEMMA CallerEnds ==
    ASSUME GrantsTyped, NEW c \in Callers, Ends(c, "failed")
    PROVE  \E state \in CallerState : caller' = [caller EXCEPT ![c] = state] /\ state.pc = "failed"
<1> DEFINE state == [caller[c] EXCEPT !.pc = "failed", !.reply = NoRecord, !.posts = 0]
<1>1. caller[c] \in CallerState BY DEF GrantsTyped
<1>2. NoRecord \in {NoRecord} \cup Grants /\ 0 \in 0..1 OBVIOUS
<1>3. state \in CallerState /\ state.pc = "failed" BY <1>1, <1>2 DEF CallerState
<1>4. caller' = [caller EXCEPT ![c] = state] BY <1>1 DEF Ends, GrantsTyped, CallerState
<1>. QED BY <1>3, <1>4

LEMMA CallerMoves ==
    ASSUME GrantsTyped, NEW c \in Callers,
           NEW pc \in {"locking", "checking", "posting", "rereading", "ready"},
           caller' = [caller EXCEPT ![c].pc = pc]
    PROVE  \E state \in CallerState : caller' = [caller EXCEPT ![c] = state] /\ state.pc = pc
<1>1. caller[c] \in CallerState BY DEF GrantsTyped
<1>2. [caller[c] EXCEPT !.pc = pc] \in CallerState BY <1>1 DEF CallerState
<1>. QED BY <1>1, <1>2 DEF CallerState, GrantsTyped

LEMMA StoreLockMoves ==
    ASSUME GrantsInv, NEW t \in Callers \cup UserOps,
           Acquire(t) \/ LockedTimeout(t) \/ Release(t) \/ UNCHANGED storeVars
    PROVE  /\ creds' = creds /\ HolderIsCurrent' /\ storeLock' \in {Nobody} \cup Callers \cup UserOps
           /\ storeLock \in {Nobody, t} \/ UNCHANGED <<storeLock, copy>>
           /\ Acquire(t) => storeLock' = t /\ copy' = creds
BY DEF GrantsInv, GrantsTyped, Acquire, LockedTimeout, Release, storeVars, HolderIsCurrent

LEMMA ResolveGrantKeeps == ASSUME GrantsInv, NEW c \in Callers, Resolve(c) PROVE GrantsInv'
<1>0. GrantsTyped /\ UNCHANGED <<creds, storeLock, copy, user, provider, lost>> /\ caller[c].pc \in {"idle", "rereading"}
    BY DEF GrantsInv, Resolve, storeVars
<1>1. \E state \in CallerState : /\ caller' = [caller EXCEPT ![c] = state]
                                 /\ state.pc \in {"failed", "locking", "ready"}
    BY <1>0, CallerEnds, CallerMoves DEF Resolve
<1>2. storeLock' \in {Nobody} \cup Callers \cup UserOps /\ HolderIsCurrent'
    BY <1>0 DEF GrantsInv, GrantsTyped, HolderIsCurrent
<1>. QED BY <1>0, <1>1, <1>2, CallerAlone DEF AtExchange

LEMMA RefreshLocksKeeps == ASSUME GrantsInv, NEW c \in Callers, RefreshLocks(c) PROVE GrantsInv'
<1>0. GrantsTyped /\ UNCHANGED <<user, provider, lost>> /\ caller[c].pc = "locking"
    BY DEF GrantsInv, RefreshLocks
<1>1. /\ creds' = creds /\ HolderIsCurrent' /\ storeLock' \in {Nobody} \cup Callers \cup UserOps
      /\ storeLock \in {Nobody, c} \/ UNCHANGED <<storeLock, copy>>
      /\ Acquire(c) => storeLock' = c /\ copy' = creds
    BY StoreLockMoves DEF RefreshLocks
<1>2. CASE Acquire(c) /\ caller' = [caller EXCEPT ![c].pc = "checking"]
    <2>1. PICK state \in CallerState : caller' = [caller EXCEPT ![c] = state] /\ state.pc = "checking"
        BY <1>0, <1>2, CallerMoves
    <2>. QED BY <1>0, <1>1, <1>2, <2>1, CallerAlone
<1>3. CASE LockedTimeout(c) /\ Ends(c, "failed")
    <2>1. PICK state \in CallerState : caller' = [caller EXCEPT ![c] = state] /\ state.pc = "failed"
        BY <1>0, <1>3, CallerEnds
    <2>. QED BY <1>0, <1>1, <2>1, CallerAlone DEF AtExchange
<1>. QED BY <1>2, <1>3 DEF RefreshLocks

LEMMA RefreshChecksKeeps == ASSUME GrantsInv, NEW c \in Callers, RefreshChecks(c) PROVE GrantsInv'
<1>0. GrantsTyped /\ UNCHANGED <<user, provider, lost>> /\ caller[c].pc = "checking"
    BY DEF GrantsInv, RefreshChecks
<1>1. storeLock = c /\ copy = creds BY <1>0 DEF GrantsInv, ExchangeIsExclusive
<1>2. CASE Release(c) /\ Ends(c, "failed")
    <2>1. PICK state \in CallerState : caller' = [caller EXCEPT ![c] = state] /\ state.pc = "failed"
        BY <1>0, <1>2, CallerEnds
    <2>. QED BY <1>0, <1>1, <1>2, <2>1, StoreLockMoves, CallerAlone DEF AtExchange
<1>3. CASE Persist(c, copy) /\ caller' = [caller EXCEPT ![c].pc = "rereading"]
    <2>1. PICK state \in CallerState : caller' = [caller EXCEPT ![c] = state] /\ state.pc = "rereading"
        BY <1>0, <1>3, CallerMoves
    <2>2. creds' = creds BY <1>0, <1>1, <1>3, GrantKept DEF GrantsTyped, GrantFiles
    <2>3. storeLock' = Nobody /\ HolderIsCurrent' BY <1>3 DEF Persist, HolderIsCurrent
    <2>. QED BY <1>0, <1>1, <2>1, <2>2, <2>3, CallerAlone DEF AtExchange
<1>4. CASE Expired(copy[Grant]) /\ caller' = [caller EXCEPT ![c].pc = "posting"] /\ UNCHANGED storeVars
    <2>1. PICK state \in CallerState : caller' = [caller EXCEPT ![c] = state] /\ state.pc = "posting"
        BY <1>0, <1>4, CallerMoves
    <2>2. creds[Grant] # NoRecord BY <1>1, <1>4 DEF Expired
    <2>3. UNCHANGED <<creds, storeLock, copy>> BY <1>4 DEF storeVars
    <2>4. HolderIsCurrent' /\ storeLock' \in {Nobody} \cup Callers \cup UserOps
        BY <2>3, <1>0 DEF GrantsInv, GrantsTyped, HolderIsCurrent
    <2>. QED BY <1>0, <1>1, <2>1, <2>2, <2>3, <2>4, CallerAlone
<1>. QED BY <1>2, <1>3, <1>4 DEF RefreshChecks

LEMMA CallerDiesKeeps == ASSUME GrantsInv, NEW c \in Callers, CallerDies(c) PROVE GrantsInv'
<1>0. GrantsTyped /\ UNCHANGED <<user, provider>> /\ Ends(c, "failed") BY DEF GrantsInv, CallerDies
<1>1. /\ creds' = creds /\ HolderIsCurrent' /\ storeLock' \in {Nobody} \cup Callers \cup UserOps
      /\ storeLock \in {Nobody, c} \/ UNCHANGED <<storeLock, copy>>
    BY StoreLockMoves DEF CallerDies
<1>2. PICK state \in CallerState : caller' = [caller EXCEPT ![c] = state] /\ state.pc = "failed"
    BY <1>0, CallerEnds
<1>3. caller[c].pc = "landing" => copy = creds /\ creds[Grant] # NoRecord
    BY DEF GrantsInv, ExchangeIsExclusive, StoredIsMinted
<1>4. CASE caller[c].pc = "landing"
    <2>1. lost' = lost \cup {creds[Grant].refresh} BY <1>3, <1>4 DEF CallerDies
    <2>. QED BY <1>0, <1>1, <1>2, <1>3, <1>4, <2>1, CallerAlone DEF AtExchange
<1>5. CASE caller[c].pc # "landing"
    <2>1. lost' = lost BY <1>5 DEF CallerDies
    <2>. QED BY <1>0, <1>1, <1>2, <1>5, <2>1, CallerAlone DEF AtExchange
<1>. QED BY <1>4, <1>5

(* What an exchange of the stored grant answers, and leaves of its token.   *)
LEMMA ExchangesAreFresh ==
    ASSUME GrantsInv, creds[Grant] # NoRecord, NEW x \in Exchange(creds[Grant])
    PROVE  /\ x.after \in [minted : 1..MaxTokens, live : SUBSET Nat, expired : SUBSET Nat]
           /\ x.after.live \cup x.after.expired \cup lost \subseteq 1..x.after.minted
           /\ provider.minted <= x.after.minted
           /\ \A t \in provider.live : t \in x.after.live \/ t = creds[Grant].refresh
           /\ x.reply = NoRecord => x.after = provider
           /\ x.reply # NoRecord =>
                  /\ x.reply \in Grants /\ x.reply.account = creds[Grant].account
                  /\ \/ x.reply.refresh \in x.after.live
                     \/ x.reply.refresh = NoToken /\ creds[Grant].refresh \in x.after.live
                  /\ \A t \in provider.live : x.reply.refresh # t
<1> DEFINE new == provider.minted + 1
           grant == creds[Grant]
           rotated == [provider EXCEPT !.minted = new, !.live = (@ \ {grant.refresh}) \cup {new}]
           kept == [provider EXCEPT !.minted = new]
<1>0. GrantsTyped /\ grant \in Grants /\ grant.account \in {"first"} \cup UserOps
    BY CallerFields DEF GrantsInv, Grants
<1>1. provider \in [minted : 1..MaxTokens, live : SUBSET Nat, expired : SUBSET Nat]
      /\ provider.live \cup provider.expired \cup lost \subseteq 1..provider.minted
      /\ provider.minted \in Nat /\ MaxTokens \in Nat
    BY <1>0, CallerFields DEF GrantsTyped
<1>2. CASE grant.refresh \notin provider.live \/ provider.minted = MaxTokens
    <2>1. x = [reply |-> NoRecord, after |-> provider] BY <1>2 DEF Exchange
    <2>. QED BY <1>1, <2>1
<1>3. CASE grant.refresh \in provider.live /\ provider.minted # MaxTokens
    <2>0. new \in 1..MaxTokens /\ new \notin provider.live /\ provider.live \subseteq Nat BY <1>1, <1>3
    <2>1. \/ x = [reply |-> OAuth(new, new, grant.account), after |-> rotated]
          \/ x = [reply |-> OAuth(new, NoToken, grant.account), after |-> kept]
        BY <1>3 DEF Exchange
    <2>2. /\ OAuth(new, new, grant.account) \in Grants /\ OAuth(new, NoToken, grant.account) \in Grants
          /\ OAuth(new, new, grant.account).refresh = new /\ OAuth(new, NoToken, grant.account).refresh = NoToken
          /\ OAuth(new, new, grant.account).account = grant.account
          /\ OAuth(new, NoToken, grant.account).account = grant.account
        <3>1. new \in Nat /\ {new, NoToken} \subseteq Nat \cup {NoToken} BY <1>1, <2>0
        <3>2. new \in Nat \cup {NoToken} /\ NoToken \in Nat \cup {NoToken} BY <3>1
        <3>3. grant.account \in {"first"} \cup UserOps BY <1>0
        <3>. HIDE DEF new, grant
        <3>. HIDE DEF new, grant
        <3>4. \A account \in {"first"} \cup UserOps, refresh \in Nat \cup {NoToken} :
                 /\ OAuth(new, refresh, account) \in Grants /\ OAuth(new, refresh, account).refresh = refresh
                 /\ OAuth(new, refresh, account).account = account
            BY <3>1 DEF Grants, OAuth
        <3>. QED BY <3>2, <3>3, <3>4
    <2>3. /\ rotated \in [minted : 1..MaxTokens, live : SUBSET Nat, expired : SUBSET Nat]
          /\ rotated.minted = new /\ rotated.live = (provider.live \ {grant.refresh}) \cup {new}
          /\ rotated.expired = provider.expired
        <3>1. (provider.live \ {grant.refresh}) \cup {new} \in SUBSET Nat BY <1>1, <2>0
        <3>. HIDE DEF new, grant
        <3>. QED BY <1>1, <2>0, <3>1
    <2>4. /\ kept \in [minted : 1..MaxTokens, live : SUBSET Nat, expired : SUBSET Nat]
          /\ kept.minted = new /\ kept.live = provider.live /\ kept.expired = provider.expired
        BY <1>1, <2>0
    <2>. HIDE DEF rotated, kept
    <2>5. CASE x = [reply |-> OAuth(new, new, grant.account), after |-> rotated]
        <3>1. x.reply = OAuth(new, new, grant.account) /\ x.after = rotated BY <2>5
        <3>. QED BY <1>1, <2>0, <2>2, <2>3, <3>1, GrantFields
    <2>6. CASE x = [reply |-> OAuth(new, NoToken, grant.account), after |-> kept]
        <3>1. x.reply = OAuth(new, NoToken, grant.account) /\ x.after = kept BY <2>6
        <3>. QED BY <1>1, <1>3, <2>0, <2>2, <2>4, <3>1, GrantFields, GrantsAssumption
    <2>. QED BY <2>1, <2>5, <2>6
<1>. QED BY <1>2, <1>3

LEMMA PostsKeeps == ASSUME GrantsInv, NEW c \in Callers, RefreshPosts(c) PROVE GrantsInv'
<1>0. /\ GrantsTyped /\ UNCHANGED user /\ caller[c].pc = "posting" /\ storeLock = c /\ copy = creds
      /\ creds[Grant] # NoRecord /\ caller[c] \in CallerState
    BY CallerFields DEF GrantsInv, ExchangeIsExclusive, StoredIsMinted, RefreshPosts
<1>1. provider \in [minted : 1..MaxTokens, live : SUBSET Nat, expired : SUBSET Nat]
      /\ provider.live \cup provider.expired \cup lost \subseteq 1..provider.minted
      /\ creds[Grant].refresh \in 1..provider.minted /\ provider.minted \in Nat
    BY <1>0, CallerFields DEF GrantsInv, GrantsTyped, StoredIsMinted
<1>2. ASSUME NEW x \in Exchange(creds[Grant]), provider' = x.after, lost' = lost, x.reply # NoRecord,
             caller' = [caller EXCEPT ![c].pc = "landing", ![c].reply = x.reply], UNCHANGED storeVars
      PROVE  GrantsInv'
    <2> DEFINE state == [caller[c] EXCEPT !.pc = "landing", !.reply = x.reply]
    <2>1. x.reply \in Grants /\ (\A u \in UserOps : Pending(u) => x.reply.refresh # user[u].minted.refresh)
        BY <1>0, <1>2, ExchangesAreFresh DEF GrantsInv, LoginsAreLive
    <2>2. state \in CallerState /\ state.pc = "landing" /\ state.reply = x.reply BY <1>0, <2>1 DEF CallerState
    <2>3. caller' = [caller EXCEPT ![c] = state] BY <1>0, <1>2 DEF GrantsTyped, CallerState
    <2>4. UNCHANGED <<creds, storeLock, copy>> BY <1>2 DEF storeVars
    <2>5. HolderIsCurrent' /\ storeLock' \in {Nobody} \cup Callers \cup UserOps
        BY <1>0, <2>4 DEF HolderIsCurrent
    <2>. HIDE DEF state
    <2>6. /\ provider' \in [minted : 1..MaxTokens, live : SUBSET Nat, expired : SUBSET Nat]
          /\ provider'.live \cup provider'.expired \cup lost' \subseteq 1..provider'.minted
          /\ provider.minted <= provider'.minted
          /\ \A t \in provider.live : t \in provider'.live \/ t = creds[Grant].refresh
          /\ x.reply.account = creds[Grant].account
          /\ \/ x.reply.refresh \in provider'.live
             \/ x.reply.refresh = NoToken /\ creds[Grant].refresh \in provider'.live
        BY <1>0, <1>2, ExchangesAreFresh
    <2>7. /\ state.reply # NoRecord /\ state.reply.account = creds[Grant].account
          /\ \/ state.reply.refresh \in provider'.live
             \/ state.reply.refresh = NoToken /\ creds[Grant].refresh \in provider'.live
          /\ \A u \in UserOps : Pending(u) => state.reply.refresh # user[u].minted.refresh
        BY <1>2, <2>1, <2>2, <2>6
    <2>8. storeLock' = c /\ copy' = creds /\ lost \subseteq lost' BY <1>0, <1>2, <2>4
    <2>. QED BY <1>0, <2>2, <2>3, <2>4, <2>5, <2>6, <2>7, <2>8, CallerOnly
<1>3. ASSUME Release(c), Ends(c, "failed"), UNCHANGED <<provider, lost>> PROVE GrantsInv'
    <2>1. PICK state \in CallerState : caller' = [caller EXCEPT ![c] = state] /\ state.pc = "failed"
        BY <1>0, <1>3, CallerEnds
    <2>. QED BY <1>0, <1>3, <2>1, StoreLockMoves, CallerAlone DEF AtExchange
<1>4. ASSUME NEW x \in Exchange(creds[Grant]) \cup {[reply |-> NoRecord, after |-> provider]},
             provider' = x.after, lost' = lost \cup (provider.live \ x.after.live),
             IF caller[c].posts = 0
             THEN caller' = [caller EXCEPT ![c].posts = 1] /\ UNCHANGED storeVars
             ELSE Release(c) /\ Ends(c, "failed")
      PROVE  GrantsInv'
    <2>1. /\ provider' \in [minted : 1..MaxTokens, live : SUBSET Nat, expired : SUBSET Nat]
          /\ provider'.live \cup provider'.expired \cup lost \subseteq 1..provider'.minted
          /\ provider.minted <= provider'.minted /\ provider'.minted \in Nat
          /\ \A t \in provider.live : t \in provider'.live \/ t = creds[Grant].refresh
        <3>1. CASE x \in Exchange(creds[Grant])
            <4>1. x.after.minted \in Nat BY <1>0, <3>1, ExchangesAreFresh, GrantsAssumption
            <4>. QED BY <1>0, <1>4, <3>1, <4>1, ExchangesAreFresh
        <3>2. CASE x = [reply |-> NoRecord, after |-> provider]
            <4>1. provider' = provider BY <1>4, <3>2
            <4>. QED BY <1>1, <4>1
        <3>. QED BY <1>4, <3>1, <3>2
    <2>2. lost' \subseteq 1..provider'.minted /\ lost \subseteq lost' BY <1>1, <1>4, <2>1
    <2>3. creds[Grant].refresh \in provider.live => creds[Grant].refresh \in provider'.live \cup lost' BY <1>4
    <2>4. creds[Grant].refresh \in provider.live \cup lost
        BY <1>0 DEF GrantsInv, StoredGrantIsLive, ExchangeIsExclusive
    <2>5. creds[Grant].refresh \in provider'.live \cup lost' BY <2>2, <2>3, <2>4
    <2>6. CASE caller' = [caller EXCEPT ![c].posts = 1] /\ UNCHANGED storeVars
        <3> DEFINE state == [caller[c] EXCEPT !.posts = 1]
        <3>1. state \in CallerState /\ state.pc = "posting" BY <1>0 DEF CallerState
        <3>2. caller' = [caller EXCEPT ![c] = state] BY <1>0, <2>6 DEF GrantsTyped
        <3>3. UNCHANGED <<creds, storeLock, copy>> BY <2>6 DEF storeVars
        <3>4. HolderIsCurrent' /\ storeLock' \in {Nobody} \cup Callers \cup UserOps
            BY <1>0, <3>3 DEF HolderIsCurrent
        <3>. HIDE DEF state
        <3>. QED BY <1>0, <2>1, <2>2, <2>5, <3>1, <3>2, <3>3, <3>4, CallerOnly
    <2>7. CASE Release(c) /\ Ends(c, "failed")
        <3>1. PICK state \in CallerState : caller' = [caller EXCEPT ![c] = state] /\ state.pc = "failed"
            BY <1>0, <2>7, CallerEnds
        <3>2. creds' = creds /\ HolderIsCurrent' /\ storeLock' \in {Nobody} \cup Callers \cup UserOps
            BY <2>7, StoreLockMoves
        <3>. QED BY <1>0, <2>1, <2>2, <2>5, <3>1, <3>2, CallerOnly DEF AtExchange
    <2>. QED BY <1>4, <2>6, <2>7
<1>5. QED
    <2>1. CASE \E x \in Exchange(copy[Grant]) :
                  /\ provider' = x.after
                  /\ IF x.reply = NoRecord THEN Release(c) /\ Ends(c, "failed")
                     ELSE /\ caller' = [caller EXCEPT ![c].pc = "landing", ![c].reply = x.reply]
                          /\ UNCHANGED storeVars
                  /\ UNCHANGED lost
        <3>1. PICK x \in Exchange(creds[Grant]) :
                  /\ provider' = x.after
                  /\ IF x.reply = NoRecord THEN Release(c) /\ Ends(c, "failed")
                     ELSE /\ caller' = [caller EXCEPT ![c].pc = "landing", ![c].reply = x.reply]
                          /\ UNCHANGED storeVars
                  /\ UNCHANGED lost
            BY <1>0, <2>1
        <3>2. CASE x.reply = NoRecord
            <4>1. x.after = provider BY <1>0, <3>2, ExchangesAreFresh
            <4>. QED BY <1>3, <3>1, <3>2, <4>1
        <3>3. CASE x.reply # NoRecord BY <1>2, <3>1, <3>3
        <3>. QED BY <3>2, <3>3
    <2>2. CASE \E x \in Exchange(copy[Grant]) \cup {[reply |-> NoRecord, after |-> provider]} :
                  /\ provider' = x.after
                  /\ lost' = lost \cup (provider.live \ x.after.live)
                  /\ IF caller[c].posts = 0
                     THEN caller' = [caller EXCEPT ![c].posts = 1] /\ UNCHANGED storeVars
                     ELSE Release(c) /\ Ends(c, "failed")
        BY <1>0, <1>4, <2>2
    <2>. QED BY <2>1, <2>2 DEF RefreshPosts

LEMMA LandsKeeps == ASSUME GrantsInv, NEW c \in Callers, RefreshLands(c) PROVE GrantsInv'
<1>0. /\ GrantsTyped /\ UNCHANGED <<user, provider>> /\ caller[c].pc = "landing" /\ storeLock = c
      /\ copy = creds /\ creds[Grant] # NoRecord /\ caller[c] \in CallerState
    BY CallerFields DEF GrantsInv, ExchangeIsExclusive, StoredIsMinted, RefreshLands
<1>1. CASE Release(c) /\ Ends(c, "failed") /\ lost' = lost \cup {copy[Grant].refresh}
    <2>1. PICK state \in CallerState : caller' = [caller EXCEPT ![c] = state] /\ state.pc = "failed"
        BY <1>0, <1>1, CallerEnds
    <2>2. creds' = creds /\ HolderIsCurrent' /\ storeLock' \in {Nobody} \cup Callers \cup UserOps
        BY <1>1, StoreLockMoves
    <2>. QED BY <1>0, <1>1, <2>1, <2>2, CallerAlone DEF AtExchange
<1>2. ASSUME Persist(c, [copy EXCEPT ![Grant] = caller[c].reply]), UNCHANGED lost,
             caller' = [caller EXCEPT ![c].pc = "rereading", ![c].reply = NoRecord, ![c].posts = 0]
      PROVE  GrantsInv'
    <2> DEFINE reply == caller[c].reply
    <2>1. /\ reply # NoRecord /\ reply \in {NoRecord} \cup Grants /\ reply.account = creds[Grant].account
          /\ \/ reply.refresh \in provider.live
             \/ reply.refresh = NoToken /\ creds[Grant].refresh \in provider.live
          /\ \A u \in UserOps : Pending(u) => reply.refresh # user[u].minted.refresh
        BY <1>0 DEF GrantsInv, AnswersAreLive, CallerState
    <2>2. provider.live \subseteq 1..provider.minted /\ provider.minted \in Nat /\ NoToken \notin provider.live
        BY <1>0, CallerFields, GrantsAssumption DEF GrantsTyped
    <2>3. /\ creds' \in GrantFiles /\ creds'[Grant] # NoRecord
          /\ creds'[Grant].account = creds[Grant].account
          /\ creds'[Grant].refresh \in {reply.refresh, creds[Grant].refresh}
          /\ creds'[Grant].refresh \in provider.live
        <3>1. copy \in GrantFiles BY <1>0 DEF GrantsTyped, GrantFiles
        <3>2. /\ creds' \in GrantFiles /\ creds'[Grant] # NoRecord
              /\ creds'[Grant].account = reply.account
              /\ reply.refresh # NoToken => creds'[Grant].refresh = reply.refresh
              /\ reply.refresh = NoToken => creds'[Grant].refresh = copy[Grant].refresh
            BY <1>0, <1>2, <2>1, <3>1, GrantReplaced
        <3>. QED BY <1>0, <2>1, <2>2, <3>2
    <2>4. /\ caller' \in [Callers -> CallerState] /\ caller'[c].pc = "rereading"
          /\ \A d \in Callers : d # c => caller'[d] = caller[d]
        <3>1. 0 \in 0..1 /\ NoRecord \in {NoRecord} \cup Grants OBVIOUS
        <3>. QED BY <1>0, <1>2, <3>1 DEF GrantsTyped, CallerState
    <2>5. storeLock' = Nobody /\ HolderIsCurrent' BY <1>2 DEF Persist, HolderIsCurrent
    <2>6. \A d \in Callers : caller'[d].pc \notin AtExchange
        BY <1>0, <2>4, ExchangersAreAlone DEF AtExchange
    <2>7. GrantsTyped' BY <1>0, <1>2, <2>3, <2>4, <2>5 DEF GrantsTyped, GrantFiles
    <2>8. ExchangeIsExclusive' /\ AnswersAreLive' BY <2>6 DEF ExchangeIsExclusive, AnswersAreLive, AtExchange
    <2>9. StoredIsMinted' /\ StoredGrantIsLive'
        BY <1>0, <2>2, <2>3, <2>6 DEF StoredIsMinted, StoredGrantIsLive, AtExchange
    <2>10. LoginsAreLive' BY <1>0, <2>1, <2>3 DEF GrantsInv, LoginsAreLive, Pending
    <2>11. OneAfterAnother' BY <1>0 DEF GrantsInv, OneAfterAnother
    <2>12. LastDone' BY <1>0, <2>3 DEF GrantsInv, LastDone
    <2>. QED BY <2>5, <2>7, <2>8, <2>9, <2>10, <2>11, <2>12 DEF GrantsInv
<1>. QED BY <1>1, <1>2 DEF RefreshLands

LEMMA ExpireKeeps == ASSUME GrantsInv, Expire PROVE GrantsInv'
<1>1. PICK t \in 1..provider.minted : provider' = [provider EXCEPT !.expired = @ \cup {t}] BY DEF Expire
<1>2. UNCHANGED <<creds, storeLock, copy, caller, user, lost>> BY DEF Expire, storeVars
<1>3. /\ provider \in [minted : 1..MaxTokens, live : SUBSET Nat, expired : SUBSET Nat]
      /\ provider.live \cup provider.expired \cup lost \subseteq 1..provider.minted
    BY DEF GrantsInv, GrantsTyped
<1>4. provider.expired \cup {t} \in SUBSET Nat BY <1>3
<1>5. /\ provider' \in [minted : 1..MaxTokens, live : SUBSET Nat, expired : SUBSET Nat]
      /\ provider'.minted = provider.minted /\ provider'.live = provider.live
      /\ provider'.expired = provider.expired \cup {t}
    BY <1>1, <1>3, <1>4
<1>6. GrantsTyped' BY <1>2, <1>3, <1>5 DEF GrantsInv, GrantsTyped
<1>. QED BY <1>2, <1>5, <1>6 DEF GrantsInv, HolderIsCurrent, ExchangeIsExclusive, StoredIsMinted, AnswersAreLive,
            StoredGrantIsLive, LoginsAreLive, Pending, OneAfterAnother, LastDone

-----------------------------------------------------------------------------

LEMMA UserOrdered == \A u \in UserOps : \E i \in DOMAIN UserOrder : UserOrder[i] = u
BY DEF UserOps, Range

LEMMA UserBeginsKeeps == ASSUME GrantsInv, NEW u \in UserOps, UserBegins(u) PROVE GrantsInv'
<1>0. /\ GrantsTyped /\ user[u].pc = "idle" /\ user[u] \in UserState
      /\ UNCHANGED <<creds, storeLock, copy, caller, lost>>
      /\ \A i, j \in DOMAIN UserOrder :
             i < j /\ UserOrder[j] = u => user[UserOrder[i]].pc \in {"done", "refused"}
    BY CallerFields DEF GrantsInv, UserBegins, storeVars
<1>1. /\ provider \in [minted : 1..MaxTokens, live : SUBSET Nat, expired : SUBSET Nat]
      /\ provider.live \cup provider.expired \cup lost \subseteq 1..provider.minted
      /\ provider.minted \in Nat /\ MaxTokens \in Nat
    BY <1>0, CallerFields DEF GrantsTyped
<1>2. \E state \in UserState :
         /\ user' = [user EXCEPT ![u] = state] /\ state.pc = "locking"
         /\ \/ UserOp[u] = "logout" /\ UNCHANGED provider /\ state.minted = NoRecord
            \/ /\ UserOp[u] # "logout" /\ provider.minted < MaxTokens
               /\ provider' = [provider EXCEPT !.minted = provider.minted + 1, !.live = @ \cup {provider.minted + 1}]
               /\ state.minted # NoRecord /\ state.minted.account = u
               /\ state.minted.refresh = provider.minted + 1
    <2>1. CASE UserOp[u] = "logout"
        <3>1. [user[u] EXCEPT !.pc = "locking"] \in UserState BY <1>0 DEF UserState
        <3>2. user' = [user EXCEPT ![u] = [user[u] EXCEPT !.pc = "locking"]] /\ UNCHANGED provider
            BY <1>0, <2>1 DEF UserBegins, GrantsTyped
        <3>3. user[u].minted = NoRecord BY <2>1 DEF GrantsInv, LoginsAreLive
        <3>. QED BY <1>0, <2>1, <3>1, <3>2, <3>3 DEF UserState
    <2>2. CASE UserOp[u] # "logout"
        <3> DEFINE new == provider.minted + 1
        <3>0. new \in Nat /\ new \in Nat \cup {NoToken} /\ u \in {"first"} \cup UserOps BY <1>1
        <3>1. /\ provider.minted < MaxTokens
              /\ user' = [user EXCEPT ![u] = [pc |-> "locking", minted |-> OAuth(new, new, u)]]
              /\ provider' = [provider EXCEPT !.minted = new, !.live = @ \cup {new}]
            BY <2>2 DEF UserBegins
        <3>. HIDE DEF new
        <3>2. /\ OAuth(new, new, u) \in Grants /\ OAuth(new, new, u).refresh = new
              /\ OAuth(new, new, u).account = u
            BY <3>0, GrantFields
        <3>3. [pc |-> "locking", minted |-> OAuth(new, new, u)] \in UserState BY <3>2 DEF UserState
        <3>. QED BY <2>2, <3>1, <3>2, <3>3, GrantFields DEF new
    <2>. QED BY <2>1, <2>2
<1>3. PICK state \in UserState :
         /\ user' = [user EXCEPT ![u] = state] /\ state.pc = "locking"
         /\ \/ UserOp[u] = "logout" /\ UNCHANGED provider /\ state.minted = NoRecord
            \/ /\ UserOp[u] # "logout" /\ provider.minted < MaxTokens
               /\ provider' = [provider EXCEPT !.minted = provider.minted + 1, !.live = @ \cup {provider.minted + 1}]
               /\ state.minted # NoRecord /\ state.minted.account = u
               /\ state.minted.refresh = provider.minted + 1
    BY <1>2
<1>4. /\ user' \in [UserOps -> UserState] /\ user'[u] = state /\ \A v \in UserOps : v # u => user'[v] = user[v]
    BY <1>0, <1>3 DEF GrantsTyped
<1>5. /\ provider' \in [minted : 1..MaxTokens, live : SUBSET Nat, expired : SUBSET Nat]
      /\ provider'.live \cup provider'.expired \cup lost \subseteq 1..provider'.minted
      /\ provider.minted <= provider'.minted /\ provider'.minted \in Nat
      /\ provider.live \subseteq provider'.live
      /\ UserOp[u] # "logout" => provider.minted + 1 \in provider'.live
    <2>1. CASE UNCHANGED provider /\ UserOp[u] = "logout" BY <1>1, <2>1
    <2>2. CASE UserOp[u] # "logout"
        <3> DEFINE new == provider.minted + 1
        <3>1. new \in 1..MaxTokens /\ provider.live \cup {new} \in SUBSET Nat BY <1>1, <1>3, <2>2
        <3>2. provider' = [provider EXCEPT !.minted = new, !.live = @ \cup {new}] BY <1>3, <2>2
        <3>. HIDE DEF new
        <3>3. /\ provider' \in [minted : 1..MaxTokens, live : SUBSET Nat, expired : SUBSET Nat]
              /\ provider'.minted = new /\ provider'.live = provider.live \cup {new}
              /\ provider'.expired = provider.expired
            BY <1>1, <3>1, <3>2
        <3>. QED BY <1>1, <3>1, <3>3 DEF new
    <2>. QED BY <1>3, <2>1, <2>2
<1>6. GrantsTyped' BY <1>0, <1>4, <1>5 DEF GrantsTyped
<1>7. HolderIsCurrent' /\ ExchangeIsExclusive' BY <1>0 DEF GrantsInv, HolderIsCurrent, ExchangeIsExclusive
<1>8. StoredIsMinted' BY <1>0, <1>1, <1>5 DEF GrantsInv, StoredIsMinted
<1>9. StoredGrantIsLive' BY <1>0, <1>5 DEF GrantsInv, StoredGrantIsLive
<1>10. \A v \in UserOps : v # u => (Pending(v)' <=> Pending(v)) /\ user'[v] = user[v] BY <1>4 DEF Pending
<1>11. LoginsAreLive'
    <2>1. \A v \in UserOps : Pending(v) => user[v].minted.refresh # provider.minted + 1
        BY <1>1 DEF GrantsInv, LoginsAreLive
    <2>2. creds[Grant] # NoRecord => creds[Grant].refresh # provider.minted + 1
        BY <1>1 DEF GrantsInv, StoredIsMinted
    <2>3. Pending(u)' => UserOp[u] # "logout" /\ state.minted.refresh = provider.minted + 1
        BY <1>3, <1>4 DEF Pending
    <2>4. \A v \in UserOps : UserOp[v] = "logout" => user'[v].minted = NoRecord
        BY <1>3, <1>4 DEF GrantsInv, LoginsAreLive
    <2>5. ASSUME NEW v \in UserOps, Pending(v)'
          PROVE  /\ user'[v].minted # NoRecord /\ user'[v].minted.account = v
                 /\ user'[v].minted.refresh \in provider'.live
                 /\ creds'[Grant] # NoRecord => creds'[Grant].refresh # user'[v].minted.refresh
        <3>1. CASE v = u BY <1>0, <1>3, <1>4, <1>5, <2>2, <2>3, <2>5, <3>1
        <3>2. CASE v # u BY <1>0, <1>5, <1>10, <2>5, <3>2 DEF GrantsInv, LoginsAreLive
        <3>. QED BY <3>1, <3>2
    <2>6. ASSUME NEW v \in UserOps, NEW w \in UserOps, Pending(v)', Pending(w)', w # v
          PROVE  user'[w].minted.refresh # user'[v].minted.refresh
        <3>1. CASE v = u BY <1>4, <1>10, <2>1, <2>3, <2>6, <3>1
        <3>2. CASE w = u BY <1>4, <1>10, <2>1, <2>3, <2>6, <3>2
        <3>3. CASE v # u /\ w # u BY <1>10, <2>6, <3>3 DEF GrantsInv, LoginsAreLive
        <3>. QED BY <3>1, <3>2, <3>3
    <2>. QED BY <2>4, <2>5, <2>6 DEF LoginsAreLive
<1>12. AnswersAreLive'
    <2> SUFFICES ASSUME NEW c \in Callers, caller[c].pc = "landing"
                 PROVE  /\ caller[c].reply # NoRecord
                        /\ caller[c].reply.account = creds[Grant].account
                        /\ \/ caller[c].reply.refresh \in provider'.live
                           \/ caller[c].reply.refresh = NoToken /\ creds[Grant].refresh \in provider'.live
                        /\ \A v \in UserOps : Pending(v)' => caller[c].reply.refresh # user'[v].minted.refresh
        BY <1>0 DEF AnswersAreLive
    <2>1. caller[c].reply.refresh # provider.minted + 1
        BY <1>1, GrantsAssumption DEF GrantsInv, AnswersAreLive
    <2>2. ASSUME NEW v \in UserOps, Pending(v)' PROVE caller[c].reply.refresh # user'[v].minted.refresh
        <3>1. CASE v = u BY <1>3, <1>4, <2>1, <2>2, <3>1 DEF Pending
        <3>2. CASE v # u BY <1>10, <2>2, <3>2 DEF GrantsInv, AnswersAreLive
        <3>. QED BY <3>1, <3>2
    <2>. QED BY <1>5, <2>2 DEF GrantsInv, AnswersAreLive
<1>13. OneAfterAnother'
    <2> SUFFICES ASSUME NEW i \in DOMAIN UserOrder, NEW j \in DOMAIN UserOrder, i < j,
                        user'[UserOrder[j]].pc # "idle"
                 PROVE  user'[UserOrder[i]].pc \in {"done", "refused"}
        BY DEF OneAfterAnother
    <2>0. UserOrder[i] \in UserOps /\ UserOrder[j] \in UserOps BY DEF UserOps, Range
    <2>1. user[UserOrder[i]].pc \in {"done", "refused"}
        BY <1>0, <1>4, <2>0 DEF GrantsInv, OneAfterAnother
    <2>2. UserOrder[i] # u BY <1>0, <2>1
    <2>. QED BY <1>4, <2>0, <2>1, <2>2
<1>14. LastDone'
    <2>0. \A i \in DOMAIN UserOrder : UserOrder[i] \in UserOps BY DEF UserOps, Range
    <2>1. \A v \in UserOps : user'[v].pc = "done" <=> user[v].pc = "done" BY <1>0, <1>3, <1>4
    <2>. QED BY <1>0, <2>0, <2>1 DEF GrantsInv, LastDone
<1>. QED BY <1>6, <1>7, <1>8, <1>9, <1>11, <1>12, <1>13, <1>14 DEF GrantsInv

(* A command that gets the lock, or gives up, has done nothing yet.         *)
LEMMA UserLocksKeeps == ASSUME GrantsInv, NEW u \in UserOps, UserLocks(u) PROVE GrantsInv'
<1>0. /\ GrantsTyped /\ user[u].pc = "locking" /\ user[u] \in UserState /\ UNCHANGED <<caller, provider, lost>>
    BY CallerFields DEF GrantsInv, UserLocks
<1>1. /\ creds' = creds /\ HolderIsCurrent' /\ storeLock' \in {Nobody} \cup Callers \cup UserOps
      /\ storeLock \in {Nobody, u} \/ UNCHANGED <<storeLock, copy>>
    BY StoreLockMoves DEF UserLocks
<1>2. PICK pc \in {"writing", "refused"} : user' = [user EXCEPT ![u].pc = pc] BY DEF UserLocks
<1>3. /\ user' \in [UserOps -> UserState] /\ user'[u].pc = pc /\ user'[u].minted = user[u].minted
      /\ \A v \in UserOps : v # u => user'[v] = user[v]
    BY <1>0, <1>2 DEF GrantsTyped, UserState
<1>4. GrantsTyped' BY <1>0, <1>1, <1>3 DEF GrantsTyped
<1>5. ExchangeIsExclusive'
    <2>1. \A c \in Callers : caller[c].pc \in AtExchange => storeLock = c /\ copy = creds /\ storeLock \notin {Nobody, u}
        BY GrantsAssumption DEF GrantsInv, ExchangeIsExclusive, AtExchange
    <2>. QED BY <1>0, <1>1, <2>1 DEF ExchangeIsExclusive, AtExchange
<1>6. \A v \in UserOps : /\ Pending(v)' => Pending(v)
                         /\ user'[v].minted = user[v].minted
                         /\ user'[v].pc = "done" <=> user[v].pc = "done"
                         /\ user'[v].pc # "idle" => user[v].pc # "idle"
                         /\ user[v].pc \in {"done", "refused"} => user'[v].pc \in {"done", "refused"}
    BY <1>0, <1>3 DEF Pending
<1>7. StoredIsMinted' BY <1>0, <1>1 DEF GrantsInv, StoredIsMinted
<1>8. AnswersAreLive' BY <1>0, <1>1, <1>6 DEF GrantsInv, AnswersAreLive
<1>9. StoredGrantIsLive'
    <2>1. \A c \in Callers : caller[c].pc = "landing" => storeLock' = c
        BY <1>0, <1>5 DEF ExchangeIsExclusive
    <2>. QED BY <1>0, <1>1, <2>1 DEF GrantsInv, StoredGrantIsLive
<1>10. LoginsAreLive' BY <1>0, <1>1, <1>6 DEF GrantsInv, LoginsAreLive
<1>11. \A i \in DOMAIN UserOrder : UserOrder[i] \in UserOps BY DEF UserOps, Range
<1>12. OneAfterAnother' BY <1>6, <1>11 DEF GrantsInv, OneAfterAnother
<1>13. LastDone' BY <1>1, <1>6, <1>11 DEF GrantsInv, LastDone
<1>. QED BY <1>1, <1>4, <1>5, <1>7, <1>8, <1>9, <1>10, <1>12, <1>13 DEF GrantsInv

(* What a command writes is the user's, and everything done before it was   *)
(* over when it began.                                                      *)
LEMMA UserWritesKeeps == ASSUME GrantsInv, NEW u \in UserOps, UserWrites(u) PROVE GrantsInv'
<1> DEFINE minted == user[u].minted
<1>0. /\ GrantsTyped /\ user[u].pc = "writing" /\ storeLock = u /\ UNCHANGED <<caller, provider, lost>>
      /\ Persist(u, [copy EXCEPT ![Grant] = minted]) /\ user' = [user EXCEPT ![u].pc = "done"]
      /\ minted \in {NoRecord} \cup Grants /\ user \in [UserOps -> UserState]
    BY CallerFields DEF GrantsInv, GrantsTyped, UserWrites, Persist
<1>1. copy = creds /\ copy \in GrantFiles
    BY <1>0, GrantsAssumption DEF GrantsInv, GrantsTyped, GrantFiles, HolderIsCurrent
<1>2. /\ UserOp[u] = "logout" => minted = NoRecord
      /\ UserOp[u] # "logout" => /\ minted # NoRecord /\ minted.account = u
                                 /\ minted.refresh \in provider.live
    BY <1>0 DEF GrantsInv, LoginsAreLive, Pending
<1>3. provider.live \subseteq 1..provider.minted /\ NoToken \notin provider.live
    BY <1>0, GrantsAssumption DEF GrantsTyped
<1>4. /\ creds' \in GrantFiles
      /\ UserOp[u] = "logout" => creds'[Grant] = NoRecord
      /\ UserOp[u] # "logout" => /\ creds'[Grant] # NoRecord /\ creds'[Grant].account = u
                                 /\ creds'[Grant].refresh = minted.refresh
    <2>1. /\ creds' \in GrantFiles
          /\ minted = NoRecord => creds'[Grant] = NoRecord
          /\ minted # NoRecord => creds'[Grant] # NoRecord /\ creds'[Grant].account = minted.account
          /\ minted # NoRecord /\ minted.refresh # NoToken => creds'[Grant].refresh = minted.refresh
        BY <1>0, <1>1, GrantReplaced
    <2>. QED BY <1>2, <1>3, <2>1
<1>5. storeLock' = Nobody /\ HolderIsCurrent' BY <1>0 DEF Persist, HolderIsCurrent
<1>6. /\ user' \in [UserOps -> UserState] /\ user'[u].pc = "done" /\ user'[u].minted = minted
      /\ \A v \in UserOps : v # u => user'[v] = user[v]
    BY <1>0 DEF UserState
<1>7. GrantsTyped' BY <1>0, <1>4, <1>5, <1>6 DEF GrantsTyped, GrantFiles
<1>8. \A c \in Callers : caller'[c].pc \notin AtExchange
    BY <1>0, GrantsAssumption DEF GrantsInv, ExchangeIsExclusive, AtExchange
<1>9. ExchangeIsExclusive' /\ AnswersAreLive' BY <1>8 DEF ExchangeIsExclusive, AnswersAreLive, AtExchange
<1>10. StoredIsMinted' /\ StoredGrantIsLive'
    BY <1>0, <1>2, <1>3, <1>4, <1>8 DEF StoredIsMinted, StoredGrantIsLive, AtExchange
<1>11. ~Pending(u)' /\ \A v \in UserOps : Pending(v)' => Pending(v) /\ v # u BY <1>6 DEF Pending
<1>12. LoginsAreLive'
    <2>1. \A v \in UserOps : user'[v].minted = user[v].minted BY <1>6
    <2>2. \A v \in UserOps : Pending(v) /\ v # u /\ UserOp[u] # "logout" =>
              user[v].minted.refresh # minted.refresh
        BY <1>0 DEF GrantsInv, LoginsAreLive, Pending
    <2>3. \A v \in UserOps : UserOp[v] = "logout" => user'[v].minted = NoRecord
        BY <2>1 DEF GrantsInv, LoginsAreLive
    <2>4. ASSUME NEW v \in UserOps, Pending(v)'
          PROVE  /\ user'[v].minted # NoRecord /\ user'[v].minted.account = v
                 /\ user'[v].minted.refresh \in provider'.live
                 /\ creds'[Grant] # NoRecord => creds'[Grant].refresh # user'[v].minted.refresh
        BY <1>0, <1>4, <1>11, <2>1, <2>2, <2>4 DEF GrantsInv, LoginsAreLive
    <2>5. ASSUME NEW v \in UserOps, NEW w \in UserOps, Pending(v)', Pending(w)', w # v
          PROVE  user'[w].minted.refresh # user'[v].minted.refresh
        BY <1>11, <2>1, <2>5 DEF GrantsInv, LoginsAreLive
    <2>. QED BY <2>3, <2>4, <2>5 DEF LoginsAreLive
<1>13. \A i \in DOMAIN UserOrder : UserOrder[i] \in UserOps BY DEF UserOps, Range
<1>14. OneAfterAnother'
    <2>1. \A v \in UserOps : /\ user'[v].pc # "idle" => user[v].pc # "idle"
                             /\ user[v].pc \in {"done", "refused"} => user'[v].pc \in {"done", "refused"}
        BY <1>0, <1>6
    <2>. QED BY <1>13, <2>1 DEF GrantsInv, OneAfterAnother
<1>15. LastDone'
    <2> SUFFICES ASSUME NEW i \in DOMAIN UserOrder, user'[UserOrder[i]].pc = "done",
                        \A j \in DOMAIN UserOrder : j > i => user'[UserOrder[j]].pc # "done"
                 PROVE  IF UserOp[UserOrder[i]] = "logout" THEN creds'[Grant] = NoRecord
                        ELSE creds'[Grant] # NoRecord /\ creds'[Grant].account = UserOrder[i]
        BY DEF LastDone
    <2>1. CASE UserOrder[i] = u BY <1>4, <2>1
    <2>2. CASE UserOrder[i] # u
        <3>1. PICK k \in DOMAIN UserOrder : UserOrder[k] = u BY UserOrdered
        <3>2. ~(k > i) BY <1>6, <3>1
        <3>3. k < i BY <2>2, <3>1, <3>2, GrantsAssumption
        <3>4. user[UserOrder[i]].pc # "idle" BY <1>6, <1>13, <2>2
        <3>. QED BY <1>0, <3>1, <3>3, <3>4 DEF GrantsInv, OneAfterAnother
    <2>. QED BY <2>1, <2>2
<1>. QED BY <1>5, <1>7, <1>9, <1>10, <1>12, <1>14, <1>15 DEF GrantsInv

LEMMA GrantsStart == GrantsInit /\ StoreInit(GrantFile) => GrantsInv
<1>. SUFFICES ASSUME GrantsInit, StoreInit(GrantFile) PROVE GrantsInv OBVIOUS
<1>0. MaxTokens \in Nat \ {0} BY GrantsAssumption
<1>1. /\ OAuth(1, 1, "first") \in Grants /\ OAuth(1, 1, "first").refresh = 1
    BY GrantFields
<1>2. /\ creds \in [{Grant} -> {NoRecord} \cup Grants] /\ creds[Grant].refresh = 1 /\ creds[Grant] # NoRecord
      /\ storeLock = Nobody
    BY <1>1, GrantFields DEF StoreInit, GrantFile
<1>3. provider.minted = 1 /\ provider.live = {1} /\ provider.expired = {} /\ lost = {}
      /\ provider \in [minted : 1..MaxTokens, live : SUBSET Nat, expired : SUBSET Nat]
    BY <1>0 DEF GrantsInit
<1>4. caller \in [Callers -> CallerState] /\ \A c \in Callers : caller[c].pc = "idle"
    <2>1. [pc |-> "idle", posts |-> 0, reply |-> NoRecord] \in CallerState BY DEF CallerState
    <2>. QED BY <2>1 DEF GrantsInit
<1>5. user \in [UserOps -> UserState] /\ \A u \in UserOps : user[u].pc = "idle" /\ user[u].minted = NoRecord
    <2>1. [pc |-> "idle", minted |-> NoRecord] \in UserState BY DEF UserState
    <2>. QED BY <2>1 DEF GrantsInit
<1>6. GrantsTyped BY <1>2, <1>3, <1>4, <1>5 DEF GrantsTyped
<1>7. HolderIsCurrent BY <1>2 DEF HolderIsCurrent
<1>8. ExchangeIsExclusive /\ AnswersAreLive BY <1>4 DEF ExchangeIsExclusive, AnswersAreLive
<1>9. StoredIsMinted /\ StoredGrantIsLive BY <1>2, <1>3, <1>4 DEF StoredIsMinted, StoredGrantIsLive
<1>10. LoginsAreLive BY <1>5 DEF LoginsAreLive, Pending
<1>11. \A i \in DOMAIN UserOrder : UserOrder[i] \in UserOps BY DEF UserOps, Range
<1>12. OneAfterAnother /\ LastDone BY <1>5, <1>11 DEF OneAfterAnother, LastDone
<1>. QED BY <1>6, <1>7, <1>8, <1>9, <1>10, <1>12 DEF GrantsInv

LEMMA GrantsKeep == GrantsInv /\ [GrantsNext]_grantVars => GrantsInv'
<1>. SUFFICES ASSUME GrantsInv, [GrantsNext]_grantVars PROVE GrantsInv' OBVIOUS
<1>1. CASE Expire BY <1>1, ExpireKeeps
<1>2. ASSUME NEW c \in Callers, CallerStep(c) \/ CallerDies(c) PROVE GrantsInv'
    BY <1>2, ResolveGrantKeeps, RefreshLocksKeeps, RefreshChecksKeeps, PostsKeeps, LandsKeeps, CallerDiesKeeps
    DEF CallerStep
<1>3. ASSUME NEW u \in UserOps, UserStep(u) PROVE GrantsInv'
    BY <1>3, UserBeginsKeeps, UserLocksKeeps, UserWritesKeeps DEF UserStep
<1>4. CASE UNCHANGED grantVars
    <2>1. UNCHANGED <<creds, storeLock, copy, caller, user, provider, lost>> BY <1>4 DEF grantVars, storeVars
    <2>. QED BY <2>1 DEF GrantsInv, GrantsTyped, HolderIsCurrent, ExchangeIsExclusive, StoredIsMinted, AnswersAreLive,
                StoredGrantIsLive, LoginsAreLive, Pending, OneAfterAnother, LastDone
<1>. QED BY <1>1, <1>2, <1>3, <1>4 DEF GrantsNext
-----------------------------------------------------------------------------
(* The gateway.  Where the grants do not move the file holds keys, and the   *)
(* keys may; where they do, it holds the grant.                             *)

ModelInv ==
    /\ part \in ModelParts
    /\ PoolTypeOK
    /\ GrantsTypeOK
    /\ part # "grants" => PoolInv
    /\ part = "grants" => GrantsInv

LEMMA PoolIsTyped == PoolInv => PoolTypeOK
<1>. SUFFICES ASSUME PoolInv PROVE PoolTypeOK OBVIOUS
<1>1. /\ now \in 0..MaxTime /\ keyRun \in [KeyRuns -> RunState] /\ edit \in [Edits -> EditState]
    BY DEF PoolInv, PoolTyped
<1>2. ASSUME NEW r \in KeyRuns, NEW i \in DOMAIN keyRun[r].members
      PROVE  keyRun[r].members[i].slot \in Slots /\ keyRun[r].members[i].state.until \in Nat
    <2>1. keyRun[r].members[i] \in Member BY <1>1, RosterMembers
    <2>. QED BY <2>1 DEF Member, KeyState
<1>3. \A r \in KeyRuns : keyRun[r].pc \in {"idle", "choosing", "sent", "record", "clear"} \cup RunOver
    BY <1>1 DEF RunState, RunOver
<1>4. \A e \in Edits : edit[e].pc \in {"idle", "editing", "done", "refused"} BY <1>1 DEF EditState
<1>. QED BY <1>1, <1>2, <1>3, <1>4 DEF PoolTypeOK

LEMMA GrantsAreTyped == GrantsInv => GrantsTypeOK
<1>. SUFFICES ASSUME GrantsInv PROVE GrantsTypeOK OBVIOUS
<1>1. /\ caller \in [Callers -> CallerState] /\ user \in [UserOps -> UserState]
      /\ provider \in [minted : 1..MaxTokens, live : SUBSET Nat, expired : SUBSET Nat]
      /\ provider.live \cup provider.expired \cup lost \subseteq 1..provider.minted
    BY DEF GrantsInv, GrantsTyped
<1>2. \A c \in Callers :
         /\ caller[c].pc \in {"idle", "locking", "checking", "posting", "landing", "rereading", "ready", "failed"}
         /\ caller[c].posts \in 0..1
    BY <1>1 DEF CallerState
<1>3. \A u \in UserOps : user[u].pc \in {"idle", "locking", "writing", "done", "refused"} BY <1>1 DEF UserState
<1>4. provider.minted \in 1..MaxTokens BY <1>1
<1>. QED BY <1>1, <1>2, <1>3, <1>4 DEF GrantsTypeOK

LEMMA IdlePool == PoolInit => PoolTypeOK
<1>. SUFFICES ASSUME PoolInit PROVE PoolTypeOK OBVIOUS
<1>1. now = 0 /\ now \in 0..MaxTime BY CooldownAssumption DEF PoolInit
<1>2. \A r \in KeyRuns : keyRun[r].pc = "idle" /\ keyRun[r].members = << >> BY DEF PoolInit, NewRun
<1>3. \A e \in Edits : edit[e].pc = "idle" BY DEF PoolInit
<1>. QED BY <1>1, <1>2, <1>3 DEF PoolTypeOK

LEMMA IdleGrants == GrantsInit => GrantsTypeOK
BY GrantsAssumption DEF GrantsInit, GrantsTypeOK

LEMMA ModelStarts == ModelInit => ModelInv
<1>. SUFFICES ASSUME ModelInit PROVE ModelInv OBVIOUS
<1>1. /\ part \in ModelParts /\ PoolInit /\ GrantsInit
      /\ StoreInit(IF part = "grants" THEN GrantFile ELSE PoolFile)
    BY DEF ModelInit
<1>2. PoolTypeOK /\ GrantsTypeOK BY <1>1, IdlePool, IdleGrants
<1>3. ASSUME part # "grants" PROVE PoolInv BY <1>1, <1>3, PoolStarts
<1>4. ASSUME part = "grants" PROVE GrantsInv BY <1>1, <1>4, GrantsStart
<1>. QED BY <1>1, <1>2, <1>3, <1>4 DEF ModelInv

(* What moves beside the credentials leaves them alone.                     *)
LEMMA CredentialsRest ==
    ASSUME ModelInv, part' = part, UNCHANGED poolVars, UNCHANGED grantVars
    PROVE  ModelInv'
<1>1. UNCHANGED <<creds, storeLock, copy, now, keyRun, edit, caller, user, provider, lost>>
    BY DEF poolVars, grantVars, storeVars
<1>2. PoolTypeOK' /\ GrantsTypeOK' BY <1>1 DEF ModelInv, PoolTypeOK, GrantsTypeOK
<1>3. part # "grants" => PoolInv' BY PoolKeeps DEF ModelInv
<1>4. part = "grants" => GrantsInv' BY GrantsKeep DEF ModelInv
<1>. QED BY <1>2, <1>3, <1>4 DEF ModelInv

LEMMA ModelKeeps == ModelInv /\ [ModelNext]_modelVars => ModelInv'
<1>. SUFFICES ASSUME ModelInv, [ModelNext]_modelVars PROVE ModelInv' OBVIOUS
<1>1. CASE UNCHANGED modelVars
    BY <1>1, CredentialsRest DEF modelVars
<1>2. ASSUME part = "pool", PoolNext, UNCHANGED <<part, caller, user, provider, lost>> PROVE ModelInv'
    <2>1. PoolInv' BY <1>2, PoolKeeps DEF ModelInv
    <2>2. PoolTypeOK' BY <2>1, PoolIsTyped, PTL
    <2>3. GrantsTypeOK' BY <1>2 DEF ModelInv, GrantsTypeOK
    <2>. QED BY <1>2, <2>1, <2>2, <2>3 DEF ModelInv
<1>3. ASSUME part = "grants", GrantsNext, UNCHANGED <<part, now, keyRun, edit>> PROVE ModelInv'
    <2>1. GrantsInv' BY <1>3, GrantsKeep DEF ModelInv
    <2>2. GrantsTypeOK' BY <2>1, GrantsAreTyped, PTL
    <2>3. PoolTypeOK' BY <1>3 DEF ModelInv, PoolTypeOK
    <2>. QED BY <1>3, <2>1, <2>2, <2>3 DEF ModelInv
<1>4. CASE ModelNext
    <2>1. part' = part BY <1>4 DEF ModelNext
    <2>2. \/ UNCHANGED poolVars /\ UNCHANGED grantVars
          \/ part = "pool" /\ PoolNext /\ UNCHANGED <<caller, user, provider, lost>>
          \/ part = "grants" /\ GrantsNext /\ UNCHANGED <<now, keyRun, edit>>
        BY <1>4 DEF ModelNext
    <2>. QED BY <1>2, <1>3, <2>1, <2>2, CredentialsRest
<1>. QED BY <1>1, <1>4

LEMMA LastWordFollows == GrantsInv => LastWordIsTheUsers
<1>. SUFFICES ASSUME GrantsInv PROVE LastWordIsTheUsers OBVIOUS
<1>. SUFFICES ASSUME NEW i \in DOMAIN UserOrder, user[UserOrder[i]].pc = "done",
                     \A j \in DOMAIN UserOrder : j > i => user[UserOrder[j]].pc \in {"idle", "refused"}
              PROVE  IF UserOp[UserOrder[i]] = "logout" THEN creds[Grant] = NoRecord
                     ELSE creds[Grant] # NoRecord /\ creds[Grant].account = UserOrder[i]
    BY DEF LastWordIsTheUsers
<1>1. \A j \in DOMAIN UserOrder : j > i => user[UserOrder[j]].pc # "done" OBVIOUS
<1>. QED BY <1>1 DEF GrantsInv, LastDone

LEMMA ModelKept == ModelInv => CredentialsAreKept
<1>. SUFFICES ASSUME ModelInv PROVE CredentialsAreKept OBVIOUS
<1>1. part \in ModelParts /\ PoolTypeOK /\ GrantsTypeOK BY DEF ModelInv
<1>2. CASE part # "grants"
    <2>1. PoolInv BY <1>2 DEF ModelInv
    <2>2. storeLock \in {Nobody} \cup KeyRuns \cup Edits /\ HolderIsCurrent /\ BenchedForCause /\ EditsStand
        BY <2>1 DEF PoolInv, PoolTyped
    <2>. QED BY <1>1, <1>2, <2>2 DEF CredentialsAreKept, ModelTypeOK
<1>3. CASE part = "grants"
    <2>1. GrantsInv BY <1>3 DEF ModelInv
    <2>2. /\ storeLock \in {Nobody} \cup Callers \cup UserOps
          /\ HolderIsCurrent /\ StoredGrantIsLive /\ ExchangeIsExclusive /\ LastWordIsTheUsers
        BY <2>1, LastWordFollows DEF GrantsInv, GrantsTyped
    <2>. QED BY <1>1, <1>3, <2>2 DEF CredentialsAreKept, ModelTypeOK
<1>. QED BY <1>2, <1>3

-----------------------------------------------------------------------------

(* The credential file is nobody's stale copy, for every pool, any number of *)
(* runs, callers and commands of the user, and wherever any of them dies:    *)
(* what is written is made of what the file held under the lock, a key is    *)
(* benched only for an answer a run got with its slot, what a command stored *)
(* or removed stands, only the lock's holder exchanges a refresh token and   *)
(* with the one that is stored, and the last login or logout stands.         *)
THEOREM CredentialsStayKept == ModelSpec => []CredentialsAreKept
<1>1. ModelInit => ModelInv BY ModelStarts
<1>2. ModelInv /\ [ModelNext]_modelVars => ModelInv' BY ModelKeeps
<1>3. ModelInv => CredentialsAreKept BY ModelKept
<1>. QED BY <1>1, <1>2, <1>3, PTL DEF ModelSpec

-----------------------------------------------------------------------------
(* One answer.                                                              *)

WireFrame == [kind : {"opening", "delta", "text", "end", "error", "body", "refusal", "bare500"},
              of : Nat, n : Nat]
Run == [of : Nat, state : Results \cup {"idle", "running", "panicked"}, posted : Nat]
Chain == [committed : BOOLEAN, attempted : BOOLEAN, sawDelta : BOOLEAN,
          outcome : {"none", "succeeded", "failed", "aborted"}]
Clients == {"there", "gone", "broken"}

ServeTyped ==
    /\ servePc \in {"resolving", "choosing", "driving", "joining", "answering", "done"}
    /\ worker \in Run /\ tried \in Seq(Run) /\ channel \in Seq(Nat)
    /\ chain \in Chain /\ next \in Nat
    /\ holding \in {"request", "stream", "nothing"} /\ client \in Clients
    /\ wire \in Seq(WireFrame) /\ requestLog \in Seq({"200", "499", "error"})

(* The deltas of the run in flight the gateway has yet to take, which are in *)
(* the channel before the result, and those it took.                        *)
Ended == worker.state \in Results
Owed == IF Ended THEN Len(channel) - 1 ELSE Len(channel)
Taken == worker.posted - Owed

ChannelIsInOrder ==
    servePc = "driving" =>
        /\ Owed \in 0..worker.posted
        /\ Ended => channel[Len(channel)] = 0
        /\ \A i \in 1..Owed : channel[i] = Taken + i
        /\ Taken > 0 => chain.committed

(* Which run there is, and what becomes of the chain, at each point.         *)
RunsAreAccounted ==
    /\ worker.state = "idle" => worker = Idle /\ servePc \notin {"driving", "joining"}
    /\ servePc = "resolving" => worker = Idle /\ attempts = << >>
    /\ worker.state = "running" =>
         servePc = "driving" \/ (servePc = "joining" /\ chain.outcome = "aborted")
    /\ servePc \in {"resolving", "choosing", "driving"} => chain.outcome = "none"
    /\ servePc = "answering" => chain.outcome # "none"
    /\ servePc \in {"joining", "choosing"} /\ chain.outcome = "none" =>
         \/ worker = Idle
         \/ worker.state = "panicked"
         \/ (worker.state \in {"quota", "error"} /\ worker.posted = 0)
    /\ chain.outcome = "succeeded" => worker.state = "succeeded"
    /\ chain.outcome = "aborted" => client # "there"

(* What the client has before the last word.                                 *)
StreamIsOpen ==
    servePc # "done" =>
        /\ requestLog = << >>
        /\ holding = "request" => wire = << >>
        /\ holding = "nothing" => wire = << >> /\ chain.outcome = "aborted"
        /\ holding = "stream" =>
             /\ Live /\ Len(wire) > 0
             /\ \A i \in DOMAIN wire : wire[i].kind = IF i = 1 THEN "opening" ELSE "delta"

(* A stream that was opened says the first n deltas of the run.              *)
Says(n) ==
    /\ holding = IF n = 0 THEN "request" ELSE "stream"
    /\ Len(wire) = IF n = 0 THEN 0 ELSE n + 1
    /\ \A i \in DOMAIN wire : wire[i] = IF i = 1 THEN Opening ELSE Delta(i - 1)

NoneDied == \A i \in DOMAIN tried : tried[i].state # "panicked"

StreamSaysTheRun ==
    Live /\ client = "there" /\ NoneDied /\ servePc # "done" =>
        /\ servePc = "driving" => Says(Taken)
        /\ servePc # "driving" /\ worker.state # "panicked" => Says(worker.posted)

AnswerInv ==
    /\ ServeTyped /\ ChannelIsInOrder /\ RunsAreAccounted /\ StreamIsOpen /\ StreamSaysTheRun
    /\ AnswerIsOrderly /\ FailoverIsHonest /\ NothingIsLost /\ LogIsHonest

-----------------------------------------------------------------------------
LEMMA IdleIsARun == Idle \in Run /\ Idle.state = "idle" /\ Idle.posted = 0
BY DEF Idle, Run, Results

LEMMA FramesAreTyped ==
    ASSUME worker \in Run
    PROVE  /\ Opening \in WireFrame /\ Text \in WireFrame /\ End \in WireFrame /\ Error \in WireFrame
           /\ \A n \in Nat : Delta(n) \in WireFrame
           /\ Opening.kind = "opening" /\ Text.kind = "text" /\ End.kind = "end" /\ Error.kind = "error"
           /\ \A n \in Nat : Delta(n).kind = "delta"
BY DEF Opening, Text, End, Error, Delta, Frame, WireFrame, Run

(* What a write leaves on the wire: all of it for a client that is there.    *)
LEMMA WhatIsWritten ==
    ASSUME wire \in Seq(WireFrame), client \in Clients, NEW frames \in Seq(WireFrame),
           NEW ok \in BOOLEAN, Write(frames, ok)
    PROVE  /\ client' \in Clients
           /\ client' = "there" => client = "there"
           /\ client = "there" => client' = "there" /\ ok
           /\ wire' \in Seq(WireFrame)
           /\ \E k \in 0..Len(frames) :
                /\ ok <=> k = Len(frames)
                /\ Len(wire') = Len(wire) + k
                /\ \A i \in 1..Len(wire) : wire'[i] = wire[i]
                /\ \A i \in 1..k : wire'[Len(wire) + i] = frames[i]
<1>1. PICK k \in 0..Len(frames) :
          /\ ok = (k = Len(frames))
          /\ wire' = wire \o SubSeq(frames, 1, k)
          /\ \/ client = "there" /\ ok /\ UNCHANGED client
             \/ client = "gone" /\ client' = IF ok THEN "gone" ELSE "broken"
             \/ client = "broken" /\ k = 0 /\ UNCHANGED client
    BY DEF Write
<1>2. SubSeq(frames, 1, k) \in Seq(WireFrame) /\ Len(SubSeq(frames, 1, k)) = k
      /\ \A i \in 1..k : SubSeq(frames, 1, k)[i] = frames[i]
    OBVIOUS
<1>3. wire' \in Seq(WireFrame) BY <1>1, <1>2
<1>4. client' \in Clients /\ (client' = "there" => client = "there")
      /\ (client = "there" => client' = "there" /\ ok)
    BY <1>1 DEF Clients
<1>5. Len(wire') = Len(wire) + k /\ (\A i \in 1..Len(wire) : wire'[i] = wire[i])
      /\ \A i \in 1..k : wire'[Len(wire) + i] = frames[i]
    BY <1>1, <1>2
<1>. QED BY <1>1, <1>3, <1>4, <1>5

LEMMA AnswerStarts ==
    ASSUME NEW requests, ServeInit(requests)
    PROVE  AnswerInv
<1>1. /\ servePc = "resolving" /\ attempts = << >> /\ next = 1 /\ worker = Idle /\ tried = << >>
      /\ channel = << >> /\ holding = "request" /\ client = "there" /\ wire = << >> /\ requestLog = << >>
      /\ chain = [committed |-> FALSE, attempted |-> FALSE, sawDelta |-> FALSE, outcome |-> "none"]
    BY DEF ServeInit
<1>2. ServeTyped BY <1>1, IdleIsARun DEF ServeTyped, Chain, Clients
<1>3. ChannelIsInOrder /\ StreamIsOpen BY <1>1 DEF ChannelIsInOrder, StreamIsOpen
<1>4. RunsAreAccounted BY <1>1, IdleIsARun DEF RunsAreAccounted
<1>5. StreamSaysTheRun BY <1>1, IdleIsARun DEF StreamSaysTheRun, Says
<1>6. AnswerIsOrderly /\ FailoverIsHonest /\ NothingIsLost /\ LogIsHonest
    BY <1>1 DEF AnswerIsOrderly, FailoverIsHonest, NothingIsLost, LogIsHonest
<1>. QED BY <1>2, <1>3, <1>4, <1>5, <1>6 DEF AnswerInv

(* Before the last word the properties of the answer are about what is on   *)
(* the wire alone.                                                          *)
LEMMA OpenAnswersAreHonest ==
    ServeTyped /\ StreamIsOpen /\ servePc # "done" => AnswerIsOrderly /\ NothingIsLost /\ LogIsHonest
<1>. SUFFICES ASSUME ServeTyped, StreamIsOpen, servePc # "done"
              PROVE  AnswerIsOrderly /\ NothingIsLost /\ LogIsHonest
    OBVIOUS
<1>1. requestLog = << >> /\ NothingIsLost /\ LogIsHonest
    BY DEF StreamIsOpen, NothingIsLost, LogIsHonest
<1>2. \A i \in DOMAIN wire : wire[i].kind = IF i = 1 THEN "opening" ELSE "delta"
    BY DEF StreamIsOpen, ServeTyped
<1>3. \A i \in DOMAIN wire : i \in Nat /\ i >= 1 /\ (i # 1 => 1 \in DOMAIN wire) BY DEF ServeTyped
<1>4. AnswerIsOrderly BY <1>2, <1>3 DEF AnswerIsOrderly
<1>. QED BY <1>1, <1>4

LEMMA OpenAnswersStayHonest ==
    (ServeTyped /\ StreamIsOpen /\ servePc # "done")'
      => (AnswerIsOrderly /\ NothingIsLost /\ LogIsHonest)'
BY OpenAnswersAreHonest, PTL

LEMMA LogsDiffer == <<"error">> # <<"200">> /\ <<"error">> # <<"499">> /\ <<"200">> # <<"499">>
<1>1. \A a, b : <<a>> = <<b>> => a = b OBVIOUS
<1>. QED BY <1>1

LEMMA ResolveHonest == ASSUME AnswerInv, ResolveRequest PROVE AnswerInv'
<1>1. /\ servePc = "resolving" /\ worker = Idle /\ attempts = << >> /\ chain.outcome = "none"
      /\ requestLog = << >> /\ holding # "nothing"
    BY DEF ResolveRequest, AnswerInv, RunsAreAccounted, StreamIsOpen
<1>2. ServeTyped /\ FailoverIsHonest BY DEF AnswerInv
<1>3. UNCHANGED <<request, next, worker, tried, channel, chain, client>> BY DEF ResolveRequest
<1>4. CASE servePc' = "choosing" /\ UNCHANGED <<holding, wire, requestLog>>
    <2>1. ServeTyped' BY <1>2, <1>3, <1>4 DEF ServeTyped
    <2>2. ChannelIsInOrder' BY <1>4 DEF ChannelIsInOrder
    <2>3. RunsAreAccounted'
        BY <1>1, <1>3, <1>4, IdleIsARun DEF RunsAreAccounted, AnswerInv
    <2>4. StreamIsOpen' BY <1>1, <1>3, <1>4 DEF StreamIsOpen, AnswerInv, Live
    <2>5. StreamSaysTheRun'
        BY <1>1, <1>3, <1>4 DEF StreamSaysTheRun, AnswerInv, Live, NoneDied, Says, Delta
    <2>6. (AnswerIsOrderly /\ NothingIsLost /\ LogIsHonest)'
        BY <1>4, <2>1, <2>4, OpenAnswersStayHonest
    <2>. QED BY <1>2, <1>3, <2>1, <2>2, <2>3, <2>4, <2>5, <2>6 DEF AnswerInv, FailoverIsHonest
<1>5. CASE servePc' = "done" /\ Respond("refusal") /\ attempts' = attempts
           /\ (LogStatus("error") \/ UNCHANGED requestLog)
    <2>1. holding = "request" /\ wire = << >>
        BY <1>1, <1>5 DEF Respond, AnswerInv, StreamIsOpen
    <2>2. wire' = <<Frame("refusal", worker.of, 0)>> /\ holding' = "nothing"
        BY <1>5, <2>1 DEF Respond
    <2>3. Frame("refusal", worker.of, 0) \in WireFrame /\ Frame("refusal", worker.of, 0).kind = "refusal"
        BY <1>2 DEF ServeTyped, Run, Frame, WireFrame
    <2>4. requestLog' \in {<< >>, <<"error">>} BY <1>1, <1>5 DEF LogStatus
    <2>5. wire' \in Seq(WireFrame) /\ wire' # << >> /\ Len(wire') = 1
             /\ wire'[1].kind = "refusal" BY <2>2, <2>3
    <2>6. requestLog' \in Seq({"200", "499", "error"}) /\ Len(requestLog') <= 1
        <3>1. CASE requestLog' = << >> BY <3>1
        <3>2. CASE requestLog' = <<"error">> BY <3>2
        <3>. QED BY <2>4, <3>1, <3>2
    <2>7. ServeTyped' BY <1>2, <1>3, <1>5, <2>2, <2>5, <2>6 DEF ServeTyped
    <2>8. ChannelIsInOrder' /\ StreamIsOpen' /\ StreamSaysTheRun'
        BY <1>5 DEF ChannelIsInOrder, StreamIsOpen, StreamSaysTheRun
    <2>9. RunsAreAccounted' BY <1>1, <1>3, <1>5, IdleIsARun DEF RunsAreAccounted, AnswerInv
    <2>10. AnswerIsOrderly' BY <1>5, <2>2, <2>3 DEF AnswerIsOrderly
    <2>11. NothingIsLost' BY <1>1, <1>3 DEF NothingIsLost
    <2>12. LogIsHonest' BY <1>1, <1>5, <2>4, <2>5, <2>6, LogsDiffer DEF LogIsHonest
    <2>. QED BY <1>2, <1>3, <2>7, <2>8, <2>9, <2>10, <2>11, <2>12 DEF AnswerInv, FailoverIsHonest
<1>. QED BY <1>4, <1>5 DEF ResolveRequest

(* A step before the last word that writes nothing.                          *)
LEMMA QuietStep ==
    ASSUME AnswerInv, servePc # "done", servePc' # "done", ServeTyped',
           ChannelIsInOrder', RunsAreAccounted', StreamSaysTheRun', FailoverIsHonest',
           UNCHANGED <<request, holding, wire, requestLog>>,
           chain.outcome = "aborted" => chain'.outcome = "aborted"
    PROVE  AnswerInv'
<1>1. StreamIsOpen' BY DEF StreamIsOpen, AnswerInv, Live
<1>2. (AnswerIsOrderly /\ NothingIsLost /\ LogIsHonest)'
    BY <1>1, OpenAnswersStayHonest
<1>. QED BY <1>1, <1>2 DEF AnswerInv

LEMMA SkipHonest == ASSUME AnswerInv, SkipAttempt PROVE AnswerInv'
<1>1. /\ UNCHANGED <<request, servePc, attempts, worker, tried, channel, chain, holding, client,
           wire, requestLog>>
      /\ next' = next + 1 /\ servePc = "choosing"
    BY DEF SkipAttempt
<1>2. ServeTyped' BY <1>1 DEF ServeTyped, AnswerInv
<1>3. ChannelIsInOrder' BY <1>1 DEF ChannelIsInOrder
<1>4. RunsAreAccounted' BY <1>1 DEF RunsAreAccounted, AnswerInv
<1>5. StreamSaysTheRun'
    BY <1>1 DEF StreamSaysTheRun, AnswerInv, Live, NoneDied, Says, Delta, Taken, Owed, Ended
<1>6. FailoverIsHonest' BY <1>1 DEF FailoverIsHonest, AnswerInv
<1>. QED BY <1>1, <1>2, <1>3, <1>4, <1>5, <1>6, QuietStep

LEMMA StartHonest == ASSUME AnswerInv, StartAttempt PROVE AnswerInv'
<1>1. /\ servePc = "choosing" /\ servePc' = "driving" /\ channel' = << >> /\ next' = next + 1
      /\ worker' = [of |-> next, state |-> "running", posted |-> 0]
      /\ tried' = IF worker = Idle THEN tried ELSE Append(tried, worker)
      /\ chain' = [chain EXCEPT !.attempted = TRUE, !.sawDelta = FALSE]
      /\ UNCHANGED <<request, attempts, holding, client, wire, requestLog>>
    BY DEF StartAttempt
<1>2. ServeTyped /\ RunsAreAccounted BY DEF AnswerInv
<1>3. worker \in Run /\ tried \in Seq(Run) /\ chain \in Chain BY <1>2 DEF ServeTyped
<1>4. /\ worker' \in Run /\ tried' \in Seq(Run) /\ chain' \in Chain
      /\ worker'.state = "running" /\ worker'.posted = 0
      /\ chain'.outcome = chain.outcome /\ chain'.committed = chain.committed
    <2>1. worker' \in Run /\ worker'.state = "running" /\ worker'.posted = 0
        BY <1>1, <1>2 DEF Run, ServeTyped
    <2>2. chain' \in Chain /\ chain'.outcome = chain.outcome /\ chain'.committed = chain.committed
        BY <1>1, <1>3 DEF Chain
    <2>3. tried' \in Seq(Run) BY <1>1, <1>3
    <2>. QED BY <2>1, <2>2, <2>3
<1>5. ServeTyped' BY <1>1, <1>2, <1>4 DEF ServeTyped
<1>6. ~Ended' /\ Owed' = 0 /\ Taken' = 0
    <2>1. ~Ended' BY <1>4 DEF Ended, Results
    <2>. QED BY <1>1, <1>4, <2>1 DEF Owed, Taken
<1>7. ChannelIsInOrder' BY <1>1, <1>4, <1>6 DEF ChannelIsInOrder
<1>8. chain.outcome = "none" /\ RunsAreAccounted' BY <1>1, <1>2, <1>4 DEF RunsAreAccounted, Idle
<1>9. \A i \in DOMAIN tried' : (i \in DOMAIN tried /\ tried'[i] = tried[i])
                               \/ (worker # Idle /\ tried'[i] = worker)
    BY <1>1, <1>3
<1>10. FailoverIsHonest' BY <1>1, <1>2, <1>8, <1>9 DEF FailoverIsHonest, RunsAreAccounted, AnswerInv
<1>11. NoneDied' => NoneDied /\ (worker = Idle \/ worker.state # "panicked")
    <2>1. \A i \in DOMAIN tried : i \in DOMAIN tried' /\ tried'[i] = tried[i] BY <1>1, <1>3
    <2>2. worker # Idle => Len(tried) + 1 \in DOMAIN tried' /\ tried'[Len(tried) + 1] = worker
        BY <1>1, <1>3
    <2>. QED BY <2>1, <2>2 DEF NoneDied
<1>12. StreamSaysTheRun'
    <2>. SUFFICES ASSUME Live', client' = "there", NoneDied' PROVE Says(Taken)'
        BY <1>1 DEF StreamSaysTheRun
    <2>1. worker.state # "panicked" /\ worker.posted = 0
        BY <1>1, <1>2, <1>8, <1>11, IdleIsARun DEF RunsAreAccounted
    <2>2. Says(0) BY <1>1, <1>11, <2>1 DEF StreamSaysTheRun, AnswerInv, Live
    <2>3. holding = "request" /\ Len(wire) = 0 /\ DOMAIN wire = {} BY <1>2, <2>2 DEF Says, ServeTyped
    <2>. QED BY <1>1, <1>6, <2>3 DEF Says
<1>. QED BY <1>1, <1>5, <1>7, <1>8, <1>10, <1>12, QuietStep

LEMMA ExhaustedHonest == ASSUME AnswerInv, ChainExhausted PROVE AnswerInv'
<1>1. /\ servePc = "choosing" /\ servePc' = "answering"
      /\ chain' = [chain EXCEPT !.outcome = "failed"]
      /\ UNCHANGED <<request, attempts, next, worker, tried, channel, holding, client, wire, requestLog>>
    BY DEF ChainExhausted
<1>2. ServeTyped /\ RunsAreAccounted BY DEF AnswerInv
<1>3. chain.outcome = "none" BY <1>1, <1>2 DEF RunsAreAccounted
<1>4. chain' \in Chain /\ chain'.outcome = "failed" BY <1>1, <1>2 DEF ServeTyped, Chain
<1>5. ServeTyped' BY <1>1, <1>2, <1>4 DEF ServeTyped
<1>6. ChannelIsInOrder' BY <1>1 DEF ChannelIsInOrder
<1>7. RunsAreAccounted' BY <1>1, <1>2, <1>4 DEF RunsAreAccounted
<1>8. StreamSaysTheRun' BY <1>1 DEF StreamSaysTheRun, AnswerInv, Live, NoneDied, Says, Delta
<1>9. FailoverIsHonest' BY <1>1 DEF FailoverIsHonest, AnswerInv
<1>. QED BY <1>1, <1>3, <1>5, <1>6, <1>7, <1>8, <1>9, QuietStep

LEMMA PostHonest == ASSUME AnswerInv, PostDelta PROVE AnswerInv'
<1>1. /\ worker.state = "running"
      /\ worker' = [worker EXCEPT !.posted = @ + 1]
      /\ channel' = Append(channel, worker.posted + 1)
      /\ UNCHANGED <<request, servePc, attempts, next, tried, chain, holding, client, wire, requestLog>>
    BY DEF PostDelta
<1>2. ServeTyped /\ RunsAreAccounted BY DEF AnswerInv
<1>3. worker \in Run /\ channel \in Seq(Nat) BY <1>2 DEF ServeTyped
<1>4. /\ worker' \in Run /\ worker'.state = "running" /\ worker'.posted = worker.posted + 1
      /\ worker'.of = worker.of /\ worker.posted \in Nat
    <2>1. worker.posted \in Nat /\ worker.posted + 1 \in Nat /\ worker.of \in Nat BY <1>3 DEF Run
    <2>2. worker' = [of |-> worker.of, state |-> "running", posted |-> worker.posted + 1]
        BY <1>1, <1>3 DEF Run
    <2>. QED BY <2>1, <2>2 DEF Run
<1>5. /\ channel' \in Seq(Nat) /\ Len(channel') = Len(channel) + 1
      /\ channel'[Len(channel')] = worker.posted + 1
      /\ \A i \in DOMAIN channel : channel'[i] = channel[i]
      /\ DOMAIN channel = 1..Len(channel) /\ DOMAIN channel' = 1..Len(channel') /\ Len(channel) \in Nat
    BY <1>1, <1>3, <1>4
<1>6. ServeTyped' BY <1>1, <1>2, <1>4, <1>5 DEF ServeTyped
<1>7. ~Ended /\ ~Ended' BY <1>1, <1>4 DEF Ended, Results
<1>8. Owed = Len(channel) /\ Owed' = Len(channel) + 1 /\ Taken' = Taken
    <2>1. Owed = Len(channel) /\ Owed' = Len(channel') BY <1>7 DEF Owed
    <2>. QED BY <1>4, <1>5, <2>1 DEF Taken
<1>9. ChannelIsInOrder'
    <2>. SUFFICES ASSUME servePc = "driving"
                  PROVE  /\ Owed' \in 0..worker'.posted
                         /\ \A i \in 1..Owed' : channel'[i] = Taken' + i
                         /\ Taken' > 0 => chain'.committed
        BY <1>1, <1>7 DEF ChannelIsInOrder
    <2>1. /\ Owed \in 0..worker.posted
          /\ \A i \in 1..Owed : channel[i] = Taken + i
          /\ Taken > 0 => chain.committed
        BY DEF ChannelIsInOrder, AnswerInv
    <2>2. worker.posted + 1 = Taken + Owed' BY <1>4, <1>5, <1>8 DEF Taken
    <2>3. \A i \in 1..Owed' : i \in 1..Owed \/ i = Owed' BY <1>5, <1>8
    <2>4. \A i \in 1..Owed' : channel'[i] = Taken + i
        BY <1>5, <1>8, <2>1, <2>2, <2>3
    <2>. QED BY <1>1, <1>4, <1>5, <1>8, <2>1, <2>4
<1>10. servePc # "done" /\ (servePc # "driving" => client # "there")
    BY <1>1, <1>2 DEF RunsAreAccounted
<1>11. RunsAreAccounted' BY <1>1, <1>2, <1>4 DEF RunsAreAccounted
<1>12. StreamSaysTheRun'
    BY <1>1, <1>4, <1>8, <1>10 DEF StreamSaysTheRun, AnswerInv, Live, NoneDied, Says, Delta
<1>13. FailoverIsHonest' BY <1>1 DEF FailoverIsHonest, AnswerInv
<1>. QED BY <1>1, <1>6, <1>10, <1>9, <1>11, <1>12, <1>13, QuietStep

LEMMA EndHonest == ASSUME AnswerInv, RunEnds PROVE AnswerInv'
<1>1. /\ worker.state = "running"
      /\ UNCHANGED <<request, servePc, attempts, next, tried, chain, holding, client, wire, requestLog>>
    BY DEF RunEnds
<1>2. ServeTyped /\ RunsAreAccounted BY DEF AnswerInv
<1>3. worker \in Run /\ channel \in Seq(Nat) /\ Len(channel) \in Nat /\ DOMAIN channel = 1..Len(channel)
    BY <1>2 DEF ServeTyped
<1>4. PICK state \in Results \cup {"panicked"} :
          /\ worker' = [worker EXCEPT !.state = state]
          /\ channel' = IF state = "panicked" THEN channel ELSE Append(channel, 0)
    BY DEF RunEnds, Results
<1>5. /\ worker' \in Run /\ worker'.state = state /\ worker'.posted = worker.posted
      /\ worker'.of = worker.of
      /\ worker.posted \in Nat
    BY <1>3, <1>4 DEF Run
<1>6. ~Ended /\ Ended' = (state # "panicked") BY <1>1, <1>4, <1>5 DEF Ended, Results
<1>7. /\ channel' \in Seq(Nat) /\ DOMAIN channel' = 1..Len(channel')
      /\ \A i \in 1..Len(channel) : channel'[i] = channel[i]
      /\ state = "panicked" => Len(channel') = Len(channel)
      /\ state # "panicked" => Len(channel') = Len(channel) + 1 /\ channel'[Len(channel) + 1] = 0
    <2>1. CASE state = "panicked" BY <1>3, <1>4, <2>1
    <2>2. CASE state # "panicked"
        <3>1. channel' = Append(channel, 0) BY <1>4, <2>2
        <3>2. channel' \in Seq(Nat) /\ Len(channel') = Len(channel) + 1 BY <1>3, <3>1
        <3>3. \A i \in 1..Len(channel) : channel'[i] = channel[i] BY <1>3, <3>1
        <3>4. channel'[Len(channel) + 1] = 0 BY <1>3, <3>1
        <3>. QED BY <2>2, <3>2, <3>3, <3>4
    <2>. QED BY <2>1, <2>2
<1>8. ServeTyped' BY <1>1, <1>2, <1>5, <1>7 DEF ServeTyped
<1>9. Owed = Len(channel) /\ Owed' = Owed /\ Taken' = Taken
    <2>1. Owed = Len(channel) BY <1>6 DEF Owed
    <2>2. Owed' = Len(channel)
        <3>1. CASE state = "panicked" BY <1>6, <1>7, <3>1 DEF Owed
        <3>2. CASE state # "panicked"
            <4>1. Owed' = Len(channel') - 1 /\ Len(channel') = Len(channel) + 1 BY <1>6, <1>7, <3>2
                    DEF Owed
            <4>. QED BY <1>3, <4>1
        <3>. QED BY <3>1, <3>2
    <2>. QED BY <1>5, <2>1, <2>2 DEF Taken
<1>10. ChannelIsInOrder'
    <2>1. servePc = "driving" =>
            /\ Owed \in 0..worker.posted
            /\ \A i \in 1..Owed : channel[i] = Taken + i
            /\ Taken > 0 => chain.committed
        BY DEF ChannelIsInOrder, AnswerInv
    <2>2. Ended' => channel'[Len(channel')] = 0 BY <1>6, <1>7
    <2>3. \A i \in 1..Owed : channel'[i] = channel[i] BY <1>7, <1>9
    <2>. QED BY <1>1, <1>5, <1>9, <2>1, <2>2, <2>3 DEF ChannelIsInOrder
<1>11. servePc # "done" /\ (servePc # "driving" => client # "there")
    BY <1>1, <1>2 DEF RunsAreAccounted
<1>12. RunsAreAccounted'
    <2>1. chain.outcome # "succeeded" BY <1>1, <1>2 DEF RunsAreAccounted
    <2>2. worker'.state \notin {"idle", "running"} BY <1>5 DEF Results
    <2>3. servePc \in {"driving", "joining"} /\ (servePc = "joining" => chain.outcome = "aborted")
        BY <1>1, <1>2 DEF RunsAreAccounted
    <2>. QED BY <1>1, <1>2, <2>1, <2>2, <2>3 DEF RunsAreAccounted
<1>13. StreamSaysTheRun'
    BY <1>1, <1>5, <1>9, <1>11 DEF StreamSaysTheRun, AnswerInv, Live, NoneDied, Says, Delta
<1>14. FailoverIsHonest' BY <1>1 DEF FailoverIsHonest, AnswerInv
<1>. QED BY <1>1, <1>8, <1>10, <1>11, <1>12, <1>13, <1>14, QuietStep

LEMMA KeepaliveHonest == ASSUME AnswerInv, Keepalive PROVE AnswerInv'
<1>1. /\ servePc = "driving" /\ servePc' = "joining" /\ client' = "broken"
      /\ chain' = [chain EXCEPT !.outcome = "aborted"]
      /\ UNCHANGED <<request, attempts, next, worker, tried, channel, holding, wire, requestLog>>
    BY DEF Keepalive
<1>2. ServeTyped /\ RunsAreAccounted BY DEF AnswerInv
<1>3. chain' \in Chain /\ chain'.outcome = "aborted" BY <1>1, <1>2 DEF ServeTyped, Chain
<1>4. ServeTyped' BY <1>1, <1>2, <1>3 DEF ServeTyped, Clients
<1>5. ChannelIsInOrder' /\ StreamSaysTheRun' BY <1>1 DEF ChannelIsInOrder, StreamSaysTheRun
<1>6. RunsAreAccounted' BY <1>1, <1>2, <1>3 DEF RunsAreAccounted
<1>7. FailoverIsHonest' BY <1>1 DEF FailoverIsHonest, AnswerInv
<1>. QED BY <1>1, <1>3, <1>4, <1>5, <1>6, <1>7, QuietStep

LEMMA ResultHonest == ASSUME AnswerInv, TakeResult PROVE AnswerInv'
<1>1. /\ servePc = "driving" /\ servePc' = "joining" /\ channel' = << >>
      /\ channel = <<0>> \/ (channel = << >> /\ worker.state = "panicked")
      /\ chain' = [chain EXCEPT !.outcome = Verdict]
      /\ UNCHANGED <<request, attempts, next, worker, tried, holding, client, wire, requestLog>>
    BY DEF TakeResult
<1>2. ServeTyped /\ RunsAreAccounted /\ ChannelIsInOrder BY DEF AnswerInv
<1>3. worker \in Run /\ worker.posted \in Nat BY <1>2 DEF ServeTyped, Run
<1>4. Verdict \in {"none", "succeeded", "failed"} BY DEF Verdict
<1>5. chain' \in Chain /\ chain'.outcome = Verdict BY <1>1, <1>2, <1>4 DEF ServeTyped, Chain
<1>6. ServeTyped' BY <1>1, <1>2, <1>5 DEF ServeTyped
<1>7. worker.state = "panicked" \/ (Ended /\ Taken = worker.posted)
    <2>1. CASE channel = <<0>>
        <3>1. Len(channel) = 1 /\ 1 \in DOMAIN channel /\ channel[1] = 0 BY <2>1
        <3>2. /\ Owed \in 0..worker.posted
              /\ \A i \in 1..Owed : channel[i] = Taken + i
            BY <1>1, <1>2 DEF ChannelIsInOrder
        <3>3. Ended
            <4>. SUFFICES ASSUME ~Ended PROVE FALSE OBVIOUS
            <4>1. Owed = 1 BY <3>1 DEF Owed
            <4>2. Taken = worker.posted - 1 /\ worker.posted >= 1 BY <1>3, <3>2, <4>1 DEF Taken
            <4>3. channel[1] = Taken + 1 BY <3>2, <4>1
            <4>. QED BY <1>3, <3>1, <4>2, <4>3
        <3>4. Owed = 0 BY <3>1, <3>3 DEF Owed
        <3>. QED BY <1>3, <3>3, <3>4 DEF Taken
    <2>. QED BY <1>1, <2>1
<1>8. ChannelIsInOrder' BY <1>1 DEF ChannelIsInOrder
<1>9. RunsAreAccounted'
    <2>1. worker.state \notin {"idle", "running"} BY <1>1, <1>7 DEF Ended, Results
    <2>2. Verdict = "succeeded" => worker.state = "succeeded" BY DEF Verdict
    <2>3. Verdict = "none" => worker.state = "panicked"
            \/ (worker.state \in {"quota", "error"} /\ worker.posted = 0)
        BY <1>1, <1>2, <1>3, <1>7 DEF Verdict, ChannelIsInOrder
    <2>. QED BY <1>1, <1>4, <1>5, <2>1, <2>2, <2>3 DEF RunsAreAccounted
<1>10. StreamSaysTheRun'
    BY <1>1, <1>7 DEF StreamSaysTheRun, AnswerInv, Live, NoneDied, Says, Delta
<1>11. chain.outcome = "none" BY <1>1, <1>2 DEF RunsAreAccounted
<1>12. FailoverIsHonest' BY <1>1 DEF FailoverIsHonest, AnswerInv
<1>. QED BY <1>1, <1>6, <1>8, <1>9, <1>10, <1>11, <1>12, QuietStep

LEMMA JoinHonest == ASSUME AnswerInv, JoinWorker PROVE AnswerInv'
<1>1. /\ servePc = "joining" /\ worker.state # "running"
      /\ servePc' = IF chain.outcome = "none" THEN "choosing" ELSE "answering"
      /\ UNCHANGED <<request, attempts, next, worker, tried, channel, chain, holding, client, wire,
           requestLog>>
    BY DEF JoinWorker
<1>2. ServeTyped /\ RunsAreAccounted BY DEF AnswerInv
<1>3. ServeTyped' BY <1>1, <1>2 DEF ServeTyped
<1>4. ChannelIsInOrder' BY <1>1 DEF ChannelIsInOrder
<1>5. RunsAreAccounted' BY <1>1, <1>2 DEF RunsAreAccounted
<1>6. StreamSaysTheRun' BY <1>1 DEF StreamSaysTheRun, AnswerInv, Live, NoneDied, Says, Delta
<1>7. FailoverIsHonest' BY <1>1 DEF FailoverIsHonest, AnswerInv
<1>. QED BY <1>1, <1>3, <1>4, <1>5, <1>6, <1>7, QuietStep

LEMMA LeaveHonest == ASSUME AnswerInv, ClientLeaves PROVE AnswerInv'
<1>1. /\ servePc # "done" /\ client' = "gone"
      /\ UNCHANGED <<request, servePc, attempts, next, worker, tried, channel, chain, holding, wire,
           requestLog>>
    BY DEF ClientLeaves
<1>2. ServeTyped /\ RunsAreAccounted BY DEF AnswerInv
<1>3. ServeTyped' BY <1>1, <1>2 DEF ServeTyped, Clients
<1>4. ChannelIsInOrder' BY <1>1 DEF ChannelIsInOrder, AnswerInv, Taken, Owed, Ended
<1>5. RunsAreAccounted' BY <1>1, <1>2 DEF RunsAreAccounted
<1>6. StreamSaysTheRun' BY <1>1 DEF StreamSaysTheRun
<1>7. FailoverIsHonest' BY <1>1 DEF FailoverIsHonest, AnswerInv
<1>. QED BY <1>1, <1>3, <1>4, <1>5, <1>6, <1>7, QuietStep

LEMMA FeedTakesOne ==
    ASSUME AnswerInv, FeedDelta
    PROVE  /\ servePc = "driving" /\ channel # << >> /\ channel' = Tail(channel)
           /\ UNCHANGED <<request, attempts, next, worker, tried, requestLog>>
           /\ chain.outcome = "none" /\ holding \in {"request", "stream"}
           /\ channel[1] = Taken + 1 /\ Taken \in Nat /\ Taken' = Taken + 1 /\ channel' \in Seq(Nat)
           /\ chain'.committed /\ chain' \in Chain => ChannelIsInOrder'
<1>1. /\ servePc = "driving" /\ channel # << >> /\ channel[1] # 0 /\ channel' = Tail(channel)
      /\ UNCHANGED <<request, attempts, next, worker, tried, requestLog>>
    BY Zenon DEF FeedDelta
<1>2. ServeTyped /\ RunsAreAccounted /\ ChannelIsInOrder /\ StreamIsOpen BY DEF AnswerInv
<1>3. worker.posted \in Nat /\ channel \in Seq(Nat) BY <1>2 DEF ServeTyped, Run
<1>4. Len(channel) \in Nat /\ Len(channel) > 0 BY <1>1, <1>3
<1>5. channel' \in Seq(Nat) /\ Len(channel') = Len(channel) - 1
      /\ \A i \in 1..Len(channel') : channel'[i] = channel[i + 1]
    BY <1>1, <1>3
<1>6. chain.outcome = "none" /\ holding \in {"request", "stream"}
    BY <1>1, <1>2 DEF RunsAreAccounted, StreamIsOpen, ServeTyped
<1>7. /\ Owed \in 0..worker.posted
      /\ Ended => channel[Len(channel)] = 0
      /\ \A i \in 1..Owed : channel[i] = Taken + i
    BY <1>1, <1>2 DEF ChannelIsInOrder
<1>8. Ended' = Ended BY <1>1 DEF Ended
<1>9. Owed > 0 /\ Owed <= Len(channel)
    <2>1. CASE Ended
        <3>1. Len(channel) # 1 BY <1>1, <1>7, <2>1
        <3>2. Owed = Len(channel) - 1 BY <2>1 DEF Owed
        <3>. QED BY <1>4, <3>1, <3>2
    <2>2. CASE ~Ended BY <1>4, <2>2 DEF Owed
    <2>. QED BY <2>1, <2>2
<1>10. Owed \in Nat /\ Taken \in Nat /\ channel[1] = Taken + 1 BY <1>3, <1>7, <1>9 DEF Taken
<1>11. Owed' = Owed - 1 /\ Taken' = Taken + 1
    <2>1. Owed' = Owed - 1
        <3>1. CASE Ended BY <1>4, <1>5, <1>8, <3>1 DEF Owed
        <3>2. CASE ~Ended BY <1>4, <1>5, <1>8, <3>2 DEF Owed
        <3>. QED BY <3>1, <3>2
    <2>2. worker'.posted = worker.posted BY <1>1
    <2>. QED BY <1>3, <1>10, <2>1, <2>2 DEF Taken
<1>12. \A i \in 1..Owed' : channel'[i] = Taken' + i
    <2>. SUFFICES ASSUME NEW i \in 1..Owed' PROVE channel'[i] = Taken' + i OBVIOUS
    <2>1. i + 1 \in 1..Owed /\ i \in 1..Len(channel') BY <1>5, <1>4, <1>9, <1>10, <1>11
    <2>2. channel'[i] = channel[i + 1] /\ channel[i + 1] = Taken + (i + 1) BY <1>5, <1>7, <2>1
    <2>. QED BY <1>10, <1>11, <2>2
<1>13. Ended' => channel'[Len(channel')] = 0
    <2>. SUFFICES ASSUME Ended PROVE channel'[Len(channel')] = 0 BY <1>8
    <2>1. Owed = Len(channel) - 1 BY DEF Owed
    <2>2. Len(channel') \in 1..Len(channel') /\ Len(channel') + 1 = Len(channel) BY <1>4, <1>5, <1>9, <2>1
    <2>3. channel'[Len(channel')] = channel[Len(channel)] BY <1>5, <2>2
    <2>. QED BY <1>7, <2>3
<1>14. Owed' \in 0..worker'.posted BY <1>1, <1>3, <1>7, <1>9, <1>11
<1>15. chain'.committed => ChannelIsInOrder' BY <1>12, <1>13, <1>14 DEF ChannelIsInOrder
<1>. QED BY <1>1, <1>5, <1>6, <1>10, <1>11, <1>15

LEMMA FeedHonest == ASSUME AnswerInv, FeedDelta PROVE AnswerInv'
<1>1. /\ servePc = "driving" /\ channel' \in Seq(Nat)
      /\ UNCHANGED <<request, attempts, next, worker, tried, requestLog>>
      /\ chain.outcome = "none" /\ holding \in {"request", "stream"}
      /\ channel[1] = Taken + 1 /\ Taken \in Nat /\ Taken' = Taken + 1
      /\ chain'.committed /\ chain' \in Chain => ChannelIsInOrder'
    BY FeedTakesOne
<1>2. ServeTyped /\ RunsAreAccounted /\ StreamIsOpen /\ StreamSaysTheRun BY DEF AnswerInv
<1>3. wire \in Seq(WireFrame) /\ client \in Clients /\ worker \in Run /\ chain \in Chain
    BY <1>2 DEF ServeTyped
<1>4. FailoverIsHonest' BY <1>1 DEF FailoverIsHonest, AnswerInv
<1>5. Live' = Live /\ (NoneDied' = NoneDied) BY <1>1 DEF Live, NoneDied
<1>6. CASE ~Live
    <2>1. /\ UNCHANGED <<servePc, holding, client, wire>>
          /\ chain' = [chain EXCEPT !.committed = TRUE, !.sawDelta = TRUE]
        BY <1>6 DEF FeedDelta
    <2>2. chain' \in Chain /\ chain'.committed /\ chain'.outcome = "none" BY <1>1, <1>3, <2>1 DEF Chain
    <2>3. ServeTyped' BY <1>1, <1>2, <2>1, <2>2 DEF ServeTyped
    <2>4. RunsAreAccounted' BY <1>1, <1>2, <2>1, <2>2 DEF RunsAreAccounted
    <2>5. StreamSaysTheRun' BY <1>5, <1>6 DEF StreamSaysTheRun
    <2>. QED BY <1>1, <1>4, <2>1, <2>2, <2>3, <2>4, <2>5, QuietStep
<1>7. CASE Live
    <2> DEFINE frames == (IF holding = "request" THEN <<Opening>> ELSE << >>) \o <<Delta(channel[1])>>
    <2>1. PICK ok \in BOOLEAN :
              /\ Write(frames, ok)
              /\ holding' = IF holding = "request" /\ Len(wire') = 0 THEN "nothing" ELSE "stream"
              /\ chain' = [chain EXCEPT !.committed = TRUE, !.sawDelta = TRUE,
                                        !.outcome = IF ok THEN "none" ELSE "aborted"]
              /\ servePc' = IF ok THEN "driving" ELSE "joining"
        BY <1>7 DEF FeedDelta
    <2>2. Opening \in WireFrame /\ Delta(channel[1]) \in WireFrame
          /\ Opening.kind = "opening" /\ Delta(channel[1]).kind = "delta"
        BY <1>1, <1>3, FramesAreTyped
    <2> DEFINE first == IF holding = "request" THEN 1 ELSE 0
    <2>3. /\ frames \in Seq(WireFrame) /\ Len(frames) = first + 1
          /\ frames[first + 1] = Delta(channel[1]) /\ (holding = "request" => frames[1] = Opening)
        BY <1>1, <2>2
    <2>. HIDE DEF frames
    <2>4. /\ client' \in Clients
          /\ client' = "there" => client = "there"
          /\ client = "there" => client' = "there" /\ ok
          /\ wire' \in Seq(WireFrame)
          /\ \E k \in 0..Len(frames) :
                /\ ok <=> k = Len(frames)
                /\ Len(wire') = Len(wire) + k
                /\ \A i \in 1..Len(wire) : wire'[i] = wire[i]
                /\ \A i \in 1..k : wire'[Len(wire) + i] = frames[i]
        BY <1>3, <2>1, <2>3, WhatIsWritten
    <2>5. PICK k \in 0..(first + 1) :
              /\ ok <=> k = first + 1
              /\ Len(wire') = Len(wire) + k
              /\ \A i \in 1..Len(wire) : wire'[i] = wire[i]
              /\ \A i \in 1..k : wire'[Len(wire) + i] = frames[i]
        BY <2>3, <2>4
    <2>6. chain' \in Chain /\ chain'.committed /\ chain'.outcome = IF ok THEN "none" ELSE "aborted"
        BY <1>3, <2>1 DEF Chain
    <2>7. ServeTyped' BY <1>1, <1>2, <2>1, <2>4, <2>6 DEF ServeTyped
    <2>8. RunsAreAccounted'
        <3>1. worker.state # "idle" BY <1>1, <1>2 DEF RunsAreAccounted
        <3>. QED BY <1>1, <1>2, <2>1, <2>4, <2>6, <3>1 DEF RunsAreAccounted
    <2>9. Len(wire) \in Nat /\ DOMAIN wire' = 1..Len(wire') /\ DOMAIN wire = 1..Len(wire)
        BY <1>3, <2>4
    <2>10. StreamIsOpen'
        <3>1. CASE holding = "request"
            <4>1. wire = << >> /\ Len(wire) = 0 /\ first = 1 BY <1>1, <1>2, <3>1 DEF StreamIsOpen
            <4>2. Len(wire') = k /\ \A i \in 1..k : wire'[i] = frames[i] BY <2>5, <4>1
            <4>3. k = 0 => holding' = "nothing" /\ wire' = << >> /\ chain'.outcome = "aborted"
                BY <2>1, <2>4, <2>5, <2>6, <3>1, <4>1, <4>2
            <4>4. k # 0 => holding' = "stream" BY <2>1, <4>2
            <4>5. \A i \in 1..k : frames[i].kind = IF i = 1 THEN "opening" ELSE "delta"
                BY <2>2, <2>3, <3>1, <4>1
            <4>. QED BY <1>1, <1>2, <1>5, <1>7, <2>9, <4>2, <4>3, <4>4, <4>5 DEF StreamIsOpen
        <3>2. CASE holding = "stream"
            <4>1. /\ first = 0 /\ holding' = "stream" /\ Len(wire) > 0
                  /\ \A i \in 1..Len(wire) : wire[i].kind = IF i = 1 THEN "opening" ELSE "delta"
                BY <1>1, <1>2, <2>1, <2>9, <3>2 DEF StreamIsOpen
            <4>2. \A i \in 1..Len(wire') : i \in 1..Len(wire) \/ (i = Len(wire) + 1 /\ k = 1)
                BY <2>5, <2>9, <4>1
            <4>3. k = 1 => wire'[Len(wire) + 1].kind = "delta" BY <2>2, <2>3, <2>5, <4>1
            <4>4. \A i \in 1..Len(wire') : wire'[i].kind = IF i = 1 THEN "opening" ELSE "delta"
                BY <2>5, <2>9, <4>1, <4>2, <4>3
            <4>. QED BY <1>1, <1>2, <1>5, <1>7, <2>5, <2>9, <4>1, <4>4 DEF StreamIsOpen
        <3>. QED BY <1>1, <3>1, <3>2
    <2>11. StreamSaysTheRun'
        <3>. SUFFICES ASSUME client' = "there", NoneDied' PROVE servePc' = "driving" /\ Says(Taken)'
            BY DEF StreamSaysTheRun
        <3>1. client = "there" /\ ok /\ servePc' = "driving" /\ k = first + 1 BY <2>1, <2>4, <2>5
        <3>2. Says(Taken) BY <1>1, <1>2, <1>5, <1>7, <3>1 DEF StreamSaysTheRun
        <3>3. wire'[Len(wire) + first + 1] = Delta(channel[1])
            BY <2>3, <2>5, <2>9, <3>1
        <3>4. Delta(channel[1])' = Delta(channel[1])' /\ \A n \in Nat : Delta(n)' = Delta(n) BY <1>1
                DEF Delta
        <3>5. CASE holding = "request"
            <4>1. Taken = 0 /\ Len(wire) = 0 /\ first = 1 BY <1>1, <3>2, <3>5 DEF Says
            <4>2. Len(wire') = 2 /\ wire'[1] = Opening /\ wire'[2] = Delta(1)
                BY <1>1, <2>3, <2>5, <3>1, <3>3, <3>5, <4>1
            <4>3. holding' = "stream" BY <2>1, <4>2
            <4>4. \A i \in DOMAIN wire' : wire'[i] = IF i = 1 THEN Opening ELSE Delta(i - 1)'
                BY <2>9, <3>4, <4>2
            <4>. QED BY <1>1, <3>1, <4>1, <4>2, <4>3, <4>4 DEF Says
        <3>6. CASE holding = "stream"
            <4>1. Taken # 0 /\ Len(wire) = Taken + 1 /\ first = 0 BY <1>1, <3>2, <3>6 DEF Says
            <4>2. Len(wire') = Taken + 2 /\ holding' = "stream" BY <1>1, <2>1, <2>5, <3>1, <3>6, <4>1
            <4>3. \A i \in 1..Len(wire) : wire'[i] = IF i = 1 THEN Opening ELSE Delta(i - 1)
                BY <2>5, <2>9, <3>2 DEF Says
            <4>4. wire'[Taken + 2] = Delta(Taken + 1) BY <1>1, <3>3, <4>1
            <4>5. \A i \in DOMAIN wire' : wire'[i] = IF i = 1 THEN Opening ELSE Delta(i - 1)'
                <5>. SUFFICES ASSUME NEW i \in 1..(Taken + 2)
                              PROVE  wire'[i] = IF i = 1 THEN Opening ELSE Delta(i - 1)'
                    BY <2>9, <4>2
                <5>1. CASE i = Taken + 2 BY <1>1, <3>4, <4>4, <5>1
                <5>2. CASE i # Taken + 2
                    <6>1. i \in 1..Len(wire) /\ (i # 1 => i - 1 \in Nat) BY <1>1, <4>1, <5>2
                    <6>. QED BY <3>4, <4>3, <6>1
                <5>. QED BY <5>1, <5>2
            <4>. QED BY <1>1, <3>1, <4>1, <4>2, <4>5 DEF Says
        <3>. QED BY <1>1, <3>5, <3>6
    <2>12. servePc' # "done" BY <2>1
    <2>13. (AnswerIsOrderly /\ NothingIsLost /\ LogIsHonest)'
        BY <2>7, <2>10, <2>12, OpenAnswersStayHonest
    <2>. QED BY <1>1, <1>4, <2>6, <2>7, <2>8, <2>10, <2>11, <2>13 DEF AnswerInv
<1>. QED BY <1>6, <1>7

-----------------------------------------------------------------------------
(* The last word.                                                           *)
LEMMA LastWord ==
    ASSUME AnswerInv, servePc = "answering", servePc' = "done",
           UNCHANGED <<request, attempts, next, worker, tried, channel, chain>>,
           holding' \in {"request", "stream", "nothing"}, wire' \in Seq(WireFrame),
           client' \in Clients, client' = "there" => client = "there",
           NEW status \in {"200", "499", "error"}, LogStatus(status),
           AnswerIsOrderly', NothingIsLost',
           status = "499" => client' # "there",
           client' = "there" =>
             LET last == wire'[Len(wire')].kind IN
             IF status = "200" THEN last \in {"end", "body"}
               \/ (last = "error" /\ request.surface = "responses")
             ELSE last \in {"error", "refusal", "bare500"}
    PROVE  AnswerInv'
<1>1. ServeTyped /\ RunsAreAccounted BY DEF AnswerInv
<1>2. requestLog' = <<status>> BY DEF LogStatus, AnswerInv, StreamIsOpen
<1>3. ServeTyped' BY <1>1, <1>2 DEF ServeTyped
<1>4. ChannelIsInOrder' /\ StreamIsOpen' /\ StreamSaysTheRun'
    BY DEF ChannelIsInOrder, StreamIsOpen, StreamSaysTheRun
<1>5. RunsAreAccounted' BY <1>1 DEF RunsAreAccounted
<1>6. FailoverIsHonest' BY DEF FailoverIsHonest, AnswerInv
<1>7. LogIsHonest'
    <2>1. Len(requestLog') = 1 /\ requestLog'[1] = status /\ requestLog' # << >> BY <1>2
    <2>2. requestLog' = <<"200">> <=> status = "200" BY <1>2, LogsDiffer
    <2>3. requestLog' = <<"499">> <=> status = "499" BY <1>2, LogsDiffer
    <2>. QED BY <2>1, <2>2, <2>3 DEF LogIsHonest
<1>. QED BY <1>3, <1>4, <1>5, <1>6, <1>7 DEF AnswerInv

(* What the surface holds and what the client has when the chain is over.   *)
LEMMA BeforeTheLastWord ==
    ASSUME AnswerInv, servePc = "answering"
    PROVE  /\ wire \in Seq(WireFrame) /\ client \in Clients /\ worker \in Run /\ worker.posted \in Nat
           /\ chain.outcome # "none"
           /\ holding = "request" => wire = << >>
           /\ holding = "nothing" => chain.outcome = "aborted"
           /\ holding = "stream" =>
                /\ Live /\ Len(wire) > 0
                /\ \A i \in 1..Len(wire) : wire[i].kind = IF i = 1 THEN "opening" ELSE "delta"
           /\ holding \in {"request", "stream", "nothing"}
           /\ chain.outcome = "aborted" => client # "there"
<1>1. ServeTyped /\ RunsAreAccounted /\ StreamIsOpen BY DEF AnswerInv
<1>2. wire \in Seq(WireFrame) /\ DOMAIN wire = 1..Len(wire) BY <1>1 DEF ServeTyped
<1>3. worker \in Run /\ worker.posted \in Nat /\ client \in Clients BY <1>1 DEF ServeTyped, Run
<1>. QED BY <1>1, <1>2, <1>3 DEF ServeTyped, RunsAreAccounted, StreamIsOpen

(* A stream gets one more frame, its last.                                   *)
LEMMA LastFrame ==
    ASSUME AnswerInv, servePc = "answering", servePc' = "done", holding = "stream",
           NEW frame \in WireFrame, frame.kind \in {"end", "error"},
           NEW ok \in BOOLEAN, Write(<<frame>>, ok)
    PROVE  /\ wire' \in Seq(WireFrame) /\ client' \in Clients
           /\ client' = "there" => client = "there"
           /\ AnswerIsOrderly'
           /\ client' = "there" => /\ Len(wire') = Len(wire) + 1 /\ wire'[Len(wire')] = frame
                                   /\ \A i \in 1..Len(wire) : wire'[i] = wire[i]
<1>1. /\ wire \in Seq(WireFrame) /\ client \in Clients /\ Len(wire) > 0 /\ Len(wire) \in Nat
      /\ \A i \in 1..Len(wire) : wire[i].kind = IF i = 1 THEN "opening" ELSE "delta"
    BY BeforeTheLastWord
<1>2. <<frame>> \in Seq(WireFrame) /\ Len(<<frame>>) = 1 /\ <<frame>>[1] = frame OBVIOUS
<1> DEFINE frames == <<frame>>
<1>3. frames \in Seq(WireFrame) /\ Len(frames) = 1 /\ frames[1] = frame /\ Write(frames, ok) BY <1>2
<1>. HIDE DEF frames
<1>4. /\ client' \in Clients
      /\ client' = "there" => client = "there"
      /\ client = "there" => client' = "there" /\ ok
      /\ wire' \in Seq(WireFrame)
      /\ \E k \in 0..Len(frames) :
            /\ ok <=> k = Len(frames)
            /\ Len(wire') = Len(wire) + k
            /\ \A i \in 1..Len(wire) : wire'[i] = wire[i]
            /\ \A i \in 1..k : wire'[Len(wire) + i] = frames[i]
    BY <1>1, <1>3, WhatIsWritten
<1>5. PICK k \in 0..1 :
          /\ ok <=> k = 1
          /\ Len(wire') = Len(wire) + k
          /\ \A i \in 1..Len(wire) : wire'[i] = wire[i]
          /\ \A i \in 1..k : wire'[Len(wire) + i] = frame
    BY <1>3, <1>4
<1>6. client' = "there" => /\ Len(wire') = Len(wire) + 1 /\ wire'[Len(wire')] = frame
                           /\ \A i \in 1..Len(wire) : wire'[i] = wire[i]
    BY <1>1, <1>4, <1>5
<1>7. \A i \in DOMAIN wire' : i \in 1..Len(wire) \/ (i = Len(wire') /\ i > 1 /\ wire'[i] = frame)
    BY <1>1, <1>4, <1>5
<1>8. wire'[1].kind = "opening" /\ \A i \in 1..Len(wire) :
        wire'[i].kind = IF i = 1 THEN "opening" ELSE "delta"
    BY <1>1, <1>5
<1>9. AnswerIsOrderly' BY <1>1, <1>7, <1>8 DEF AnswerIsOrderly
<1>. QED BY <1>4, <1>6, <1>9

(* The wire of a stream that said it all.                                    *)
LEMMA WholeStream ==
    ASSUME NEW m \in Nat, NEW said \in Seq(WireFrame), NEW of \in Nat,
           NEW opening \in WireFrame, NEW last \in WireFrame,
           Len(said) = m + 2, said[1] = opening, said[m + 2] = last,
           \A i \in 1..(m + 1) : i # 1 => said[i] = Frame("delta", of, i - 1)
    PROVE  said = <<opening>> \o [n \in 1..m |-> Frame("delta", of, n)] \o <<last>>
<1> DEFINE deltas == [n \in 1..m |-> Frame("delta", of, n)]
           most == <<opening>> \o deltas
           whole == most \o <<last>>
<1>1. deltas \in Seq(WireFrame) /\ Len(deltas) = m /\ \A n \in 1..m : deltas[n] = Frame("delta", of, n)
    <2>1. \A n \in 1..m : Frame("delta", of, n) \in WireFrame BY DEF Frame, WireFrame
    <2>2. deltas \in [1..m -> WireFrame] BY <2>1
    <2>. QED BY <2>2
<1>. HIDE DEF deltas
<1>2. /\ most \in Seq(WireFrame) /\ Len(most) = m + 1 /\ most[1] = opening
      /\ \A n \in 1..m : most[n + 1] = deltas[n]
    BY <1>1
<1>. HIDE DEF most
<1>3. /\ whole \in Seq(WireFrame) /\ Len(whole) = m + 2 /\ whole[m + 2] = last
      /\ \A i \in 1..(m + 1) : whole[i] = most[i]
    BY <1>2
<1>. HIDE DEF whole
<1>4. \A i \in 1..(m + 2) : said[i] = whole[i]
    <2>. SUFFICES ASSUME NEW i \in 1..(m + 2) PROVE said[i] = whole[i] OBVIOUS
    <2>1. CASE i = m + 2 BY <1>3, <2>1
    <2>2. CASE i = 1 BY <1>2, <1>3, <2>2
    <2>3. CASE i # 1 /\ i # m + 2
        <3>1. i - 1 \in 1..m /\ i \in 1..(m + 1) BY <2>3
        <3>2. most[(i - 1) + 1] = deltas[i - 1] BY <1>2, <3>1
        <3>. QED BY <1>1, <1>3, <2>3, <3>1, <3>2
    <2>. QED BY <2>1, <2>2, <2>3
<1>5. said \in [1..(m + 2) -> WireFrame] /\ whole \in [1..(m + 2) -> WireFrame] BY <1>3
<1>6. said = whole BY <1>4, <1>5
<1>. QED BY <1>6 DEF whole, most, deltas

LEMMA ThreeFrames ==
    ASSUME NEW said \in Seq(WireFrame), NEW a, NEW b, NEW c,
           Len(said) = 3, said[1] = a, said[2] = b, said[3] = c
    PROVE  said = <<a, b, c>>
<1>1. DOMAIN said = 1..3 /\ said = [i \in 1..3 |-> said[i]] OBVIOUS
<1>2. DOMAIN <<a, b, c>> = 1..3 OBVIOUS
<1>3. \A i \in 1..3 : said[i] = <<a, b, c>>[i] OBVIOUS
<1>. QED BY <1>1, <1>2, <1>3

LEMMA SuccessHonest == ASSUME AnswerInv, AnswerSuccess PROVE AnswerInv'
<1>1. /\ servePc = "answering" /\ chain.outcome = "succeeded" /\ servePc' = "done"
      /\ UNCHANGED <<request, attempts, next, worker, tried, channel, chain>>
    BY DEF AnswerSuccess
<1>2. /\ wire \in Seq(WireFrame) /\ client \in Clients /\ worker \in Run /\ worker.posted \in Nat
      /\ holding = "request" => wire = << >>
      /\ holding \in {"request", "stream", "nothing"}
      /\ holding = "stream" => Live
    BY <1>1, BeforeTheLastWord
<1>3. worker.state = "succeeded" BY <1>1 DEF AnswerInv, RunsAreAccounted
<1>4. /\ Opening \in WireFrame /\ Text \in WireFrame /\ End \in WireFrame
      /\ Opening.kind = "opening" /\ Text.kind = "text" /\ End.kind = "end"
      /\ UNCHANGED <<Opening, Text, End>>
    BY <1>1, <1>2, FramesAreTyped DEF Opening, Text, End
<1>5. CASE holding = "stream" /\ (\E ok \in BOOLEAN : Write(<<End>>, ok)) /\ LogStatus("200")
        /\ UNCHANGED holding
    <2>1. PICK ok \in BOOLEAN : Write(<<End>>, ok) BY <1>5
    <2>2. /\ wire' \in Seq(WireFrame) /\ client' \in Clients
          /\ client' = "there" => client = "there"
          /\ AnswerIsOrderly'
          /\ client' = "there" => /\ Len(wire') = Len(wire) + 1 /\ wire'[Len(wire')] = End
                                  /\ \A i \in 1..Len(wire) : wire'[i] = wire[i]
        BY <1>1, <1>4, <1>5, <2>1, LastFrame
    <2>3. NothingIsLost'
        <3>. SUFFICES ASSUME client' = "there", NoneDied
                      PROVE  /\ worker.posted > 0
                             /\ wire' = <<Opening>> \o [n \in 1..worker.posted |-> Delta(n)] \o <<End>>
            BY <1>1, <1>4 DEF NothingIsLost, NoneDied, Delta, Opening, End
        <3>1. Says(worker.posted) BY <1>1, <1>2, <1>3, <1>5, <2>2 DEF StreamSaysTheRun, AnswerInv
        <3>2. /\ worker.posted # 0 /\ Len(wire) = worker.posted + 1
              /\ \A i \in 1..Len(wire) : wire[i] = IF i = 1 THEN Opening ELSE Delta(i - 1)
            BY <1>2, <1>5, <3>1 DEF Says
        <3>3. worker.of \in Nat BY <1>2 DEF Run
        <3>4. Len(wire') = worker.posted + 2 /\ wire'[1] = Opening /\ wire'[worker.posted + 2] = End
            BY <1>2, <2>2, <3>2
        <3>5. \A i \in 1..(worker.posted + 1) : i # 1 => wire'[i] = Delta(i - 1)
            BY <1>2, <2>2, <3>2
        <3>6. \A i \in 1..(worker.posted + 1) : i # 1 => wire'[i] = Frame("delta", worker.of, i - 1)
            BY <3>5 DEF Delta
        <3>7. wire' = <<Opening>> \o [n \in 1..worker.posted |-> Frame("delta", worker.of, n)] \o <<End>>
            <4>1. /\ worker.posted \in Nat /\ wire' \in Seq(WireFrame)
                  /\ Opening \in WireFrame /\ End \in WireFrame
                BY <1>2, <1>4, <2>2
            <4>2. \A m \in Nat, said \in Seq(WireFrame), of \in Nat, opening \in WireFrame,
                    last \in WireFrame :
                    /\ Len(said) = m + 2 /\ said[1] = opening /\ said[m + 2] = last
                    /\ \A i \in 1..(m + 1) : i # 1 => said[i] = Frame("delta", of, i - 1)
                    => said = <<opening>> \o [n \in 1..m |-> Frame("delta", of, n)] \o <<last>>
                BY WholeStream
            <4>. QED BY <3>3, <3>4, <3>6, <4>1, <4>2, Zenon
        <3>8. wire' = <<Opening>> \o [n \in 1..worker.posted |-> Delta(n)] \o <<End>> BY <3>7 DEF Delta
        <3>9. worker.posted > 0 BY <1>2, <3>2
        <3>. QED BY <3>8, <3>9
    <2>. QED BY <1>1, <1>2, <1>4, <1>5, <2>2, <2>3, LastWord
<1>6. CASE /\ holding = "request" /\ request.stream
           /\ \E ok \in BOOLEAN :
                /\ Write(<<Opening, Text, End>>, ok)
                /\ LogStatus(IF Len(wire') = Len(wire) /\ request.surface \in {"messages", "responses"}
                             THEN "499" ELSE "200")
           /\ holding' = IF Len(wire') = Len(wire) THEN "nothing" ELSE "stream"
    <2> DEFINE frames == <<Opening, Text, End>>
    <2>1. PICK ok \in BOOLEAN :
              /\ Write(frames, ok)
              /\ LogStatus(IF Len(wire') = Len(wire) /\ request.surface \in {"messages", "responses"}
                           THEN "499" ELSE "200")
        BY <1>6
    <2>2. /\ frames \in Seq(WireFrame) /\ Len(frames) = 3
          /\ frames[1] = Opening /\ frames[2] = Text /\ frames[3] = End
        BY <1>4
    <2>. HIDE DEF frames
    <2>3. /\ client' \in Clients
          /\ client' = "there" => client = "there"
          /\ client = "there" => client' = "there" /\ ok
          /\ wire' \in Seq(WireFrame)
          /\ \E k \in 0..Len(frames) :
                /\ ok <=> k = Len(frames)
                /\ Len(wire') = Len(wire) + k
                /\ \A i \in 1..Len(wire) : wire'[i] = wire[i]
                /\ \A i \in 1..k : wire'[Len(wire) + i] = frames[i]
        BY <1>2, <2>1, <2>2, WhatIsWritten
    <2>4. wire = << >> /\ Len(wire) = 0 BY <1>2, <1>6
    <2>5. PICK k \in 0..3 :
              /\ ok <=> k = 3
              /\ Len(wire') = k
              /\ \A i \in 1..k : wire'[i] = frames[i]
        BY <2>2, <2>3, <2>4
    <2>6. AnswerIsOrderly'
        <3>1. \A i \in DOMAIN wire' : \/ i = 1 /\ wire'[i] = Opening
                                      \/ i = 2 /\ wire'[i] = Text /\ wire'[1] = Opening
                                      \/ i = 3 /\ wire'[i] = End /\ wire'[1] = Opening /\ i = Len(wire')
            BY <2>2, <2>3, <2>5
        <3>. QED BY <1>1, <1>4, <3>1 DEF AnswerIsOrderly
    <2>7. client' = "there" => wire' = <<Opening, Text, End>> /\ k = 3
        <3>. SUFFICES ASSUME client' = "there" PROVE wire' = <<Opening, Text, End>> /\ k = 3 OBVIOUS
        <3>1. k = 3 BY <2>3, <2>5
        <3>2. Len(wire') = 3 /\ wire'[1] = Opening /\ wire'[2] = Text
                /\ wire'[3] = End BY <2>2, <2>5, <3>1
        <3>3. wire' \in Seq(WireFrame) BY <2>3
        <3>. QED BY <3>1, <3>2, <3>3, ThreeFrames, Zenon
    <2>8. NothingIsLost' BY <1>4, <2>7 DEF NothingIsLost
    <2>9. client' = "there" => wire'[Len(wire')].kind = "end" /\ Len(wire') # Len(wire)
        BY <1>4, <2>2, <2>4, <2>5, <2>7
    <2>10. holding' \in {"request", "stream", "nothing"} BY <1>6
    <2>. QED BY <1>1, <2>1, <2>3, <2>6, <2>8, <2>9, <2>10, LastWord
<1>7. CASE /\ holding = "request" /\ ~request.stream /\ Respond("body") /\ LogStatus("200")
        /\ UNCHANGED client
    <2>1. holding' = "nothing" /\ wire' = <<Frame("body", worker.of, 0)>>
        BY <1>2, <1>7 DEF Respond
    <2>2. Frame("body", worker.of, 0) \in WireFrame /\ Frame("body", worker.of, 0).kind = "body"
        BY <1>2 DEF Run, Frame, WireFrame
    <2>3. wire' \in Seq(WireFrame) /\ Len(wire') = 1 /\ wire'[1].kind = "body" BY <2>1, <2>2
    <2>4. AnswerIsOrderly' BY <1>1, <2>1, <2>3 DEF AnswerIsOrderly
    <2>5. NothingIsLost' BY <1>1, <2>1 DEF NothingIsLost, Frame
    <2>. QED BY <1>1, <1>2, <1>7, <2>1, <2>3, <2>4, <2>5, LastWord
<1>. QED BY <1>5, <1>6, <1>7 DEF AnswerSuccess

LEMMA FailureHonest == ASSUME AnswerInv, AnswerFailure PROVE AnswerInv'
<1>1. /\ servePc = "answering" /\ chain.outcome = "failed" /\ servePc' = "done"
      /\ UNCHANGED <<request, attempts, next, worker, tried, channel, chain>>
    BY DEF AnswerFailure
<1>2. /\ wire \in Seq(WireFrame) /\ client \in Clients /\ worker \in Run
      /\ holding = "request" => wire = << >>
      /\ holding \in {"request", "stream", "nothing"}
    BY <1>1, BeforeTheLastWord
<1>3. NothingIsLost' BY <1>1 DEF NothingIsLost
<1>4. CASE /\ holding = "stream" /\ (\E ok \in BOOLEAN : Write(<<Error>>, ok))
           /\ LogStatus(IF request.surface = "responses" THEN "200" ELSE "error")
           /\ UNCHANGED holding
    <2>1. PICK ok \in BOOLEAN : Write(<<Error>>, ok) BY <1>4
    <2>2. Error \in WireFrame /\ Error.kind = "error" BY <1>2, FramesAreTyped
    <2>3. /\ wire' \in Seq(WireFrame) /\ client' \in Clients
          /\ client' = "there" => client = "there"
          /\ AnswerIsOrderly'
          /\ client' = "there" => wire'[Len(wire')] = Error
        BY <1>1, <1>4, <2>1, <2>2, LastFrame
    <2>. QED BY <1>1, <1>2, <1>3, <1>4, <2>2, <2>3, LastWord
<1>5. CASE /\ LogStatus("error") /\ UNCHANGED client
           /\ Respond(IF request.surface = "completions" /\ chain.committed THEN "bare500" ELSE "refusal")
    <2>1. PICK kind \in {"bare500", "refusal"} : Respond(kind) BY <1>5
    <2>2. holding' = "nothing" /\ wire' = <<Frame(kind, worker.of, 0)>>
        BY <1>2, <2>1 DEF Respond
    <2>3. Frame(kind, worker.of, 0) \in WireFrame /\ Frame(kind, worker.of, 0).kind = kind
        BY <1>2 DEF Run, Frame, WireFrame
    <2>4. wire' \in Seq(WireFrame) /\ Len(wire') = 1 /\ wire'[1].kind = kind BY <2>2, <2>3
    <2>5. AnswerIsOrderly' BY <1>1, <2>2, <2>4 DEF AnswerIsOrderly
    <2>. QED BY <1>1, <1>2, <1>3, <1>5, <2>2, <2>4, <2>5, LastWord
<1>. QED BY <1>4, <1>5 DEF AnswerFailure

LEMMA AbortHonest == ASSUME AnswerInv, AnswerAborted PROVE AnswerInv'
<1>1. /\ servePc = "answering" /\ chain.outcome = "aborted" /\ servePc' = "done" /\ LogStatus("499")
      /\ UNCHANGED <<request, attempts, next, worker, tried, channel, chain, holding, client, wire>>
    BY DEF AnswerAborted
<1>2. /\ wire \in Seq(WireFrame) /\ client \in Clients /\ client # "there"
      /\ holding \in {"request", "stream", "nothing"}
    BY <1>1, BeforeTheLastWord
<1>3. NothingIsLost' BY <1>1 DEF NothingIsLost
<1>4. AnswerIsOrderly' BY <1>1 DEF AnswerInv, AnswerIsOrderly
<1>. QED BY <1>1, <1>2, <1>3, <1>4, LastWord

LEMMA AnswerStays == AnswerInv /\ [ServeNext]_serveVars => AnswerInv'
<1>. SUFFICES ASSUME AnswerInv, [ServeNext]_serveVars PROVE AnswerInv' OBVIOUS
<1>1. CASE ResolveRequest BY <1>1, ResolveHonest
<1>2. CASE SkipAttempt BY <1>2, SkipHonest
<1>3. CASE StartAttempt BY <1>3, StartHonest
<1>4. CASE ChainExhausted BY <1>4, ExhaustedHonest
<1>5. CASE FeedDelta BY <1>5, FeedHonest
<1>6. CASE TakeResult BY <1>6, ResultHonest
<1>7. CASE JoinWorker BY <1>7, JoinHonest
<1>8. CASE AnswerSuccess BY <1>8, SuccessHonest
<1>9. CASE AnswerFailure BY <1>9, FailureHonest
<1>10. CASE AnswerAborted BY <1>10, AbortHonest
<1>11. CASE PostDelta BY <1>11, PostHonest
<1>12. CASE RunEnds BY <1>12, EndHonest
<1>13. CASE Keepalive BY <1>13, KeepaliveHonest
<1>14. CASE ClientLeaves BY <1>14, LeaveHonest
<1>15. CASE UNCHANGED serveVars
    <2>1. UNCHANGED <<request, servePc, attempts, next, worker, tried, channel, chain, holding,
            client, wire, requestLog>>
        BY <1>15 DEF serveVars
    <2>2. ServeTyped' /\ RunsAreAccounted' BY <2>1 DEF AnswerInv, ServeTyped, RunsAreAccounted
    <2>3. UNCHANGED <<Taken, Owed, Ended, Live, NoneDied>> /\ \A n : Delta(n)' = Delta(n)
        BY <2>1 DEF Taken, Owed, Ended, Live, NoneDied, Delta
    <2>4. ChannelIsInOrder' BY <2>1, <2>3 DEF AnswerInv, ChannelIsInOrder
    <2>5. StreamIsOpen' BY <2>1, <2>3 DEF AnswerInv, StreamIsOpen
    <2>6. StreamSaysTheRun' BY <2>1, <2>3 DEF AnswerInv, StreamSaysTheRun, Says, Opening
    <2>7. AnswerIsOrderly' /\ FailoverIsHonest' /\ LogIsHonest'
        BY <2>1 DEF AnswerInv, AnswerIsOrderly, FailoverIsHonest, LogIsHonest
    <2>8. NothingIsLost' BY <2>1 DEF AnswerInv, NothingIsLost, Opening, Text, End, Delta
    <2>. QED BY <2>2, <2>4, <2>5, <2>6, <2>7, <2>8 DEF AnswerInv
<1>. QED BY <1>1, <1>2, <1>3, <1>4, <1>5, <1>6, <1>7, <1>8, <1>9, <1>10, <1>11, <1>12, <1>13, <1>14, <1>15
         DEF ServeNext, GatewayStep

LEMMA AnswersAreHonest == AnswerInv => AnswerIsHonest
BY DEF AnswerInv, AnswerIsHonest, NoStrayRun, RunsAreAccounted

(* The answer the gateway serves is honest, whatever is asked, whatever the  *)
(* table resolves it to, however many deltas a run posts and whenever the    *)
(* client leaves: one answer goes out in order, another provider is asked    *)
(* only where nothing was delivered, a client that stayed is told all that   *)
(* the run said, the request log agrees with the wire, and no run outlives   *)
(* its request.                                                             *)
THEOREM OneAnswerIsHonest == ModelSpec => [](part = "serving" => AnswerIsHonest)
<1>1. ModelInit => (part = "serving" => AnswerInv) BY AnswerStarts DEF ModelInit
<1>2. (part = "serving" => AnswerInv) /\ [ModelNext]_modelVars => (part = "serving" => AnswerInv)'
    BY AnswerStays DEF ModelNext, modelVars
<1>3. (part = "serving" => AnswerInv) => (part = "serving" => AnswerIsHonest) BY AnswersAreHonest
<1>. QED BY <1>1, <1>2, <1>3, PTL DEF ModelSpec
=============================================================================
