-------------------------- MODULE SetupTransaction --------------------------
(***************************************************************************)
(* `aifuel mcp setup` and `setup --remove`: processes that write one entry *)
(* into the configuration of an MCP host, with a lock, a private backup, a *)
(* recovery journal and an ownership receipt on disk, beside a user (or    *)
(* the host itself) who saves that configuration at any time and knows     *)
(* nothing of the lock.  A process may die, or fail to write, before each  *)
(* of its steps; the kernel then frees the lock.  A configuration is its   *)
(* entry for AI Fuel and the rest of the text; digests are taken for the   *)
(* contents they stand for, and file modes are left out.                   *)
(***************************************************************************)
EXTENDS Naturals

CONSTANTS Setups,       \* the processes
          SetupOp,      \* of each: the entry its executable expects, and whether it removes
          Texts,        \* the rest of the file
          Blank,        \* ... of a file AI Fuel created
          ForeignEntry, \* an entry no executable of AI Fuel would write
          NoEntry,
          MaxSaves      \* bound on the saves of the user

ASSUME SetupAssumption ==
    /\ MaxSaves \in Nat /\ NoEntry # ForeignEntry
    /\ \A p \in Setups : SetupOp[p].remove \in BOOLEAN /\ SetupOp[p].exe \notin {NoEntry, ForeignEntry}

VARIABLES config,       \* the host's configuration file
          backup,       \* the private copy
          journal,      \* PendingTransaction
          receipt,      \* Receipt.entry
          setup,        \* the processes
          saved,        \* history: what the user last saved, and how often
          late,         \* history: that save came after the last check before a rename
          wrote         \* history: AI Fuel put the present entry there

setupVars == <<config, backup, journal, receipt, setup, saved, late, wrote>>

Entries == {SetupOp[p].exe : p \in Setups} \cup {ForeignEntry}
File == [entry : Entries \cup {NoEntry}, text : Texts \cup {Blank}]
Missing == [entry |-> NoEntry]
NoJournal == [entry |-> NoEntry]
Journal == [base : File \cup {Missing}, target : File,
            previous : Entries \cup {NoEntry}, entry : Entries]

InLock == {"recover", "write receipt", "clear journal", "plan", "write backup", "write journal",
           "check", "rename", "clear receipt", "verify"}
SetupOver == {"done", "refused", "dead"}
(* finishing: finalize_pending, not the recovery an operation begins with;  *)
(* base and target: the snapshot and the plan.                              *)
Process == [at : {"idle"} \cup InLock \cup SetupOver, finishing : BOOLEAN,
            base : File \cup {Missing}, target : File \cup {Missing}]

SetupTypeOK ==
    /\ config \in File \cup {Missing} /\ backup \in File \cup {Missing}
    /\ journal \in Journal \cup {NoJournal}
    /\ receipt \in Entries \cup {NoEntry}
    /\ setup \in [Setups -> Process]
    /\ saved \in [file : File \cup {Missing}, count : 0 .. MaxSaves]
    /\ late \in BOOLEAN /\ wrote \in BOOLEAN

SetupInit ==
    /\ config = Missing /\ backup = Missing /\ journal = NoJournal /\ receipt = NoEntry
    /\ setup = [p \in Setups |-> [at |-> "idle", finishing |-> FALSE,
                                  base |-> Missing, target |-> Missing]]
    /\ saved = [file |-> Missing, count |-> 0] /\ late = FALSE /\ wrote = FALSE

-----------------------------------------------------------------------------
(* The registration adapter and the files.                                  *)

TextOf(f) == IF f = Missing THEN Blank ELSE f.text
write_entry(f, e) == [entry |-> e, text |-> TextOf(f)]
remove_entry(f) == [f EXCEPT !.entry = NoEntry]

(* Mutant: the file is not compared with the snapshot again. *)
UnchangedAnyway(f) == TRUE
ensure_snapshot_matches(f) == config = f

SetupAt(p, at) == setup[p].at = at
SetupMoves(p, at) == setup' = [setup EXCEPT ![p].at = at]
UserIsQuiet == UNCHANGED <<saved, late>>

-----------------------------------------------------------------------------
(* The steps of one process.                                                *)

acquire_lock(p) ==
    /\ SetupAt(p, "idle") /\ \A q \in Setups : setup[q].at \notin InLock
    /\ SetupMoves(p, "recover")
    /\ UNCHANGED <<config, backup, journal, receipt, wrote>> /\ UserIsQuiet

(* What recovery does about a journal: the configuration is what the        *)
(* transaction was to write, what it was before, or something of the        *)
(* user's, which must not be taken for ours.                                *)
(* Mutant: a file that is not the target needs no receipt. *)
VerdictTrusting ==
    IF config = journal.target THEN "write receipt" ELSE "clear journal"

Verdict ==
    IF journal.base # Missing /\ backup # journal.base THEN "refused"
    ELSE IF config = journal.target
    THEN IF receipt \in {NoEntry, journal.entry, journal.previous} THEN "write receipt" ELSE "refused"
    ELSE IF config = journal.base \/ config.entry \in {NoEntry, receipt}
    THEN "clear journal" ELSE "refused"

reconcile_pending(p) ==
    /\ SetupAt(p, "recover")
    /\ IF journal # NoJournal THEN SetupMoves(p, Verdict)
       ELSE SetupMoves(p, IF setup[p].finishing THEN "verify" ELSE "plan")
    /\ UNCHANGED <<config, backup, journal, receipt, wrote>> /\ UserIsQuiet

write_receipt(p) ==
    /\ SetupAt(p, "write receipt")
    /\ receipt' = journal.entry
    /\ SetupMoves(p, "clear journal")
    /\ UNCHANGED <<config, backup, journal, wrote>> /\ UserIsQuiet

clear_pending(p) ==
    /\ SetupAt(p, "clear journal")
    /\ journal' = NoJournal
    /\ SetupMoves(p, IF setup[p].finishing THEN "verify" ELSE "plan")
    /\ UNCHANGED <<config, backup, receipt, wrote>> /\ UserIsQuiet

finalize_pending(p) ==
    /\ SetupAt(p, "verify")
    /\ SetupMoves(p, IF receipt = SetupOp[p].exe THEN "done" ELSE "refused")
    /\ UNCHANGED <<config, backup, journal, receipt, wrote>> /\ UserIsQuiet

(* The outcomes of plan that change nothing, and the stale receipt.         *)
plan_to_stop(p) ==
    LET op == SetupOp[p]
    IN IF op.remove
       THEN IF config.entry = NoEntry THEN IF receipt = NoEntry THEN "done" ELSE "clear receipt"
            ELSE IF receipt = config.entry THEN "write backup" ELSE "refused"
       ELSE IF config.entry = op.exe THEN "done"
            ELSE IF config.entry \in {NoEntry, receipt} THEN "write backup" ELSE "refused"

plan(p) ==
    /\ SetupAt(p, "plan")
    /\ setup' = [setup EXCEPT ![p] =
           [at |-> plan_to_stop(p), finishing |-> FALSE, base |-> config,
            target |-> IF plan_to_stop(p) # "write backup" THEN Missing
                       ELSE IF SetupOp[p].remove THEN remove_entry(config)
                       ELSE write_entry(config, SetupOp[p].exe)]]
    /\ UNCHANGED <<config, backup, journal, receipt, wrote>> /\ UserIsQuiet

write_backup(p) ==
    /\ SetupAt(p, "write backup")
    /\ backup' = IF setup[p].base = Missing THEN backup ELSE setup[p].base
    /\ SetupMoves(p, IF SetupOp[p].remove THEN "check" ELSE "write journal")
    /\ UNCHANGED <<config, journal, receipt, wrote>> /\ UserIsQuiet

write_pending(p) ==
    /\ SetupAt(p, "write journal")
    /\ journal' = [base |-> setup[p].base, target |-> setup[p].target,
                   previous |-> receipt, entry |-> SetupOp[p].exe]
    /\ SetupMoves(p, "check")
    /\ UNCHANGED <<config, backup, receipt, wrote>> /\ UserIsQuiet

check_snapshot(p) ==
    /\ SetupAt(p, "check")
    /\ SetupMoves(p, IF ensure_snapshot_matches(setup[p].base) THEN "rename" ELSE "refused")
    /\ UNCHANGED <<config, backup, journal, receipt, wrote>> /\ UserIsQuiet

replace_config(p) ==
    /\ SetupAt(p, "rename")
    /\ config' = setup[p].target
    /\ wrote' = ~SetupOp[p].remove
    /\ setup' = [setup EXCEPT ![p].at = IF SetupOp[p].remove THEN "clear receipt" ELSE "recover",
                              ![p].finishing = ~SetupOp[p].remove]
    /\ UNCHANGED <<backup, journal, receipt>> /\ UserIsQuiet

clear_receipt(p) ==
    /\ SetupAt(p, "clear receipt")
    /\ receipt' = NoEntry
    /\ SetupMoves(p, "done")
    /\ UNCHANGED <<config, backup, journal, wrote>> /\ UserIsQuiet

(* The process dies, or a write fails and the operation ends.               *)
SetupStops(p) ==
    /\ setup[p].at \in InLock
    /\ SetupMoves(p, "dead")
    /\ UNCHANGED <<config, backup, journal, receipt, wrote>> /\ UserIsQuiet

SetupStep(p) ==
    \/ acquire_lock(p) \/ reconcile_pending(p) \/ write_receipt(p) \/ clear_pending(p)
    \/ finalize_pending(p) \/ plan(p) \/ write_backup(p) \/ write_pending(p)
    \/ check_snapshot(p) \/ replace_config(p) \/ clear_receipt(p)

(* The user or the host saves the file, or the user deletes it.             *)
UserSaves(f) ==
    /\ saved.count < MaxSaves /\ f # config
    /\ config' = f
    /\ saved' = [file |-> f, count |-> saved.count + 1]
    /\ late' = \E p \in Setups : SetupAt(p, "rename")
    /\ wrote' = (wrote /\ f.entry = config.entry)
    /\ UNCHANGED <<backup, journal, receipt, setup>>

SetupNext ==
    \/ \E p \in Setups : SetupStep(p) \/ SetupStops(p)
    \/ \E f \in File \cup {Missing} : UserSaves(f)

-----------------------------------------------------------------------------
(* Properties.                                                              *)

(* An entry AI Fuel wrote is one it knows to be its own, wherever a process *)
(* died and whatever the user saved around it: the receipt says so, or the  *)
(* journal from which the next operation recovers.  While a journal stands, *)
(* the backup its errors point the user to is the file as it was.           *)
RegistrationIsOwned ==
    /\ SetupTypeOK
    /\ wrote => config.entry \in {receipt, journal.entry}
    /\ journal # NoJournal /\ journal.base # Missing => backup = journal.base

(* What the user saved last is still there, next to AI Fuel's entry, and an *)
(* entry the user wrote in AI Fuel's place is neither replaced nor removed: *)
(* only a save between the last check and the rename can be lost.           *)
SavesAreKept ==
    ~late => /\ TextOf(config) = TextOf(saved.file)
             /\ saved.file.entry = ForeignEntry => config.entry = ForeignEntry

(* Statement of the docs that does not hold: recovery reconciles receipt,   *)
(* backup and configuration.  A save between the rename and the recovery    *)
(* that keeps the entry leaves a journal that every later operation meets   *)
(* with a conflict.                                                         *)
RecoverySucceeds ==
    \A p \in Setups : SetupAt(p, "recover") /\ journal # NoJournal => Verdict # "refused"
=============================================================================
