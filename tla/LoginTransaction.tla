--------------------------- MODULE LoginTransaction ---------------------------
(* The crash-safe login of u2dm-client. Signing in replaces three things that *)
(* live in different places: the account's store directory, the store's key   *)
(* in the keyring and the saved session in the keyring. A journal file makes  *)
(* the replacement one transaction (adapters/matrix/journal.rs, store.rs,     *)
(* app/establish.rs, app/recover.rs, app/conclude.rs, app/credentials.rs).    *)
(*                                                                            *)
(* A login stands for the transaction, for the session it obtains, for the    *)
(* key of its store and for the store's content: login l can be restored when *)
(* the saved session is l and its account's key and store are l's too. The    *)
(* data directory of a store is modelled; the cache directory beside it is    *)
(* abstracted to the extra way a two-directory move can fail.                 *)
(*                                                                            *)
(* Every effect on the disk or the keyring is a step of its own: it may fail, *)
(* and the process may die before the next one.                               *)
EXTENDS Naturals

CONSTANTS
    Logins,      \* login attempts, each with a transaction id of its own
    Accounts,    \* accounts, each with one store directory and one key entry
    AccountOf,   \* the account a login signs in to
    Nobody,      \* no login: no saved session, no key, no transaction
    Nothing,     \* no directory
    Debris,      \* a directory that no login can open any more
    Corrupt,     \* a staged-credentials entry of an unknown layout
    FaultKinds,  \* which operations may fail in this environment
    SignInPastOpenJournal, \* may a user sign in again in a process that
                           \* left a login to be undone at the next start?
    MaxFaults, MaxCrashes  \* bounds on what the environment does

ASSUME ConstantsAssumption ==
    /\ AccountOf \in [Logins -> Accounts]
    /\ Nobody \notin Logins /\ Corrupt \notin Logins /\ Corrupt # Nobody
    /\ Nothing \notin Logins /\ Debris \notin Logins /\ Debris # Nothing
    /\ FaultKinds \subseteq {"journal", "sync", "move", "purge", "keyring"}
    /\ SignInPastOpenJournal \in BOOLEAN
    /\ MaxFaults \in Nat /\ MaxCrashes \in Nat

VARIABLES
    \* on the disk
    journal,     \* the journal file of each login
    target,      \* each account's store directory
    aside,       \* backup-<txn>: the store a login displaced
    pending,     \* pending-<txn>: the store a login was made in
    \* in the keyring
    session,     \* the saved session
    storeKey,    \* each account's store key
    superseded,  \* the one entry for the credentials a login displaced
    \* in the process
    pc, mode,    \* the next step, and on whose behalf it runs
    txn,         \* the login at hand
    record,      \* its journal record in memory
    displaced,   \* the credentials it displaced, as read
    failed,      \* CleanupReport::has_failures
    todo, blocked, \* recovery: journals left, whether one could not be resolved
    swept,       \* MatrixAdapter::swept
    \* of the environment
    tried, faults, crashes

disk == <<journal, target, aside, pending>>
keyring == <<session, storeKey, superseded>>
process == <<pc, mode, txn, record, displaced, failed, todo, blocked, swept>>
environment == <<tried, faults, crashes>>
vars == <<disk, keyring, process, environment>>

-----------------------------------------------------------------------------
(* Journal stages and what they mean for recovery. "Closed": no file. *)

UndoStages == {"Prepared", "OldStoreHeldAside", "NewStoreInstalled"}
OursStages == {"OldStoreHeldAside", "NewStoreInstalled", "CredentialsWritten"}
TerminalStages == {"Committed", "RolledBack"}
Stages == UndoStages \cup OursStages \cup TerminalStages \cup {"Closed"}

Record == [stage: Stages, staged: BOOLEAN]
NoRecord == [stage |-> "Closed", staged |-> FALSE]
Stores == Logins \cup {Nothing, Debris}
Credentials == [session: Logins \cup {Nobody}, key: Logins \cup {Nobody}]
NoCredentials == [session |-> Nobody, key |-> Nobody]
Slot == [txn: Logins \cup {Nobody, Corrupt}, was: Credentials]
NoSlot == [txn |-> Nobody, was |-> NoCredentials]

Account == AccountOf[txn]
Staged == superseded.txn = txn

\* A login that recovery would undo.
MustUndo(l) == journal[l].stage \in UndoStages

-----------------------------------------------------------------------------
(* Steps and their failures *)

At(step) == pc = step
Goto(step) == pc' = step
NoFault == UNCHANGED faults
Fault(kind) ==
    /\ kind \in FaultKinds
    /\ faults < MaxFaults
    /\ faults' = faults + 1

\* What a step that only advances the login at hand leaves alone.
Steady == UNCHANGED <<mode, txn, todo, blocked, swept, tried, crashes>>

\* LoginJournal::persist. write_durably renames the new file into place and
\* then syncs the directory: when the sync fails the record is on the disk and
\* the caller is told it is not, so memory keeps the previous record.
Persist(rec, onOk, onError) ==
    \/ /\ journal' = [journal EXCEPT ![txn] = rec]
       /\ record' = rec
       /\ Goto(onOk) /\ NoFault
    \/ /\ Fault("journal") /\ UNCHANGED <<journal, record>> /\ Goto(onError)
    \/ /\ Fault("sync") /\ journal' = [journal EXCEPT ![txn] = rec]
       /\ UNCHANGED record /\ Goto(onError)

\* LoginJournal::advance
Advance(stage, onOk, onError) ==
    IF record.stage = stage
    THEN Goto(onOk) /\ NoFault /\ UNCHANGED <<journal, record>>
    ELSE Persist([record EXCEPT !.stage = stage], onOk, onError)

\* move_existing of the data directory and then of the cache directory: a move
\* onto a directory that is there fails, and the cache may fail after the data
\* has moved. Gives the two places and whether the call failed.
Moves(from, to) ==
    IF from = Nothing THEN {<<Nothing, to, FALSE>>}
    ELSE {<<from, to, TRUE>>} \cup
         (IF to = Nothing THEN {<<Nothing, from, b>> : b \in BOOLEAN} ELSE {})

\* A move fails because of its destination or by a fault of the environment.
MoveFailure(to, bad) == IF bad /\ to = Nothing THEN Fault("move") ELSE NoFault

\* StoreLayout::purge: the directory is deleted, or moved to a quarantine the
\* next sweep deletes; when both fail it is still there, perhaps half deleted.
Purge(store) == {<<Nothing, FALSE>>} \cup
    (IF store = Nothing THEN {} ELSE {<<store, TRUE>>, <<Debris, TRUE>>})
PurgeFailure(bad) == IF bad THEN Fault("purge") ELSE NoFault

-----------------------------------------------------------------------------
Init ==
    \E l \in Logins \cup {Nobody}, stale \in {Nobody, Corrupt} :
        /\ journal = [k \in Logins |-> NoRecord]
        /\ target = [a \in Accounts |->
                        IF l # Nobody /\ a = AccountOf[l] THEN l ELSE Nothing]
        /\ aside = [k \in Logins |-> Nothing] /\ pending = [k \in Logins |-> Nothing]
        /\ session = l
        /\ storeKey = [a \in Accounts |->
                        IF l # Nobody /\ a = AccountOf[l] THEN l ELSE Nobody]
        /\ superseded = [txn |-> stale, was |-> NoCredentials]
        /\ pc = "off" /\ mode = "none" /\ txn = Nobody /\ record = NoRecord
        /\ displaced = NoCredentials /\ failed = FALSE
        /\ todo = {} /\ blocked = FALSE /\ swept = FALSE
        /\ tried = IF l = Nobody THEN {} ELSE {l}
        /\ faults = 0 /\ crashes = 0

\* The process's memory is gone; what it wrote is not.
Forgotten ==
    /\ pc' = "off" /\ mode' = "none" /\ txn' = Nobody /\ record' = NoRecord
    /\ displaced' = NoCredentials /\ failed' = FALSE
    /\ todo' = {} /\ blocked' = FALSE /\ swept' = FALSE
    /\ UNCHANGED <<tried, faults, keyring>>

\* The user leaves: handle_quit drains the login in flight first.
Quit ==
    /\ pc \in {"idle", "running", "blocked", "restore"}
    /\ Forgotten /\ UNCHANGED <<disk, crashes>>

Crash ==
    /\ pc # "off" /\ crashes < MaxCrashes /\ crashes' = crashes + 1
    /\ Forgotten
    /\ UNCHANGED disk

\* A crash inside remove_dir_all leaves half a store.
CrashMidPurge ==
    /\ crashes < MaxCrashes /\ crashes' = crashes + 1
    /\ Forgotten /\ UNCHANGED <<journal>>
    /\ \/ /\ \/ At("unwind") /\ record.stage \in OursStages
             \/ At("eraseStore")
          /\ target[Account] # Nothing
          /\ target' = [target EXCEPT ![Account] = Debris]
          /\ UNCHANGED <<aside, pending>>
       \/ /\ At("purgeAside") /\ aside[txn] # Nothing
          /\ aside' = [aside EXCEPT ![txn] = Debris]
          /\ UNCHANGED <<target, pending>>
       \/ /\ pc \in {"dropPending", "scratch"} /\ pending[txn] # Nothing
          /\ pending' = [pending EXCEPT ![txn] = Debris]
          /\ UNCHANGED <<target, aside>>

-----------------------------------------------------------------------------
(* StoreLayout::sweep_stale: old login stores no journal names are deleted.   *)
(* Age is not modelled: any of them may be old enough.                        *)

Open(l) == journal[l].stage # "Closed"

Sweepable == IF swept THEN {{}} ELSE SUBSET {l \in Logins : ~Open(l)}
Without(dirs, gone) == [l \in Logins |-> IF l \in gone THEN Nothing ELSE dirs[l]]

-----------------------------------------------------------------------------
(* Signing in: MatrixAdapter::adopt_session, StoreLayout::adopt *)

\* discover_auth makes the pending store, login_password or OAuth the session.
BeginLogin(l) ==
    /\ At("idle") /\ l \notin tried
    /\ SignInPastOpenJournal \/ \A k \in Logins : ~MustUndo(k)
    /\ tried' = tried \cup {l}
    /\ swept' = TRUE
    /\ \E gone \in Sweepable :
          /\ aside' = Without(aside, gone)
          /\ pending' = [Without(pending, gone) EXCEPT ![l] = l]
    /\ txn' = l /\ mode' = "adopt" /\ Goto("open")
    /\ failed' = FALSE /\ displaced' = NoCredentials
    /\ record' = NoRecord
    /\ UNCHANGED <<journal, target, keyring, todo, blocked, faults, crashes>>

OpenJournal ==
    /\ At("open") /\ Steady
    /\ Persist([stage |-> "Prepared", staged |-> FALSE], "holdAside", "scratch")
    /\ UNCHANGED <<target, aside, pending, keyring, displaced, failed>>

HoldAside ==
    /\ At("holdAside") /\ Steady
    /\ \E m \in Moves(target[Account], aside[txn]) :
          /\ target' = [target EXCEPT ![Account] = m[1]]
          /\ aside' = [aside EXCEPT ![txn] = m[2]]
          /\ MoveFailure(aside[txn], m[3])
          /\ Goto(IF m[3] THEN "unwind" ELSE "advanceHeldAside")
    /\ UNCHANGED <<journal, pending, keyring, record, displaced, failed>>

AdvanceHeldAside ==
    /\ At("advanceHeldAside") /\ Steady
    /\ Advance("OldStoreHeldAside", "install", "unwind")
    /\ UNCHANGED <<target, aside, pending, keyring, displaced, failed>>

\* install: a cache that does not move is started empty, so the data decides;
\* a pending store that is gone is a failure.
Install ==
    /\ At("install") /\ Steady
    /\ \/ /\ pending[txn] # Nothing /\ target[Account] = Nothing
          /\ target' = [target EXCEPT ![Account] = pending[txn]]
          /\ pending' = [pending EXCEPT ![txn] = Nothing]
          /\ Goto("advanceInstalled") /\ NoFault
       \/ /\ Fault("move") /\ Goto("unwind")
          /\ UNCHANGED <<target, pending>>
       \/ /\ pending[txn] = Nothing \/ target[Account] # Nothing
          /\ Goto("unwind") /\ NoFault
          /\ UNCHANGED <<target, pending>>
    /\ UNCHANGED <<journal, aside, keyring, record, displaced, failed>>

AdvanceInstalled ==
    /\ At("advanceInstalled") /\ Steady
    /\ Advance("NewStoreInstalled", "openSession", "unwind")
    /\ UNCHANGED <<target, aside, pending, keyring, displaced, failed>>

\* open_session and ensure_identity_matches_server; either abandons the login.
OpenSession ==
    /\ At("openSession")
    /\ \/ mode' = "record" /\ Goto("readDisplaced")
       \/ mode' = "abandon" /\ Goto("unwind")
    /\ UNCHANGED <<disk, keyring, txn, record, displaced, failed,
                   todo, blocked, swept, environment>>

-----------------------------------------------------------------------------
(* Recording the login: EstablishedSession::record_or_roll_back. What fails   *)
(* before the staging entry is written needs no credentials put back.         *)

Keep == UNCHANGED <<disk, record>>

ReadDisplaced ==
    /\ At("readDisplaced")
    /\ \/ /\ displaced' = [session |-> session, key |-> storeKey[Account]]
          /\ Goto("stageDisplaced") /\ NoFault /\ UNCHANGED mode
       \/ /\ Fault("keyring") /\ mode' = "rollback" /\ Goto("unwind")
          /\ UNCHANGED displaced
    /\ UNCHANGED <<disk, keyring, txn, record, failed, todo, blocked, swept, tried, crashes>>

StageDisplaced ==
    /\ At("stageDisplaced") /\ Steady /\ Keep
    /\ \/ /\ superseded' = [txn |-> txn, was |-> displaced]
          /\ Goto("markStaged") /\ NoFault
       \/ Fault("keyring") /\ Goto("rollingBack") /\ UNCHANGED superseded
    /\ UNCHANGED <<session, storeKey, displaced, failed>>

MarkStaged ==
    /\ At("markStaged") /\ Steady
    /\ Persist([record EXCEPT !.staged = TRUE], "saveKey", "rollingBack")
    /\ UNCHANGED <<target, aside, pending, keyring, displaced, failed>>

SaveKey ==
    /\ At("saveKey") /\ Steady /\ Keep
    /\ \/ /\ storeKey' = [storeKey EXCEPT ![Account] = txn]
          /\ Goto("saveSession") /\ NoFault
       \/ Fault("keyring") /\ Goto("rollingBack") /\ UNCHANGED storeKey
    /\ UNCHANGED <<session, superseded, displaced, failed>>

SaveSession ==
    /\ At("saveSession") /\ Steady /\ Keep
    /\ \/ session' = txn /\ Goto("advanceWritten") /\ NoFault
       \/ Fault("keyring") /\ Goto("rollingBack") /\ UNCHANGED session
    /\ UNCHANGED <<storeKey, superseded, displaced, failed>>

AdvanceWritten ==
    /\ At("advanceWritten") /\ Steady
    /\ Advance("CredentialsWritten", "await", "rollingBack")
    /\ UNCHANGED <<target, aside, pending, keyring, displaced, failed>>

\* The event loop takes the login, unless the attempt was cancelled meanwhile.
SettleLogin ==
    /\ At("await")
    /\ \/ mode' = "commit" /\ Goto("purgeAside")
       \/ mode' = "rollback" /\ Goto("rollingBack")
    /\ UNCHANGED <<disk, keyring, txn, record, displaced, failed,
                   todo, blocked, swept, environment>>

-----------------------------------------------------------------------------
(* Undoing a login in the process that made it: EstablishedSession::roll_back *)
(* and finish_rollback. The server logout of the new device changes nothing   *)
(* modelled here.                                                             *)

RollingBack ==
    /\ At("rollingBack")
    /\ mode' = "rollback"
    /\ IF record.stage = "CredentialsWritten"
       THEN Advance("NewStoreInstalled", "restoreSession", "blocked")
       ELSE Goto("restoreSession") /\ NoFault /\ UNCHANGED <<journal, record>>
    /\ UNCHANGED <<target, aside, pending, keyring, displaced, failed,
                   txn, todo, blocked, swept, tried, crashes>>

\* clear_session may fail after it deleted the entry: it also removes a file.
RestoreSession ==
    /\ At("restoreSession") /\ Steady /\ Keep
    /\ \/ session' = displaced.session /\ NoFault /\ UNCHANGED failed
       \/ /\ Fault("keyring") /\ failed' = TRUE
          /\ \/ UNCHANGED session
             \/ displaced.session = Nobody /\ session' = Nobody
    /\ Goto("restoreKey")
    /\ UNCHANGED <<storeKey, superseded, displaced>>

\* Mutant of RestoreKey: gives back the key of whatever store is in place.
RestoreKeyOfStore ==
    /\ At("restoreKey") /\ Steady /\ Keep
    /\ storeKey' = [storeKey EXCEPT ![Account] = target[Account]]
    /\ NoFault /\ UNCHANGED <<session, superseded, displaced, failed>>
    /\ Goto(IF mode = "rollback" THEN "unwind" ELSE "restored")

RestoreKey ==
    /\ At("restoreKey") /\ Steady /\ Keep
    /\ \/ /\ storeKey' = [storeKey EXCEPT ![Account] = displaced.key]
          /\ NoFault /\ UNCHANGED failed
       \/ Fault("keyring") /\ failed' = TRUE /\ UNCHANGED storeKey
    /\ Goto(IF mode = "rollback" THEN "unwind" ELSE "restored")
    /\ UNCHANGED <<session, superseded, displaced>>

-----------------------------------------------------------------------------
(* StoreLayout::unwind, for a login abandoned, rolled back or recovered       *)

\* Mutant of Unwind: purges the store in place whoever it belongs to.
UnwindWhoeverOwns ==
    /\ At("unwind") /\ Steady
    /\ target' = [target EXCEPT ![Account] = Nothing]
    /\ Goto("putBack") /\ NoFault
    /\ UNCHANGED <<journal, aside, pending, keyring, record, displaced, failed>>

Unwind ==
    /\ At("unwind") /\ Steady
    /\ IF record.stage \in OursStages
       THEN \E p \in Purge(target[Account]) :
              /\ target' = [target EXCEPT ![Account] = p[1]]
              /\ PurgeFailure(p[2]) /\ failed' = (failed \/ p[2])
              /\ Goto("advanceUnwound")
       ELSE Goto("putBack") /\ NoFault /\ UNCHANGED <<target, failed>>
    /\ UNCHANGED <<journal, aside, pending, keyring, record, displaced>>

\* The journal says the target is free even when the purge of it failed.
AdvanceUnwound ==
    /\ At("advanceUnwound") /\ Steady
    /\ Advance("Prepared", "putBack", "unwound")
    /\ failed' = (failed \/ record'.stage # "Prepared")
    /\ UNCHANGED <<target, aside, pending, keyring, displaced>>

PutBack ==
    /\ At("putBack") /\ Steady
    /\ \E m \in Moves(aside[txn], target[Account]) :
          /\ aside' = [aside EXCEPT ![txn] = m[1]]
          /\ target' = [target EXCEPT ![Account] = m[2]]
          /\ MoveFailure(target[Account], m[3])
          /\ failed' = (failed \/ m[3])
    /\ Goto("dropPending")
    /\ UNCHANGED <<journal, pending, keyring, record, displaced>>

\* Mutant of DropPending: a store that is gone already counts as a failure.
DropPendingIfThere ==
    /\ At("dropPending") /\ Steady
    /\ failed' = (failed \/ pending[txn] = Nothing)
    /\ pending' = [pending EXCEPT ![txn] = Nothing]
    /\ NoFault /\ Goto("unwound")
    /\ UNCHANGED <<journal, target, aside, keyring, record, displaced>>

DropPending ==
    /\ At("dropPending") /\ Steady
    /\ \E p \in Purge(pending[txn]) :
          /\ pending' = [pending EXCEPT ![txn] = p[1]]
          /\ PurgeFailure(p[2]) /\ failed' = (failed \/ p[2])
    /\ Goto("unwound")
    /\ UNCHANGED <<journal, target, aside, keyring, record, displaced>>

\* The login at hand is done with, on this path.
Release(step) ==
    /\ Goto(step) /\ mode' = "none" /\ txn' = Nobody /\ record' = NoRecord
    /\ displaced' = NoCredentials /\ failed' = FALSE
    /\ UNCHANGED <<swept, tried, crashes>>

\* Where a login goes that is left for the next start.
LeftOpen ==
    CASE mode = "adopt" -> Goto("scratch") /\ Steady /\ UNCHANGED <<record, displaced, failed, todo, blocked>>
      [] mode = "abandon" -> Release("idle") /\ UNCHANGED <<todo, blocked>>
      [] mode = "rollback" -> Release("blocked") /\ UNCHANGED <<todo, blocked>>
      [] mode = "recover" -> Release("recover") /\ blocked' = TRUE /\ UNCHANGED todo

\* Where it goes once its journal is gone, or only its clean-up is left.
Closed ==
    CASE mode = "adopt" -> Goto("scratch") /\ Steady /\ UNCHANGED <<record, displaced, failed, todo, blocked>>
      [] mode \in {"abandon", "rollback"} -> Release("idle") /\ UNCHANGED <<todo, blocked>>
      [] mode = "recover" -> Release("recover") /\ UNCHANGED <<todo, blocked>>
      [] mode = "commit" -> /\ Goto("running") /\ mode' = "none" /\ record' = NoRecord
                            /\ displaced' = NoCredentials /\ failed' = FALSE
                            /\ UNCHANGED <<txn, todo, blocked, swept, tried, crashes>>

\* The report of the unwinding is read: abandon, finish_rollback, roll_back.
Unwound ==
    /\ At("unwound")
    /\ IF failed THEN LeftOpen
       ELSE /\ Steady /\ UNCHANGED <<record, displaced, failed>>
            /\ Goto(CASE mode \in {"adopt", "abandon"} -> "recordRolledBack"
                      [] mode = "rollback" -> "markRolledBack"
                      [] mode = "recover" -> IF Staged THEN "restoreSession"
                                                       ELSE "markRolledBack")
    /\ UNCHANGED <<disk, keyring, faults>>

\* Recovery's second reading of the report, after the credentials.
Restored ==
    /\ At("restored")
    /\ IF failed THEN LeftOpen
       ELSE Goto("markRolledBack") /\ Steady /\ UNCHANGED <<record, displaced, failed>>
    /\ UNCHANGED <<disk, keyring, faults>>

\* LoginJournal::close_rolled_back works on the record in memory...
RecordRolledBack ==
    /\ At("recordRolledBack")
    /\ \/ /\ record.stage \in {"Prepared", "RolledBack"}
          /\ journal' = [journal EXCEPT ![txn] = [record EXCEPT !.stage = "RolledBack"]]
          /\ Goto("forget") /\ NoFault /\ Steady /\ UNCHANGED <<record, displaced, failed>>
       \/ Fault("journal") /\ LeftOpen /\ UNCHANGED journal
       \/ /\ Fault("sync") /\ LeftOpen
          /\ journal' = [journal EXCEPT ![txn] = [record EXCEPT !.stage = "RolledBack"]]
       \/ /\ record.stage \notin {"Prepared", "RolledBack"}
          /\ LeftOpen /\ NoFault /\ UNCHANGED journal
    /\ UNCHANGED <<target, aside, pending, keyring>>

\* ...mark_rolled_back on the one it reads from the disk.
MarkRolledBack ==
    LET written == [journal EXCEPT ![txn].stage = "RolledBack"]
        unwound == journal[txn].stage \in {"Prepared", "RolledBack"} IN
    /\ At("markRolledBack")
    /\ \/ /\ unwound /\ journal' = written
          /\ Goto("clearSlot") /\ NoFault /\ Steady /\ UNCHANGED <<record, displaced, failed>>
       \/ Fault("journal") /\ LeftOpen /\ UNCHANGED journal
       \/ unwound /\ Fault("sync") /\ LeftOpen /\ journal' = written
       \/ ~unwound /\ LeftOpen /\ NoFault /\ UNCHANGED journal
    /\ UNCHANGED <<target, aside, pending, keyring>>

\* Mutant of ClearSlot: clears the entry of another login too.
ClearSlotOfAnyone ==
    /\ At("clearSlot") /\ UNCHANGED <<disk, session, storeKey>>
    /\ \/ /\ superseded' = NoSlot
          /\ Goto("forget") /\ NoFault /\ Steady /\ UNCHANGED <<record, displaced, failed>>
       \/ Fault("keyring") /\ Closed /\ UNCHANGED superseded

\* conclude::close_terminal: clear_superseded leaves another login's entry.
ClearSlot ==
    /\ At("clearSlot") /\ UNCHANGED <<disk, session, storeKey>>
    /\ \/ /\ superseded' = IF superseded.txn \in {txn, Corrupt} THEN NoSlot ELSE superseded
          /\ Goto("forget") /\ NoFault /\ Steady /\ UNCHANGED <<record, displaced, failed>>
       \/ Fault("keyring") /\ Closed /\ UNCHANGED superseded

\* forget_login and discard: only a login that reached its end is forgotten.
Forget ==
    /\ At("forget") /\ Closed
    /\ \/ /\ journal' = IF journal[txn].stage \in TerminalStages
                        THEN [journal EXCEPT ![txn] = NoRecord] ELSE journal
          /\ NoFault
       \/ Fault("journal") /\ UNCHANGED journal
    /\ UNCHANGED <<target, aside, pending, keyring>>

\* purge_login_scratch, whose report is only logged.
Scratch ==
    /\ At("scratch") /\ Release("idle") /\ UNCHANGED <<todo, blocked>>
    /\ \E p \in Purge(pending[txn]) :
          pending' = [pending EXCEPT ![txn] = p[1]] /\ PurgeFailure(p[2])
    /\ UNCHANGED <<journal, target, aside, keyring>>

-----------------------------------------------------------------------------
(* StoreLayout::settle, for a login committed or rolled forward               *)

PurgeAside ==
    /\ At("purgeAside") /\ Steady
    /\ IF record.stage = "CredentialsWritten"
       THEN \E p \in Purge(aside[txn]) :
              /\ aside' = [aside EXCEPT ![txn] = p[1]]
              /\ PurgeFailure(p[2]) /\ failed' = (failed \/ p[2])
              /\ Goto("advanceCommitted")
       ELSE Goto("clearSlot") /\ NoFault /\ UNCHANGED <<aside, failed>>
    /\ UNCHANGED <<journal, target, pending, keyring, record, displaced>>

AdvanceCommitted ==
    /\ At("advanceCommitted") /\ Steady
    /\ Advance("Committed", "settled", "settled")
    /\ failed' = (failed \/ record'.stage # "Committed")
    /\ UNCHANGED <<target, aside, pending, keyring, displaced>>

\* A commit goes on whatever the report says; recovery leaves it for later.
Settled ==
    /\ At("settled") /\ UNCHANGED <<disk, keyring, faults>>
    /\ IF failed /\ mode = "recover" THEN Closed
       ELSE Goto("clearSlot") /\ Steady /\ UNCHANGED <<record, displaced, failed>>

-----------------------------------------------------------------------------
(* A start: recover_interrupted_logins, then the saved session is restored    *)

Start ==
    /\ At("off") /\ UNCHANGED <<disk, keyring, mode, txn, record, displaced, failed, swept, tried, crashes>>
    /\ \/ /\ todo' = {l \in Logins : Open(l)}
          /\ Goto("recover") /\ NoFault /\ UNCHANGED blocked
       \/ Fault("journal") /\ Goto("blocked") /\ UNCHANGED <<todo, blocked>>

\* resolve, in whatever order the directory lists the journals.
Resolve(l) ==
    /\ At("recover") /\ l \in todo
    /\ todo' = todo \ {l}
    /\ UNCHANGED <<disk, keyring, swept, tried, crashes>>
    /\ \/ /\ txn' = l /\ mode' = "recover" /\ record' = journal[l]
          /\ failed' = FALSE /\ displaced' = NoCredentials
          /\ Goto(CASE journal[l].stage \in UndoStages -> "plan"
                    [] journal[l].stage = "CredentialsWritten" -> "purgeAside"
                    [] OTHER -> "clearSlot")
          /\ NoFault /\ UNCHANGED blocked
       \/ /\ Fault("journal") /\ blocked' = TRUE
          /\ UNCHANGED <<pc, mode, txn, record, displaced, failed>>

\* Mutant of Plan: a login that staged nothing cannot be undone.
PlanStagedOnly ==
    /\ At("plan") /\ UNCHANGED <<disk, keyring>>
    /\ \/ /\ Staged /\ displaced' = superseded.was
          /\ Goto("unwind") /\ NoFault /\ Steady /\ UNCHANGED <<record, failed>>
       \/ ~Staged /\ LeftOpen /\ NoFault

\* credential_plan: the entry is this login's, or this login staged none.
Plan ==
    /\ At("plan") /\ UNCHANGED <<disk, keyring>>
    /\ \/ /\ Staged \/ ~record.staged
          /\ displaced' = IF Staged THEN superseded.was ELSE NoCredentials
          /\ Goto("unwind") /\ NoFault /\ Steady /\ UNCHANGED <<record, failed>>
       \/ ~Staged /\ record.staged /\ LeftOpen /\ NoFault
       \/ Fault("keyring") /\ LeftOpen

Recovered ==
    /\ At("recover") /\ todo = {}
    /\ Goto(IF blocked THEN "blocked" ELSE "restore")
    /\ UNCHANGED <<disk, keyring, mode, txn, record, displaced, failed, todo, blocked, swept, environment>>

SavedKey == IF session = Nobody THEN Nobody ELSE storeKey[AccountOf[session]]

\* try_restore_session. A keyring that cannot be read pauses it; a session
\* that cannot be opened leaves the local data for a sign-in to replace.
RestoreSaved ==
    /\ At("restore") /\ SavedKey # Nobody
    /\ UNCHANGED <<journal, superseded, storeKey, mode, record, displaced, failed,
                   todo, blocked, environment>>
    /\ swept' = TRUE
    /\ \E gone \in Sweepable :
          aside' = Without(aside, gone) /\ pending' = Without(pending, gone)
    /\ LET a == AccountOf[session]
           opens == storeKey[a] = session /\ target[a] = session IN
       \* the store opens and the homeserver knows its device
       \/ /\ opens /\ Goto("running") /\ txn' = session
          /\ UNCHANGED <<target, session>>
       \* it could not be opened, or the homeserver could not be asked
       \/ /\ target' = IF target[a] = Nothing THEN [target EXCEPT ![a] = Debris] ELSE target
          /\ Goto("idle") /\ UNCHANGED <<txn, session>>
       \* an empty store, made where there was none, is another device's:
       \* the homeserver signs this one out
       \/ /\ target[a] = Nothing
          /\ target' = [target EXCEPT ![a] = Debris] /\ session' = Nobody
          /\ Goto("idle") /\ UNCHANGED txn

NothingSaved ==
    /\ At("restore")
    /\ SavedKey = Nobody
    /\ Goto("idle")
    /\ UNCHANGED <<disk, keyring, mode, txn, record, displaced, failed, todo, blocked, swept, environment>>

-----------------------------------------------------------------------------
(* Signing out: clear_local_state, which goes on past what it cannot erase.   *)

Logout ==
    /\ At("running") /\ Goto("eraseKey") /\ mode' = "erase"
    /\ UNCHANGED <<disk, keyring, txn, record, displaced, failed, todo, blocked, swept, environment>>

EraseKey ==
    /\ At("eraseKey") /\ Goto("eraseSession") /\ Steady /\ Keep
    /\ \/ storeKey' = [storeKey EXCEPT ![Account] = Nobody] /\ NoFault
       \/ Fault("keyring") /\ UNCHANGED storeKey
    /\ UNCHANGED <<session, superseded, displaced, failed>>

EraseSession ==
    /\ At("eraseSession") /\ Goto("eraseStore") /\ Steady /\ Keep
    /\ \/ session' = Nobody /\ NoFault
       \/ Fault("keyring") /\ UNCHANGED session
    /\ UNCHANGED <<storeKey, superseded, displaced, failed>>

EraseStore ==
    /\ At("eraseStore") /\ Release("idle")
    /\ \E p \in Purge(target[Account]) :
          target' = [target EXCEPT ![Account] = p[1]] /\ PurgeFailure(p[2])
    /\ UNCHANGED <<journal, aside, pending, keyring, todo, blocked>>

-----------------------------------------------------------------------------
Adopting == \/ \E l \in Logins : BeginLogin(l)
            \/ OpenJournal \/ HoldAside \/ AdvanceHeldAside
            \/ Install \/ AdvanceInstalled \/ OpenSession
Recording == \/ ReadDisplaced \/ StageDisplaced \/ MarkStaged
             \/ SaveKey \/ SaveSession \/ AdvanceWritten \/ SettleLogin
RollBack == RollingBack \/ RestoreSession \/ RestoreKey
Unwinding == Unwind \/ AdvanceUnwound \/ PutBack \/ DropPending \/ Unwound \/ Restored
Concluding == \/ RecordRolledBack \/ MarkRolledBack \/ ClearSlot \/ Forget \/ Scratch
              \/ PurgeAside \/ AdvanceCommitted \/ Settled
Starting == \/ Start \/ Plan \/ Recovered \/ RestoreSaved \/ NothingSaved
            \/ \E l \in Logins : Resolve(l)
Erasing == Logout \/ EraseKey \/ EraseSession \/ EraseStore
Stopping == Quit \/ Crash \/ CrashMidPurge

Step == Adopting \/ Recording \/ RollBack \/ Unwinding \/ Concluding \/ Starting \/ Erasing
Next == Step \/ Stopping

Spec == Init /\ [][Next]_vars

\* The process takes its next step unless it dies, and a user whom a start
\* blocked starts the program again.
FairSpec == Spec /\ WF_vars(Step) /\ WF_vars(At("blocked") /\ Quit)

-----------------------------------------------------------------------------
Steps == {"off", "recover", "restore", "idle", "running", "blocked",
          "open", "holdAside", "advanceHeldAside", "install", "advanceInstalled",
          "openSession", "readDisplaced", "stageDisplaced", "markStaged", "saveKey",
          "saveSession", "advanceWritten", "await", "rollingBack", "restoreSession",
          "restoreKey", "unwind", "advanceUnwound", "putBack", "dropPending",
          "unwound", "restored", "recordRolledBack", "markRolledBack", "clearSlot",
          "forget", "scratch", "purgeAside", "advanceCommitted", "settled", "plan",
          "eraseKey", "eraseSession", "eraseStore"}
Modes == {"none", "adopt", "abandon", "record", "rollback", "commit", "recover", "erase"}

\* Every variable holds a value of its kind.
TypeOK ==
    /\ journal \in [Logins -> Record]
    /\ target \in [Accounts -> Stores]
    /\ aside \in [Logins -> Stores] /\ pending \in [Logins -> Stores]
    /\ session \in Logins \cup {Nobody}
    /\ storeKey \in [Accounts -> Logins \cup {Nobody}]
    /\ superseded \in Slot
    /\ pc \in Steps /\ mode \in Modes
    /\ txn \in Logins \cup {Nobody}
    /\ record \in Record /\ displaced \in Credentials
    /\ failed \in BOOLEAN /\ todo \subseteq Logins
    /\ blocked \in BOOLEAN /\ swept \in BOOLEAN
    /\ tried \subseteq Logins
    /\ faults \in 0..MaxFaults /\ crashes \in 0..MaxCrashes

\* A login whose journal says its credentials were staged can be undone: until
\* it reached its end, the one staging entry holds what it displaced, whatever
\* failed, died or was retried in between (recover::credential_plan).
StagedCredentialsKept ==
    \A l \in Logins : MustUndo(l) /\ journal[l].staged => superseded.txn = l

\* Dying alone never costs a sign-in: with no failing operation every start
\* resolves every login (recover_interrupted_logins ends Clean), and a process
\* that shows the sign-in form or runs a session has no transaction left over.
CrashAloneIsResolved ==
    faults = 0 =>
        /\ pc # "blocked" /\ ~blocked
        /\ pc \in {"idle", "running", "restore"} =>
              \A l \in Logins : ~Open(l) /\ superseded.txn # l

\* Signing in is never refused for good: once failures stop, a start gets past
\* the login it could not resolve ("will be retried at the next start").
BlockedUntilRetried == At("blocked") ~> At("restore")

\* A session that recovery leaves saved, with the key it was saved with, still
\* has the store that key opens. (Its user has not erased it: erasing destroys
\* the key first.)
SavedSessionKeepsStore ==
    At("restore") /\ SavedKey # Nobody /\ SavedKey = session
        => target[AccountOf[session]] = session
=============================================================================
