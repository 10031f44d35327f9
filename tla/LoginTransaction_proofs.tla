----------------------- MODULE LoginTransaction_proofs -----------------------
(* Proofs about LoginTransaction: type correctness, that the credentials a    *)
(* login displaced are kept as long as the login can be undone, and that a    *)
(* process that dies, without any operation failing, leaves no more than the  *)
(* next start resolves. All hold for any number of logins, accounts, failures *)
(* and crashes.                                                               *)
EXTENDS LoginTransaction, TLAPS

-----------------------------------------------------------------------------
(* The inductive invariant. A login is burdened when undoing it needs the one *)
(* staging entry; the invariant says which logins may be burdened when.       *)

Burdened(l) == MustUndo(l) /\ journal[l].staged

\* A step that works on a login has one.
AtHand == pc \notin {"off", "recover", "restore", "idle", "blocked"} => txn \in Logins

\* On whose behalf each step runs.
ModesFit ==
    /\ pc \in {"off", "recover", "restore", "idle", "running"} => mode = "none"
    /\ pc \in {"open", "holdAside", "advanceHeldAside", "install", "advanceInstalled",
               "openSession", "scratch"} => mode = "adopt"
    /\ pc \in {"readDisplaced", "stageDisplaced", "markStaged", "saveKey", "saveSession",
               "advanceWritten", "await"} => mode = "record"
    /\ pc = "rollingBack" => mode \in {"record", "rollback"}
    /\ pc \in {"restoreSession", "restoreKey", "markRolledBack"} => mode \in {"rollback", "recover"}
    /\ pc \in {"unwind", "advanceUnwound", "putBack", "dropPending", "unwound"} =>
           mode \in {"adopt", "abandon", "rollback", "recover"}
    /\ pc \in {"plan", "restored"} => mode = "recover"
    /\ pc = "recordRolledBack" => mode \in {"adopt", "abandon"}
    /\ pc = "clearSlot" => mode \in {"rollback", "recover", "commit"}
    /\ pc = "forget" => mode \in {"adopt", "abandon", "rollback", "recover", "commit"}
    /\ pc \in {"purgeAside", "advanceCommitted", "settled"} => mode \in {"commit", "recover"}
    /\ pc \in {"eraseKey", "eraseSession", "eraseStore"} => mode = "erase"

TypeInv == TypeOK /\ AtHand /\ ModesFit

-----------------------------------------------------------------------------
(* What the helpers do                                                        *)

\* The members of the kinds that steps write.
LEMMA Kinds ==
    /\ NoRecord \in Record /\ NoCredentials \in Credentials /\ NoSlot \in Slot
    /\ Nothing \in Stores /\ Debris \in Stores /\ Logins \subseteq Stores
    /\ \A rec \in Record : rec.stage \in Stages /\ rec.staged \in BOOLEAN
    /\ \A rec \in Record, stage \in Stages :
          /\ [rec EXCEPT !.stage = stage] \in Record
          /\ [rec EXCEPT !.stage = stage].stage = stage
          /\ [rec EXCEPT !.stage = stage].staged = rec.staged
    /\ \A rec \in Record, b \in BOOLEAN :
          /\ [rec EXCEPT !.staged = b] \in Record
          /\ [rec EXCEPT !.staged = b].stage = rec.stage
          /\ [rec EXCEPT !.staged = b].staged = b
    /\ \A s \in Slot : s.txn \in Logins \cup {Nobody, Corrupt} /\ s.was \in Credentials
    /\ \A c \in Credentials : /\ c.session \in Logins \cup {Nobody}
                              /\ c.key \in Logins \cup {Nobody}
    /\ \A l \in Logins, c \in Credentials : [txn |-> l, was |-> c] \in Slot
    /\ \A s, k \in Logins \cup {Nobody} : [session |-> s, key |-> k] \in Credentials
  <1>1. NoCredentials \in Credentials
    BY DEF NoCredentials, Credentials
  <1>2. NoRecord \in Record
    BY DEF NoRecord, Record, Stages
  <1>3. NoSlot \in Slot
    BY <1>1 DEF NoSlot, Slot
  <1>4. Nothing \in Stores /\ Debris \in Stores /\ Logins \subseteq Stores
    BY DEF Stores
  <1>5. \A rec \in Record : rec.stage \in Stages /\ rec.staged \in BOOLEAN
    BY DEF Record
  <1>6. \A rec \in Record, stage \in Stages :
          /\ [rec EXCEPT !.stage = stage] \in Record
          /\ [rec EXCEPT !.stage = stage].stage = stage
          /\ [rec EXCEPT !.stage = stage].staged = rec.staged
    BY DEF Record
  <1>7. \A rec \in Record, b \in BOOLEAN :
          /\ [rec EXCEPT !.staged = b] \in Record
          /\ [rec EXCEPT !.staged = b].stage = rec.stage
          /\ [rec EXCEPT !.staged = b].staged = b
    BY DEF Record
  <1>8. /\ \A s \in Slot : s.txn \in Logins \cup {Nobody, Corrupt} /\ s.was \in Credentials
        /\ \A l \in Logins, c \in Credentials : [txn |-> l, was |-> c] \in Slot
    BY DEF Slot
  <1>9. /\ \A c \in Credentials : /\ c.session \in Logins \cup {Nobody}
                                  /\ c.key \in Logins \cup {Nobody}
        /\ \A s, k \in Logins \cup {Nobody} : [session |-> s, key |-> k] \in Credentials
    BY DEF Credentials
  <1> QED BY <1>1, <1>2, <1>3, <1>4, <1>5, <1>6, <1>7, <1>8, <1>9

\* LoginJournal::persist writes the journal of the login at hand only: the new
\* record or, when it fails, perhaps not.
LEMMA PersistEffect ==
    ASSUME TypeOK, txn \in Logins, NEW rec \in Record, NEW onOk, NEW onError, onOk # onError,
           Persist(rec, onOk, onError)
    PROVE  /\ journal' \in [Logins -> Record]
           /\ \A l \in Logins : journal'[l] = journal[l] \/ (l = txn /\ journal'[l] = rec)
           /\ \/ pc' = onOk /\ record' = rec /\ journal'[txn] = rec
              \/ pc' = onError /\ record' = record
           /\ faults' \in 0..MaxFaults
  <1>1. \/ journal' = [journal EXCEPT ![txn] = rec] /\ record' = rec /\ pc' = onOk
        \/ journal' = journal /\ record' = record /\ pc' = onError
        \/ journal' = [journal EXCEPT ![txn] = rec] /\ record' = record /\ pc' = onError
    BY DEF Persist, Goto
  <1>2. faults' \in 0..MaxFaults
    BY ConstantsAssumption DEF Persist, TypeOK, Fault, NoFault
  <1>3. journal \in [Logins -> Record]
    BY DEF TypeOK
  <1>4. CASE journal' = journal /\ record' = record /\ pc' = onError
    BY <1>2, <1>3, <1>4
  <1>5. CASE journal' = [journal EXCEPT ![txn] = rec]
    <2>1. journal' \in [Logins -> Record] /\ journal'[txn] = rec
      BY <1>3, <1>5
    <2>2. \A l \in Logins : l # txn => journal'[l] = journal[l]
      BY <1>3, <1>5
    <2> QED BY <1>1, <1>2, <2>1, <2>2
  <1> QED BY <1>1, <1>4, <1>5

\* LoginJournal::advance, likewise, and it keeps the staged flag.
LEMMA AdvanceEffect ==
    ASSUME TypeOK, txn \in Logins, NEW stage \in Stages, NEW onOk, NEW onError,
           Advance(stage, onOk, onError)
    PROVE  /\ journal' \in [Logins -> Record] /\ record' \in Record
           /\ \A l \in Logins : \/ journal'[l] = journal[l]
                                \/ l = txn /\ journal'[l].stage = stage
                                   /\ journal'[l].staged = record.staged
           /\ record'.staged = record.staged /\ record'.stage \in {record.stage, stage}
           /\ faults' \in 0..MaxFaults /\ pc' \in {onOk, onError}
           /\ onOk # onError /\ pc' = onOk =>
                 record'.stage = stage /\ (record.stage # stage => journal'[txn].stage = stage)
  <1>1. CASE record.stage = stage
    BY <1>1, ConstantsAssumption DEF Advance, TypeOK, NoFault, Goto
  <1>2. CASE record.stage # stage
    <2> DEFINE rec == [record EXCEPT !.stage = stage]
    <2>1. record \in Record /\ rec \in Record /\ rec.stage = stage /\ rec.staged = record.staged
      BY Kinds DEF TypeOK
    <2>2. Persist(rec, onOk, onError)
      BY <1>2 DEF Advance
    <2> HIDE DEF rec
    <2>3. \/ journal' = [journal EXCEPT ![txn] = rec] /\ record' = rec /\ pc' = onOk
          \/ journal' = journal /\ record' = record /\ pc' = onError
          \/ journal' = [journal EXCEPT ![txn] = rec] /\ record' = record /\ pc' = onError
      BY <2>2 DEF Persist, Goto
    <2>4. faults' \in 0..MaxFaults
      BY <2>2, ConstantsAssumption DEF Persist, TypeOK, Fault, NoFault
    <2>5. journal \in [Logins -> Record]
      BY DEF TypeOK
    <2> QED BY <2>1, <2>3, <2>4, <2>5
  <1> QED BY <1>1, <1>2

\* A move leaves a store in each of its two places.
LEMMA MovesEffect ==
    ASSUME NEW from \in Stores, NEW to \in Stores, NEW m \in Moves(from, to)
    PROVE  m[1] \in Stores /\ m[2] \in Stores
  <1>1. \/ m = <<Nothing, to, FALSE>> \/ m = <<from, to, TRUE>>
        \/ m = <<Nothing, from, TRUE>> \/ m = <<Nothing, from, FALSE>>
    BY DEF Moves
  <1>2. CASE m = <<Nothing, to, FALSE>>
    BY <1>2 DEF Stores
  <1>3. CASE m = <<from, to, TRUE>>
    BY <1>3
  <1>4. CASE m = <<Nothing, from, TRUE>>
    BY <1>4 DEF Stores
  <1>5. CASE m = <<Nothing, from, FALSE>>
    BY <1>5 DEF Stores
  <1> QED BY <1>1, <1>2, <1>3, <1>4, <1>5

\* A purge leaves what was there, half of it, or nothing.
LEMMA PurgeEffect ==
    ASSUME NEW store \in Stores, NEW p \in Purge(store)
    PROVE  p[1] \in Stores /\ p[2] \in BOOLEAN
  <1>1. p = <<Nothing, FALSE>> \/ p = <<store, TRUE>> \/ p = <<Debris, TRUE>>
    BY DEF Purge
  <1>2. CASE p = <<Nothing, FALSE>>
    BY <1>2 DEF Stores
  <1>3. CASE p = <<store, TRUE>>
    BY <1>3
  <1>4. CASE p = <<Debris, TRUE>>
    BY <1>4 DEF Stores
  <1> QED BY <1>1, <1>2, <1>3, <1>4

\* The initial states, an empty or an already signed-in device with no login
\* under way, are of the declared kinds.
LEMMA TypeInit == Init => TypeInv
  <1> SUFFICES ASSUME Init PROVE TypeInv
    OBVIOUS
  <1> USE ConstantsAssumption DEF Init
  <1>1. NoRecord \in Record /\ NoCredentials \in Credentials
    BY DEF NoRecord, Record, Stages, NoCredentials, Credentials
  <1>2. superseded \in Slot
    BY <1>1 DEF Slot
  <1>3. pc \in Steps /\ mode \in Modes
    BY DEF Steps, Modes
  <1>4. /\ target \in [Accounts -> Stores] /\ storeKey \in [Accounts -> Logins \cup {Nobody}]
        /\ aside \in [Logins -> Stores] /\ pending \in [Logins -> Stores]
    BY DEF Stores
  <1>5. journal \in [Logins -> Record] /\ record \in Record /\ displaced \in Credentials
    BY <1>1
  <1>6. session \in Logins \cup {Nobody} /\ tried \subseteq Logins /\ todo \subseteq Logins
    OBVIOUS
  <1>7. faults \in 0..MaxFaults /\ crashes \in 0..MaxCrashes
    OBVIOUS
  <1>8. AtHand /\ ModesFit
    BY DEF AtHand, ModesFit
  <1>9. /\ txn \in Logins \cup {Nobody}
        /\ failed \in BOOLEAN /\ blocked \in BOOLEAN /\ swept \in BOOLEAN
    OBVIOUS
  <1> QED BY <1>2, <1>3, <1>4, <1>5, <1>6, <1>7, <1>8, <1>9 DEF TypeInv, TypeOK

-----------------------------------------------------------------------------
(* Type correctness: one lemma per group of actions                           *)

\* Making the new store and putting it in place keeps the types.
LEMMA AdoptingTypes == TypeInv /\ Adopting => TypeInv'
  <1> SUFFICES ASSUME TypeInv, Adopting PROVE TypeInv'
    OBVIOUS
  <1> USE ConstantsAssumption, Kinds DEF TypeInv, TypeOK, AtHand, ModesFit, Steps, Modes,
        At, Goto, NoFault, Fault, Steady, keyring
  <1>1. ASSUME NEW l \in Logins, BeginLogin(l) PROVE TypeInv'
    <2>1. PICK gone \in Sweepable : /\ aside' = Without(aside, gone)
                                   /\ pending' = [Without(pending, gone) EXCEPT ![l] = l]
      BY <1>1 DEF BeginLogin
    <2>2. Without(aside, gone) \in [Logins -> Stores] /\ Without(pending, gone) \in [Logins -> Stores]
      BY DEF Without
    <2>3. l \in Stores
      OBVIOUS
    <2>4. aside' \in [Logins -> Stores] /\ pending' \in [Logins -> Stores]
      BY <2>1, <2>2, <2>3
    <2>5. /\ journal' = journal /\ target' = target /\ session' = session
          /\ storeKey' = storeKey /\ superseded' = superseded /\ todo' = todo
          /\ blocked' = blocked /\ faults' = faults /\ crashes' = crashes
          /\ tried' = tried \cup {l} /\ swept' = TRUE /\ txn' = l /\ mode' = "adopt"
          /\ pc' = "open" /\ failed' = FALSE /\ displaced' = NoCredentials /\ record' = NoRecord
      BY <1>1 DEF BeginLogin
    <2> QED BY <2>4, <2>5
  <1>2. CASE OpenJournal
    <2> DEFINE rec == [stage |-> "Prepared", staged |-> FALSE]
    <2>1. txn \in Logins /\ rec \in Record
      BY <1>2 DEF OpenJournal, Record, Stages, UndoStages
    <2>2. Persist(rec, "holdAside", "scratch")
      BY <1>2 DEF OpenJournal
    <2> HIDE DEF rec
    <2>3. /\ journal' \in [Logins -> Record] /\ record' \in {record, rec}
          /\ faults' \in 0..MaxFaults /\ pc' \in {"holdAside", "scratch"}
      BY <2>1, <2>2, PersistEffect
    <2> QED BY <1>2, <2>1, <2>3 DEF OpenJournal
  <1>3. CASE HoldAside
    <2>1. PICK m \in Moves(target[Account], aside[txn]) :
                /\ target' = [target EXCEPT ![Account] = m[1]]
                /\ aside' = [aside EXCEPT ![txn] = m[2]]
                /\ MoveFailure(aside[txn], m[3])
                /\ Goto(IF m[3] THEN "unwind" ELSE "advanceHeldAside")
      BY <1>3 DEF HoldAside
    <2>2. txn \in Logins /\ Account \in Accounts
      BY <1>3 DEF HoldAside, Account
    <2>3. m[1] \in Stores /\ m[2] \in Stores
      BY <2>2, MovesEffect
    <2>4. faults' \in 0..MaxFaults
      BY <2>1 DEF MoveFailure
    <2> QED BY <1>3, <2>1, <2>2, <2>3, <2>4 DEF HoldAside
  <1>4. CASE AdvanceHeldAside
    <2>1. txn \in Logins /\ "OldStoreHeldAside" \in Stages
      BY <1>4 DEF AdvanceHeldAside, Stages, UndoStages
    <2>2. /\ journal' \in [Logins -> Record] /\ record' \in Record
          /\ faults' \in 0..MaxFaults /\ pc' \in {"install", "unwind"}
      BY <1>4, <2>1, AdvanceEffect DEF AdvanceHeldAside
    <2> QED BY <1>4, <2>2 DEF AdvanceHeldAside
  <1>5. CASE Install
    <2>1. txn \in Logins /\ Account \in Accounts
      BY <1>5 DEF Install, Account
    <2>2. faults' \in 0..MaxFaults /\ pc' \in {"advanceInstalled", "unwind"}
      BY <1>5 DEF Install
    <2>3. target' \in [Accounts -> Stores] /\ pending' \in [Logins -> Stores]
      BY <1>5, <2>1 DEF Install
    <2> QED BY <1>5, <2>1, <2>2, <2>3 DEF Install
  <1>6. CASE AdvanceInstalled
    <2>1. txn \in Logins /\ "NewStoreInstalled" \in Stages
      BY <1>6 DEF AdvanceInstalled, Stages, UndoStages
    <2>2. /\ journal' \in [Logins -> Record] /\ record' \in Record
          /\ faults' \in 0..MaxFaults /\ pc' \in {"openSession", "unwind"}
      BY <1>6, <2>1, AdvanceEffect DEF AdvanceInstalled
    <2> QED BY <1>6, <2>2 DEF AdvanceInstalled
  <1>7. CASE OpenSession
    BY <1>7 DEF OpenSession, disk, environment
  <1> QED BY <1>1, <1>2, <1>3, <1>4, <1>5, <1>6, <1>7 DEF Adopting

\* Recording the credentials and rolling them back keeps the types.
LEMMA RecordingTypes == TypeInv /\ (Recording \/ RollBack) => TypeInv'
  <1> SUFFICES ASSUME TypeInv, Recording \/ RollBack PROVE TypeInv'
    OBVIOUS
  <1> USE ConstantsAssumption, Kinds DEF TypeInv, TypeOK, AtHand, ModesFit, Steps, Modes,
        At, Goto, NoFault, Fault, Steady, Keep, keyring, disk
  <1>1. CASE ReadDisplaced
    BY <1>1 DEF ReadDisplaced, Account
  <1>2. CASE StageDisplaced
    BY <1>2 DEF StageDisplaced
  <1>3. CASE MarkStaged
    <2> DEFINE rec == [record EXCEPT !.staged = TRUE]
    <2>1. txn \in Logins /\ rec \in Record
      BY <1>3 DEF MarkStaged
    <2>2. Persist(rec, "saveKey", "rollingBack")
      BY <1>3 DEF MarkStaged
    <2> HIDE DEF rec
    <2>3. /\ journal' \in [Logins -> Record] /\ record' \in {record, rec}
          /\ faults' \in 0..MaxFaults /\ pc' \in {"saveKey", "rollingBack"}
      BY <2>1, <2>2, PersistEffect
    <2> QED BY <1>3, <2>1, <2>3 DEF MarkStaged
  <1>4. CASE SaveKey
    BY <1>4 DEF SaveKey, Account
  <1>5. CASE SaveSession
    BY <1>5 DEF SaveSession
  <1>6. CASE AdvanceWritten
    <2>1. txn \in Logins /\ "CredentialsWritten" \in Stages
      BY <1>6 DEF AdvanceWritten, Stages, OursStages
    <2>2. /\ journal' \in [Logins -> Record] /\ record' \in Record
          /\ faults' \in 0..MaxFaults /\ pc' \in {"await", "rollingBack"}
      BY <1>6, <2>1, AdvanceEffect DEF AdvanceWritten
    <2> QED BY <1>6, <2>2 DEF AdvanceWritten
  <1>7. CASE SettleLogin
    BY <1>7 DEF SettleLogin, environment
  <1>8. CASE RollingBack
    <2>1. txn \in Logins /\ "NewStoreInstalled" \in Stages
      BY <1>8 DEF RollingBack, Stages, OursStages
    <2>2. /\ journal' \in [Logins -> Record] /\ record' \in Record
          /\ faults' \in 0..MaxFaults /\ pc' \in {"restoreSession", "blocked"}
      <3>1. CASE record.stage = "CredentialsWritten"
        BY <1>8, <2>1, <3>1, AdvanceEffect DEF RollingBack
      <3>2. CASE record.stage # "CredentialsWritten"
        BY <1>8, <3>2 DEF RollingBack
      <3> QED BY <3>1, <3>2
    <2> QED BY <1>8, <2>2 DEF RollingBack
  <1>9. CASE RestoreSession
    <2>0. displaced.session \in Logins \cup {Nobody}
      OBVIOUS
    <2>1. session' \in Logins \cup {Nobody} /\ failed' \in BOOLEAN
      BY <1>9, <2>0 DEF RestoreSession
    <2>2. faults' \in 0..MaxFaults
      BY <1>9 DEF RestoreSession
    <2> QED BY <1>9, <2>1, <2>2 DEF RestoreSession
  <1>10. CASE RestoreKey
    <2>1. txn \in Logins /\ Account \in Accounts
      BY <1>10 DEF RestoreKey, Account
    <2>2. storeKey' \in [Accounts -> Logins \cup {Nobody}] /\ failed' \in BOOLEAN
      BY <1>10, <2>1 DEF RestoreKey
    <2>3. faults' \in 0..MaxFaults
      BY <1>10 DEF RestoreKey
    <2> QED BY <1>10, <2>1, <2>2, <2>3 DEF RestoreKey
  <1> QED BY <1>1, <1>2, <1>3, <1>4, <1>5, <1>6, <1>7, <1>8, <1>9, <1>10 DEF Recording, RollBack

\* Where a login that is left or closed goes.
LEMMA LeavingTypes ==
    ASSUME TypeInv, (LeftOpen /\ mode # "commit") \/ Closed,
           pc \in {"unwound", "restored", "recordRolledBack", "markRolledBack", "clearSlot",
                   "forget", "plan", "settled"},
           pc = "settled" => mode = "recover"
    PROVE  /\ pc' \in Steps /\ mode' \in Modes /\ txn' \in Logins \cup {Nobody}
           /\ record' \in Record /\ displaced' \in Credentials /\ failed' \in BOOLEAN
           /\ blocked' \in BOOLEAN /\ todo' = todo /\ swept' = swept
           /\ tried' = tried /\ crashes' = crashes
           /\ AtHand' /\ ModesFit'
  <1> USE Kinds DEF TypeInv, TypeOK, AtHand, ModesFit, Steps, Modes, Goto, Steady, Release
  <1>1. mode \in {"adopt", "abandon", "rollback", "recover", "commit"}
    OBVIOUS
  <1>2. CASE LeftOpen /\ mode # "commit"
    <2>1. CASE mode = "adopt"
      BY <1>2, <2>1 DEF LeftOpen
    <2>2. CASE mode = "abandon"
      <3>1. Release("idle") /\ UNCHANGED <<todo, blocked>>
        BY <1>2, <2>2 DEF LeftOpen
      <3> QED BY <3>1
    <2>3. CASE mode = "rollback"
      <3>1. Release("blocked") /\ UNCHANGED <<todo, blocked>>
        BY <1>2, <2>3 DEF LeftOpen
      <3> QED BY <3>1
    <2>4. CASE mode = "recover"
      BY <1>2, <2>4 DEF LeftOpen
    <2> QED BY <1>1, <1>2, <2>1, <2>2, <2>3, <2>4
  <1>3. CASE Closed
    <2>1. CASE mode = "adopt"
      BY <1>3, <2>1 DEF Closed
    <2>2. CASE mode \in {"abandon", "rollback"}
      <3>1. Release("idle") /\ UNCHANGED <<todo, blocked>>
        BY <1>3, <2>2 DEF Closed
      <3> QED BY <3>1
    <2>3. CASE mode = "recover"
      <3>1. Release("recover") /\ UNCHANGED <<todo, blocked>>
        BY <1>3, <2>3 DEF Closed
      <3> QED BY <3>1
    <2>4. CASE mode = "commit"
      <3>1. /\ pc' = "running" /\ mode' = "none" /\ record' = NoRecord
            /\ displaced' = NoCredentials /\ failed' = FALSE
            /\ UNCHANGED <<txn, todo, blocked, swept, tried, crashes>>
        BY <1>3, <2>4 DEF Closed
      <3> QED BY <3>1, <2>4
    <2> QED BY <1>1, <2>1, <2>2, <2>3, <2>4
  <1> QED BY <1>2, <1>3

\* Unwinding the stores keeps the types.
LEMMA UnwindingTypes == TypeInv /\ Unwinding => TypeInv'
  <1> SUFFICES ASSUME TypeInv, Unwinding PROVE TypeInv'
    OBVIOUS
  <1>0. txn \in Logins /\ Account \in Accounts
    BY ConstantsAssumption DEF Unwinding, Unwind, AdvanceUnwound, PutBack, DropPending, Unwound,
       Restored, At, TypeInv, AtHand, Account
  <1> USE ConstantsAssumption, Kinds, <1>0 DEF TypeInv, TypeOK, AtHand, ModesFit, Steps, Modes,
        At, Goto, NoFault, Fault, Steady, PurgeFailure, keyring
  <1>1. CASE Unwind
    <2>1. CASE record.stage \in OursStages
      <3>1. PICK p \in Purge(target[Account]) :
                  /\ target' = [target EXCEPT ![Account] = p[1]]
                  /\ PurgeFailure(p[2]) /\ failed' = (failed \/ p[2])
                  /\ Goto("advanceUnwound")
        BY <1>1, <2>1 DEF Unwind
      <3>2. p[1] \in Stores /\ p[2] \in BOOLEAN
        BY PurgeEffect
      <3> QED BY <1>1, <3>1, <3>2 DEF Unwind
    <2>2. CASE record.stage \notin OursStages
      BY <1>1, <2>2 DEF Unwind
    <2> QED BY <2>1, <2>2
  <1>2. CASE AdvanceUnwound
    <2>1. "Prepared" \in Stages
      BY DEF Stages, UndoStages
    <2>2. /\ journal' \in [Logins -> Record] /\ record' \in Record
          /\ faults' \in 0..MaxFaults /\ pc' \in {"putBack", "unwound"}
      BY <1>2, <2>1, AdvanceEffect DEF AdvanceUnwound
    <2> QED BY <1>2, <2>2 DEF AdvanceUnwound
  <1>3. CASE PutBack
    <2>1. PICK m \in Moves(aside[txn], target[Account]) :
                /\ aside' = [aside EXCEPT ![txn] = m[1]]
                /\ target' = [target EXCEPT ![Account] = m[2]]
                /\ MoveFailure(target[Account], m[3])
                /\ failed' = (failed \/ m[3])
      BY <1>3 DEF PutBack
    <2>2. m[1] \in Stores /\ m[2] \in Stores
      BY MovesEffect
    <2>3. faults' \in 0..MaxFaults
      BY <2>1 DEF MoveFailure
    <2> QED BY <1>3, <2>1, <2>2, <2>3 DEF PutBack
  <1>4. CASE DropPending
    <2>1. PICK p \in Purge(pending[txn]) :
                /\ pending' = [pending EXCEPT ![txn] = p[1]]
                /\ PurgeFailure(p[2]) /\ failed' = (failed \/ p[2])
      BY <1>4 DEF DropPending
    <2>2. p[1] \in Stores /\ p[2] \in BOOLEAN
      BY PurgeEffect
    <2> QED BY <1>4, <2>1, <2>2 DEF DropPending
  <1>5. CASE Unwound
    <2>1. CASE failed
      <3>1. LeftOpen /\ UNCHANGED <<disk, keyring, faults>>
        BY <1>5, <2>1 DEF Unwound
      <3> QED BY <1>5, <3>1, LeavingTypes DEF Unwound, disk
    <2>2. CASE ~failed
      BY <1>5, <2>2 DEF Unwound, disk
    <2> QED BY <2>1, <2>2
  <1>6. CASE Restored
    <2>1. CASE failed
      <3>1. LeftOpen /\ UNCHANGED <<disk, keyring, faults>>
        BY <1>6, <2>1 DEF Restored
      <3> QED BY <1>6, <3>1, LeavingTypes DEF Restored, disk
    <2>2. CASE ~failed
      BY <1>6, <2>2 DEF Restored, disk
    <2> QED BY <2>1, <2>2
  <1> QED BY <1>1, <1>2, <1>3, <1>4, <1>5, <1>6 DEF Unwinding

\* Closing a login that reached its end keeps the types.
LEMMA ConcludingTypes == TypeInv /\ Concluding => TypeInv'
  <1> SUFFICES ASSUME TypeInv, Concluding PROVE TypeInv'
    OBVIOUS
  <1>0. txn \in Logins
    BY DEF Concluding, RecordRolledBack, MarkRolledBack, ClearSlot, Forget, Scratch,
       PurgeAside, AdvanceCommitted, Settled, At, TypeInv, AtHand
  <1> USE ConstantsAssumption, Kinds, <1>0 DEF TypeInv, TypeOK, AtHand, ModesFit, Steps, Modes,
        At, Goto, NoFault, Fault, Steady, PurgeFailure, keyring
  <1>1. "RolledBack" \in Stages /\ "Committed" \in Stages
    BY DEF Stages, TerminalStages
  <1>2. CASE RecordRolledBack
    <2> DEFINE rec == [record EXCEPT !.stage = "RolledBack"]
    <2>1. rec \in Record
      BY <1>1
    <2>2. journal' \in [Logins -> Record] /\ faults' \in 0..MaxFaults
      <3> HIDE DEF rec
      <3>1. journal' = journal \/ journal' = [journal EXCEPT ![txn] = rec]
        BY <1>2 DEF RecordRolledBack, rec
      <3>2. faults' \in 0..MaxFaults
        BY <1>2 DEF RecordRolledBack
      <3> QED BY <2>1, <3>1, <3>2
    <2>3. UNCHANGED <<target, aside, pending, session, storeKey, superseded>>
      BY <1>2 DEF RecordRolledBack
    <2>4. \/ LeftOpen
          \/ Goto("forget") /\ Steady /\ UNCHANGED <<record, displaced, failed>>
      BY <1>2 DEF RecordRolledBack
    <2>5. CASE LeftOpen
      BY <1>2, <2>2, <2>3, <2>5, LeavingTypes DEF RecordRolledBack
    <2>6. CASE Goto("forget") /\ Steady /\ UNCHANGED <<record, displaced, failed>>
      BY <1>2, <2>2, <2>3, <2>6 DEF RecordRolledBack
    <2> QED BY <2>4, <2>5, <2>6
  <1>3. CASE MarkRolledBack
    <2> DEFINE rec == [journal[txn] EXCEPT !.stage = "RolledBack"]
    <2>1. rec \in Record
      BY <1>1
    <2>2. journal' \in [Logins -> Record] /\ faults' \in 0..MaxFaults
      <3>1. journal' = journal \/ journal' = [journal EXCEPT ![txn] = rec]
        BY <1>3 DEF MarkRolledBack
      <3>2. faults' \in 0..MaxFaults
        BY <1>3 DEF MarkRolledBack
      <3> HIDE DEF rec
      <3> QED BY <2>1, <3>1, <3>2
    <2>3. UNCHANGED <<target, aside, pending, session, storeKey, superseded>>
      BY <1>3 DEF MarkRolledBack
    <2>4. \/ LeftOpen
          \/ Goto("clearSlot") /\ Steady /\ UNCHANGED <<record, displaced, failed>>
      BY <1>3 DEF MarkRolledBack
    <2>5. CASE LeftOpen
      BY <1>3, <2>2, <2>3, <2>5, LeavingTypes DEF MarkRolledBack
    <2>6. CASE Goto("clearSlot") /\ Steady /\ UNCHANGED <<record, displaced, failed>>
      BY <1>3, <2>2, <2>3, <2>6 DEF MarkRolledBack
    <2> QED BY <2>4, <2>5, <2>6
  <1>4. CASE ClearSlot
    <2>1. superseded' \in Slot /\ faults' \in 0..MaxFaults
      BY <1>4 DEF ClearSlot
    <2>2. UNCHANGED <<journal, target, aside, pending, session, storeKey>>
      BY <1>4 DEF ClearSlot, disk
    <2>3. \/ Closed
          \/ Goto("forget") /\ Steady /\ UNCHANGED <<record, displaced, failed>>
      BY <1>4 DEF ClearSlot
    <2>4. CASE Closed
      BY <1>4, <2>1, <2>2, <2>4, LeavingTypes DEF ClearSlot
    <2>5. CASE Goto("forget") /\ Steady /\ UNCHANGED <<record, displaced, failed>>
      BY <1>4, <2>1, <2>2, <2>5 DEF ClearSlot
    <2> QED BY <2>3, <2>4, <2>5
  <1>5. CASE Forget
    <2>1. journal' \in [Logins -> Record] /\ faults' \in 0..MaxFaults
      BY <1>5 DEF Forget
    <2>2. Closed /\ UNCHANGED <<target, aside, pending, session, storeKey, superseded>>
      BY <1>5 DEF Forget
    <2> QED BY <1>5, <2>1, <2>2, LeavingTypes DEF Forget
  <1>6. CASE Scratch
    <2>1. PICK p \in Purge(pending[txn]) :
                pending' = [pending EXCEPT ![txn] = p[1]] /\ PurgeFailure(p[2])
      BY <1>6 DEF Scratch
    <2>2. p[1] \in Stores /\ p[2] \in BOOLEAN
      BY PurgeEffect
    <2>3. /\ pc' = "idle" /\ mode' = "none" /\ txn' = Nobody /\ record' = NoRecord
          /\ displaced' = NoCredentials /\ failed' = FALSE
          /\ UNCHANGED <<swept, tried, crashes, todo, blocked, journal, target, aside, session,
                         storeKey, superseded>>
      BY <1>6 DEF Scratch, Release
    <2>4. faults' \in 0..MaxFaults
      BY <2>1
    <2> QED BY <2>1, <2>2, <2>3, <2>4
  <1>7. CASE PurgeAside
    <2>1. CASE record.stage = "CredentialsWritten"
      <3>1. PICK p \in Purge(aside[txn]) :
                  /\ aside' = [aside EXCEPT ![txn] = p[1]]
                  /\ PurgeFailure(p[2]) /\ failed' = (failed \/ p[2])
                  /\ Goto("advanceCommitted")
        BY <1>7, <2>1 DEF PurgeAside
      <3>2. p[1] \in Stores /\ p[2] \in BOOLEAN
        BY PurgeEffect
      <3> QED BY <1>7, <3>1, <3>2 DEF PurgeAside
    <2>2. CASE record.stage # "CredentialsWritten"
      BY <1>7, <2>2 DEF PurgeAside
    <2> QED BY <2>1, <2>2
  <1>8. CASE AdvanceCommitted
    <2>1. /\ journal' \in [Logins -> Record] /\ record' \in Record
          /\ faults' \in 0..MaxFaults /\ pc' = "settled"
      BY <1>1, <1>8, AdvanceEffect DEF AdvanceCommitted
    <2> QED BY <1>8, <2>1 DEF AdvanceCommitted
  <1>9. CASE Settled
    <2>1. CASE failed /\ mode = "recover"
      <3>1. Closed /\ UNCHANGED <<journal, target, aside, pending, keyring, faults>>
        BY <1>9, <2>1 DEF Settled, disk
      <3> QED BY <1>9, <2>1, <3>1, LeavingTypes DEF Settled
    <2>2. CASE ~(failed /\ mode = "recover")
      BY <1>9, <2>2 DEF Settled, disk
    <2> QED BY <2>1, <2>2
  <1> QED BY <1>2, <1>3, <1>4, <1>5, <1>6, <1>7, <1>8, <1>9 DEF Concluding

\* A start keeps the types.
LEMMA StartingTypes == TypeInv /\ Starting => TypeInv'
  <1> SUFFICES ASSUME TypeInv, Starting PROVE TypeInv'
    OBVIOUS
  <1> USE ConstantsAssumption, Kinds DEF TypeInv, TypeOK, AtHand, ModesFit, Steps, Modes,
        At, Goto, NoFault, Fault, Steady, keyring, disk, environment
  <1>1. CASE Start
    BY <1>1 DEF Start
  <1>2. CASE Plan
    <2>1. UNCHANGED <<journal, target, aside, pending, keyring>> /\ faults' \in 0..MaxFaults
      BY <1>2 DEF Plan
    <2>2. \/ LeftOpen
          \/ /\ displaced' = IF Staged THEN superseded.was ELSE NoCredentials
             /\ Goto("unwind") /\ Steady /\ UNCHANGED <<record, failed>>
      BY <1>2 DEF Plan
    <2>3. CASE LeftOpen
      BY <1>2, <2>1, <2>3, LeavingTypes DEF Plan
    <2>4. CASE /\ displaced' = IF Staged THEN superseded.was ELSE NoCredentials
               /\ Goto("unwind") /\ Steady /\ UNCHANGED <<record, failed>>
      BY <1>2, <2>1, <2>4 DEF Plan
    <2> QED BY <2>2, <2>3, <2>4
  <1>3. CASE Recovered
    BY <1>3 DEF Recovered
  <1>4. CASE RestoreSaved
    <2>1. PICK gone \in Sweepable :
                aside' = Without(aside, gone) /\ pending' = Without(pending, gone)
      BY <1>4 DEF RestoreSaved
    <2>2. aside' \in [Logins -> Stores] /\ pending' \in [Logins -> Stores]
      BY <2>1 DEF Without
    <2>3. session \in Logins
      BY <1>4 DEF RestoreSaved, SavedKey
    <2>4. AccountOf[session] \in Accounts
      BY <2>3
    <2>5. /\ target' \in [Accounts -> Stores] /\ session' \in Logins \cup {Nobody}
          /\ \/ pc' = "running" /\ txn' = session
             \/ pc' = "idle" /\ txn' = txn
      BY <1>4, <2>4 DEF RestoreSaved
    <2>6. /\ UNCHANGED <<journal, superseded, storeKey, mode, record, displaced, failed,
                         todo, blocked, tried, faults, crashes>>
          /\ swept' = TRUE /\ pc = "restore"
      BY <1>4 DEF RestoreSaved
    <2> QED BY <2>2, <2>3, <2>5, <2>6
  <1>5. CASE NothingSaved
    BY <1>5 DEF NothingSaved
  <1>6. ASSUME NEW l \in Logins, Resolve(l) PROVE TypeInv'
    <2>1. /\ UNCHANGED <<journal, target, aside, pending, session, storeKey, superseded,
                         swept, tried, crashes>>
          /\ todo' \subseteq Logins /\ pc = "recover"
      BY <1>6 DEF Resolve
    <2>2. CASE /\ txn' = l /\ mode' = "recover" /\ record' = journal[l]
               /\ failed' = FALSE /\ displaced' = NoCredentials /\ NoFault /\ UNCHANGED blocked
               /\ pc' \in {"plan", "purgeAside", "clearSlot"}
      BY <2>1, <2>2
    <2>3. CASE /\ faults' \in 0..MaxFaults /\ blocked' = TRUE
               /\ UNCHANGED <<pc, mode, txn, record, displaced, failed>>
      BY <2>1, <2>3
    <2>4. \/ /\ txn' = l /\ mode' = "recover" /\ record' = journal[l]
             /\ failed' = FALSE /\ displaced' = NoCredentials /\ NoFault /\ UNCHANGED blocked
             /\ pc' \in {"plan", "purgeAside", "clearSlot"}
          \/ /\ faults' \in 0..MaxFaults /\ blocked' = TRUE
             /\ UNCHANGED <<pc, mode, txn, record, displaced, failed>>
      BY <1>6 DEF Resolve
    <2> QED BY <2>2, <2>3, <2>4
  <1> QED BY <1>1, <1>2, <1>3, <1>4, <1>5, <1>6 DEF Starting

\* A process that ends forgets what it kept in memory, and no more.
LEMMA ForgottenTypes ==
    ASSUME TypeInv, Forgotten, journal' = journal, crashes' \in 0..MaxCrashes,
           target' \in [Accounts -> Stores],
           aside' \in [Logins -> Stores], pending' \in [Logins -> Stores]
    PROVE  TypeInv'
  BY Kinds DEF Forgotten, keyring, TypeInv, TypeOK, AtHand, ModesFit, Steps, Modes

\* Signing out and leaving keep the types.
LEMMA EndingTypes == TypeInv /\ (Erasing \/ Stopping) => TypeInv'
  <1> SUFFICES ASSUME TypeInv, Erasing \/ Stopping PROVE TypeInv'
    OBVIOUS
  <1> USE ConstantsAssumption, Kinds DEF TypeInv, TypeOK, AtHand, ModesFit, Steps, Modes,
        At, Goto, NoFault, Fault, Steady, Keep, PurgeFailure, keyring, disk, environment
  <1>1. CASE Logout
    BY <1>1 DEF Logout
  <1>2. CASE EraseKey
    BY <1>2 DEF EraseKey
  <1>3. CASE EraseSession
    BY <1>3 DEF EraseSession
  <1>4. CASE EraseStore
    <2>0. txn \in Logins /\ Account \in Accounts
      BY <1>4 DEF EraseStore, Account
    <2>1. PICK p \in Purge(target[Account]) :
                target' = [target EXCEPT ![Account] = p[1]] /\ PurgeFailure(p[2])
      BY <1>4 DEF EraseStore
    <2>2. p[1] \in Stores /\ p[2] \in BOOLEAN
      BY <2>0, PurgeEffect
    <2>3. /\ pc' = "idle" /\ mode' = "none" /\ txn' = Nobody /\ record' = NoRecord
          /\ displaced' = NoCredentials /\ failed' = FALSE
          /\ UNCHANGED <<swept, tried, crashes, todo, blocked, journal, aside, pending, session,
                         storeKey, superseded>>
      BY <1>4 DEF EraseStore, Release
    <2>4. faults' \in 0..MaxFaults
      BY <2>1
    <2> QED BY <2>0, <2>1, <2>2, <2>3, <2>4
  <1>5. CASE Quit
    <2>1. Forgotten /\ UNCHANGED disk /\ crashes' \in 0..MaxCrashes
      BY <1>5 DEF Quit
    <2> QED BY <2>1, ForgottenTypes
  <1>6. CASE Crash
    <2>1. Forgotten /\ UNCHANGED disk /\ crashes' \in 0..MaxCrashes
      BY <1>6 DEF Crash
    <2> QED BY <2>1, ForgottenTypes
  <1>7. CASE CrashMidPurge
    <2>1. /\ target' \in [Accounts -> Stores] /\ aside' \in [Logins -> Stores]
          /\ pending' \in [Logins -> Stores]
      <3>1. target' = target \/ target' = [target EXCEPT ![Account] = Debris]
        BY <1>7 DEF CrashMidPurge
      <3>2. aside' = aside \/ aside' = [aside EXCEPT ![txn] = Debris]
        BY <1>7 DEF CrashMidPurge
      <3>3. pending' = pending \/ pending' = [pending EXCEPT ![txn] = Debris]
        BY <1>7 DEF CrashMidPurge
      <3>4. target' \in [Accounts -> Stores]
        BY <3>1
      <3>5. aside' \in [Logins -> Stores]
        BY <3>2
      <3>6. pending' \in [Logins -> Stores]
        BY <3>3
      <3> QED BY <3>4, <3>5, <3>6
    <2>2. Forgotten /\ journal' = journal /\ crashes' \in 0..MaxCrashes
      BY <1>7 DEF CrashMidPurge
    <2> QED BY <2>1, <2>2, ForgottenTypes
  <1> QED BY <1>1, <1>2, <1>3, <1>4, <1>5, <1>6, <1>7 DEF Erasing, Stopping

\* Every step keeps the types.
LEMMA TypeNext == TypeInv /\ [Next]_vars => TypeInv'
  <1> SUFFICES ASSUME TypeInv, [Next]_vars PROVE TypeInv'
    OBVIOUS
  <1>1. CASE Next
    BY <1>1, AdoptingTypes, RecordingTypes, UnwindingTypes, ConcludingTypes, StartingTypes,
       EndingTypes DEF Next, Step
  <1>2. CASE UNCHANGED vars
    BY <1>2 DEF TypeInv, TypeOK, AtHand, ModesFit, vars, disk, keyring, process, environment
  <1> QED BY <1>1, <1>2

\* Type correctness: whatever fails and wherever the process dies, each part of
\* the disk, the keyring and the process holds a value of its kind.
THEOREM TypeCorrect == Spec => []TypeOK
  <1>1. Init => TypeInv
    BY TypeInit
  <1>2. TypeInv /\ [Next]_vars => TypeInv'
    BY TypeNext
  <1>3. TypeInv => TypeOK
    BY DEF TypeInv
  <1> QED BY <1>1, <1>2, <1>3, PTL DEF Spec

-----------------------------------------------------------------------------
(* The credentials a login displaced are kept. The one staging entry is       *)
(* written by a login and cleared when a login is closed, so the invariant    *)
(* says that nobody else is burdened at those two moments; the rest follows   *)
(* the login at hand from one to the other.                                   *)

\* Until its credentials are written the login at hand is one to undo.
UndoAhead ==
    pc \in {"holdAside", "advanceHeldAside", "install", "advanceInstalled", "openSession",
            "readDisplaced", "stageDisplaced", "markStaged", "saveKey", "saveSession",
            "advanceWritten"} => record.stage \in UndoStages

\* A login has staged nothing before record_or_roll_back does it.
NotYetStaged ==
    mode \in {"adopt", "abandon"} \/ pc \in {"readDisplaced", "stageDisplaced", "markStaged"}
        => ~record.staged

\* While the login at hand may write its record back with the staged flag set,
\* the staging entry is its own.
SlotOurs ==
    /\ pc = "markStaged" => superseded.txn = txn
    /\ /\ pc \in {"saveKey", "saveSession", "advanceWritten", "await", "rollingBack",
                  "restoreSession", "restoreKey", "unwind", "advanceUnwound"}
       /\ record.staged
       => superseded.txn = txn

\* A login the event loop may take has its credentials written.
AwaitWritten == pc = "await" => journal[txn].stage = "CredentialsWritten"

\* When no login is burdened, only the one at hand, or only what recovery has
\* not resolved.
Burdens ==
    /\ \/ pc \in {"idle", "restore", "running", "readDisplaced", "stageDisplaced", "markStaged"}
       \/ mode \in {"adopt", "abandon", "commit", "erase"}
       => \A l \in Logins : ~Burdened(l)
    /\ mode \in {"record", "rollback"} => \A l \in Logins : Burdened(l) => l = txn
    /\ mode = "recover" => \A l \in Logins : Burdened(l) => l \in todo \/ blocked \/ l = txn
    /\ pc = "recover" => \A l \in Logins : Burdened(l) => l \in todo \/ blocked

\* A login whose entry is about to be cleared has reached its end.
Concluded ==
    pc \in {"purgeAside", "advanceCommitted", "settled", "clearSlot", "forget"} => ~Burdened(txn)

KeepInv == /\ StagedCredentialsKept /\ UndoAhead /\ NotYetStaged /\ SlotOurs
           /\ AwaitWritten /\ Burdens /\ Concluded

\* A step that writes neither a journal nor the staging entry burdens nobody.
LEMMA Still ==
    ASSUME KeepInv, journal' = journal, superseded' = superseded
    PROVE  /\ \A l \in Logins : Burdened(l)' <=> Burdened(l)
           /\ StagedCredentialsKept'
  BY DEF KeepInv, StagedCredentialsKept, Burdened, MustUndo

\* Advancing the journal burdens a login that staged its credentials at most,
\* and a terminal or written stage relieves it.
LEMMA AdvanceBurdens ==
    ASSUME TypeInv, KeepInv, txn \in Logins, NEW stage \in Stages, NEW onOk, NEW onError,
           Advance(stage, onOk, onError),
           superseded' = superseded, record.staged => superseded.txn = txn
    PROVE  /\ \A l \in Logins : Burdened(l)' => Burdened(l) \/ (l = txn /\ record.staged)
           /\ stage \notin UndoStages =>
                \A l \in Logins : Burdened(l)' => Burdened(l)
           /\ StagedCredentialsKept'
  <1>1. \A l \in Logins : \/ journal'[l] = journal[l]
                          \/ l = txn /\ journal'[l].stage = stage /\ journal'[l].staged = record.staged
    BY AdvanceEffect DEF TypeInv
  <1>2. \A l \in Logins : Burdened(l)' => Burdened(l) \/ (l = txn /\ record.staged)
    BY <1>1 DEF Burdened, MustUndo
  <1>3. stage \notin UndoStages => \A l \in Logins : Burdened(l)' => Burdened(l)
    BY <1>1 DEF Burdened, MustUndo
  <1>4. \A l \in Logins : Burdened(l) => superseded.txn = l
    BY DEF KeepInv, StagedCredentialsKept, Burdened
  <1>5. \A l \in Logins : Burdened(l)' => superseded'.txn = l
    BY <1>2, <1>4
  <1> QED BY <1>2, <1>3, <1>5 DEF StagedCredentialsKept, Burdened

\* Making the new store: nobody is burdened, so nobody can lose the entry.
LEMMA AdoptingKeeps == TypeInv /\ KeepInv /\ Adopting => KeepInv'
  <1> SUFFICES ASSUME TypeInv, KeepInv, Adopting PROVE KeepInv'
    OBVIOUS
  <1> USE DEF TypeInv, AtHand, ModesFit, KeepInv, UndoAhead, NotYetStaged, SlotOurs, AwaitWritten,
        Burdens, Concluded, At, Goto, Steady, keyring
  <1>1. ASSUME NEW l \in Logins, BeginLogin(l) PROVE KeepInv'
    <2>1. journal' = journal /\ superseded' = superseded
      BY <1>1 DEF BeginLogin
    <2>2. ~record'.staged
      BY <1>1 DEF BeginLogin, NoRecord
    <2> QED BY <1>1, <2>1, <2>2, Still DEF BeginLogin
  <1>2. CASE OpenJournal
    <2> DEFINE rec == [stage |-> "Prepared", staged |-> FALSE]
    <2>1. txn \in Logins /\ rec \in Record /\ ~rec.staged /\ rec.stage \in UndoStages
      BY <1>2 DEF OpenJournal, Record, Stages, UndoStages
    <2>2. Persist(rec, "holdAside", "scratch")
      BY <1>2 DEF OpenJournal
    <2> HIDE DEF rec
    <2>3. /\ \A l \in Logins : journal'[l] = journal[l] \/ (l = txn /\ journal'[l] = rec)
          /\ \/ pc' = "holdAside" /\ record' = rec
             \/ pc' = "scratch" /\ record' = record
      BY <2>1, <2>2, PersistEffect
    <2>4. \A l \in Logins : ~Burdened(l)
      BY <1>2 DEF OpenJournal
    <2>5. \A l \in Logins : ~Burdened(l)'
      BY <2>1, <2>3, <2>4 DEF Burdened, MustUndo
    <2>6. StagedCredentialsKept'
      BY <2>5 DEF Burdened, StagedCredentialsKept
    <2> QED BY <1>2, <2>1, <2>3, <2>5, <2>6 DEF OpenJournal
  <1>3. CASE HoldAside
    <2>1. journal' = journal /\ superseded' = superseded
      BY <1>3 DEF HoldAside
    <2> QED BY <1>3, <2>1, Still DEF HoldAside
  <1>4. CASE AdvanceHeldAside
    <2>1. /\ txn \in Logins /\ "OldStoreHeldAside" \in Stages /\ ~record.staged
          /\ superseded' = superseded /\ Advance("OldStoreHeldAside", "install", "unwind")
          /\ pc = "advanceHeldAside" /\ mode = "adopt" /\ mode' = "adopt"
      BY <1>4 DEF AdvanceHeldAside, Stages, UndoStages
    <2>2. (\A l \in Logins : Burdened(l)' => Burdened(l)) /\ StagedCredentialsKept'
      BY <2>1, AdvanceBurdens
    <2>3. /\ ~record'.staged /\ pc' \in {"install", "unwind"}
          /\ record'.stage \in {record.stage, "OldStoreHeldAside"}
      BY <2>1, AdvanceEffect
    <2>4. record'.stage \in UndoStages
      BY <2>1, <2>3 DEF UndoStages
    <2> QED BY <2>1, <2>2, <2>3, <2>4
  <1>5. CASE Install
    <2>1. journal' = journal /\ superseded' = superseded
      BY <1>5 DEF Install
    <2> QED BY <1>5, <2>1, Still DEF Install
  <1>6. CASE AdvanceInstalled
    <2>1. /\ txn \in Logins /\ "NewStoreInstalled" \in Stages /\ ~record.staged
          /\ superseded' = superseded /\ Advance("NewStoreInstalled", "openSession", "unwind")
          /\ pc = "advanceInstalled" /\ mode = "adopt" /\ mode' = "adopt"
      BY <1>6 DEF AdvanceInstalled, Stages, UndoStages
    <2>2. (\A l \in Logins : Burdened(l)' => Burdened(l)) /\ StagedCredentialsKept'
      BY <2>1, AdvanceBurdens
    <2>3. /\ ~record'.staged /\ pc' \in {"openSession", "unwind"}
          /\ record'.stage \in {record.stage, "NewStoreInstalled"}
      BY <2>1, AdvanceEffect
    <2>4. record'.stage \in UndoStages
      BY <2>1, <2>3 DEF UndoStages
    <2> QED BY <2>1, <2>2, <2>3, <2>4
  <1>7. CASE OpenSession
    <2>1. journal' = journal /\ superseded' = superseded
      BY <1>7 DEF OpenSession, disk
    <2> QED BY <1>7, <2>1, Still DEF OpenSession
  <1> QED BY <1>1, <1>2, <1>3, <1>4, <1>5, <1>6, <1>7 DEF Adopting

\* Recording the credentials: the entry becomes the login's own while nobody
\* is burdened, before the journal says so and before anything is replaced.
LEMMA RecordingKeeps == TypeInv /\ KeepInv /\ (Recording \/ RollBack) => KeepInv'
  <1> SUFFICES ASSUME TypeInv, KeepInv, Recording \/ RollBack PROVE KeepInv'
    OBVIOUS
  <1> USE DEF TypeInv, AtHand, ModesFit, KeepInv, UndoAhead, NotYetStaged, SlotOurs, AwaitWritten,
        Burdens, Concluded, At, Goto, Steady, keyring, Keep
  <1>1. CASE ReadDisplaced
    <2>1. journal' = journal /\ superseded' = superseded
      BY <1>1 DEF ReadDisplaced, disk
    <2> QED BY <1>1, <2>1, Still DEF ReadDisplaced
  <1>2. CASE StageDisplaced
    <2>1. /\ journal' = journal /\ record' = record /\ txn' = txn /\ mode' = mode
          /\ \/ pc' = "rollingBack" /\ superseded' = superseded
             \/ pc' = "markStaged" /\ superseded'.txn = txn
      BY <1>2 DEF StageDisplaced, disk
    <2>2. (\A l \in Logins : ~Burdened(l)) /\ ~record.staged /\ mode = "record"
      BY <1>2 DEF StageDisplaced
    <2>3. \A l \in Logins : ~Burdened(l)'
      BY <2>1, <2>2 DEF Burdened, MustUndo
    <2>4. StagedCredentialsKept'
      BY <2>3 DEF StagedCredentialsKept, Burdened
    <2>5. record.stage \in UndoStages
      BY <1>2 DEF StageDisplaced
    <2> QED BY <2>1, <2>2, <2>3, <2>4, <2>5
  <1>3. CASE MarkStaged
    <2> DEFINE rec == [record EXCEPT !.staged = TRUE]
    <2>1. txn \in Logins /\ rec \in Record /\ rec.staged /\ rec.stage = record.stage
      BY <1>3, Kinds DEF MarkStaged, TypeOK
    <2>2. Persist(rec, "saveKey", "rollingBack")
      BY <1>3 DEF MarkStaged
    <2> HIDE DEF rec
    <2>3. /\ \A l \in Logins : journal'[l] = journal[l] \/ (l = txn /\ journal'[l] = rec)
          /\ \/ pc' = "saveKey" /\ record' = rec
             \/ pc' = "rollingBack" /\ record' = record
      BY <2>1, <2>2, PersistEffect
    <2>4. /\ \A l \in Logins : ~Burdened(l)
          /\ ~record.staged /\ record.stage \in UndoStages /\ mode = "record"
          /\ superseded.txn = txn
          /\ superseded' = superseded /\ txn' = txn /\ mode' = mode
      BY <1>3 DEF MarkStaged
    <2>5. \A l \in Logins : Burdened(l)' => l = txn
      BY <2>3, <2>4 DEF Burdened, MustUndo
    <2>6. StagedCredentialsKept'
      BY <2>4, <2>5 DEF StagedCredentialsKept, Burdened
    <2> QED BY <2>1, <2>3, <2>4, <2>5, <2>6
  <1>4. CASE SaveKey
    <2>1. journal' = journal /\ superseded' = superseded
      BY <1>4 DEF SaveKey, disk
    <2> QED BY <1>4, <2>1, Still DEF SaveKey
  <1>5. CASE SaveSession
    <2>1. journal' = journal /\ superseded' = superseded
      BY <1>5 DEF SaveSession, disk
    <2> QED BY <1>5, <2>1, Still DEF SaveSession
  <1>6. CASE AdvanceWritten
    <2>1. /\ txn \in Logins /\ "CredentialsWritten" \in Stages \ UndoStages
          /\ superseded' = superseded /\ Advance("CredentialsWritten", "await", "rollingBack")
          /\ mode = "record" /\ mode' = "record" /\ txn' = txn
          /\ record.staged => superseded.txn = txn
          /\ record.stage \in UndoStages
      BY <1>6 DEF AdvanceWritten, Stages, UndoStages, OursStages
    <2>2. (\A l \in Logins : Burdened(l)' => Burdened(l)) /\ StagedCredentialsKept'
      BY <2>1, AdvanceBurdens
    <2>3. /\ record'.staged = record.staged /\ pc' \in {"await", "rollingBack"}
          /\ pc' = "await" => journal'[txn].stage = "CredentialsWritten"
      BY <2>1, AdvanceEffect
    <2>4. \A l \in Logins : Burdened(l) => l = txn
      BY <2>1
    <2> QED BY <2>1, <2>2, <2>3, <2>4
  <1>7. CASE SettleLogin
    <2>1. journal' = journal /\ superseded' = superseded
      BY <1>7 DEF SettleLogin, disk
    <2>2. ~Burdened(txn)
      BY <1>7 DEF SettleLogin, Burdened, MustUndo, UndoStages
    <2> QED BY <1>7, <2>1, <2>2, Still DEF SettleLogin
  <1>8. CASE RollingBack
    <2>1. /\ txn \in Logins /\ "NewStoreInstalled" \in Stages
          /\ superseded' = superseded /\ mode' = "rollback" /\ txn' = txn
          /\ record.staged => superseded.txn = txn
          /\ \A l \in Logins : Burdened(l) => l = txn
      BY <1>8 DEF RollingBack, Stages, UndoStages
    <2>2. CASE record.stage = "CredentialsWritten"
      <3>1. Advance("NewStoreInstalled", "restoreSession", "blocked")
        BY <1>8, <2>2 DEF RollingBack
      <3>2. (\A l \in Logins : Burdened(l)' => l = txn) /\ StagedCredentialsKept'
        BY <2>1, <3>1, AdvanceBurdens
      <3>3. record'.staged = record.staged /\ pc' \in {"restoreSession", "blocked"}
        BY <2>1, <3>1, AdvanceEffect
      <3> QED BY <2>1, <3>2, <3>3
    <2>3. CASE record.stage # "CredentialsWritten"
      <3>1. journal' = journal /\ record' = record /\ pc' = "restoreSession"
        BY <1>8, <2>3 DEF RollingBack
      <3> QED BY <2>1, <3>1, Still
    <2> QED BY <2>2, <2>3
  <1>9. CASE RestoreSession
    <2>1. journal' = journal /\ superseded' = superseded
      BY <1>9 DEF RestoreSession, disk
    <2> QED BY <1>9, <2>1, Still DEF RestoreSession
  <1>10. CASE RestoreKey
    <2>1. journal' = journal /\ superseded' = superseded
      BY <1>10 DEF RestoreKey, disk
    <2> QED BY <1>10, <2>1, Still DEF RestoreKey
  <1> QED BY <1>1, <1>2, <1>3, <1>4, <1>5, <1>6, <1>7, <1>8, <1>9, <1>10 DEF Recording, RollBack

\* Where a login goes that is left open or closed. Closing it takes that it is
\* not burdened any more; leaving it open blocks the sign-in.
LEMMA LeavingKeeps ==
    ASSUME TypeInv, KeepInv, txn \in Logins, superseded' = superseded, StagedCredentialsKept',
           pc \in {"unwound", "restored", "recordRolledBack", "markRolledBack", "clearSlot",
                   "forget", "plan", "settled"},
           \A l \in Logins : Burdened(l)' => Burdened(l),
           (LeftOpen /\ mode # "commit") \/ (Closed /\ \A l \in Logins : Burdened(l)' => l # txn),
           mode = "adopt" => record' = record
    PROVE  KeepInv'
  <1> USE DEF TypeInv, AtHand, ModesFit, KeepInv, UndoAhead, NotYetStaged, SlotOurs, AwaitWritten,
        Burdens, Concluded, At, Goto, Steady, keyring, Keep
  <1>1. mode \in {"adopt", "abandon", "rollback", "recover", "commit"}
    OBVIOUS
  <1>2. CASE mode = "adopt"
    BY <1>2 DEF LeftOpen, Closed
  <1>3. CASE mode = "abandon"
    <2>1. Release("idle")
      BY <1>3 DEF LeftOpen, Closed
    <2> QED BY <1>3, <2>1 DEF Release
  <1>4. CASE mode = "rollback"
    <2>1. CASE LeftOpen
      <3>1. Release("blocked")
        BY <1>4, <2>1 DEF LeftOpen
      <3> QED BY <3>1 DEF Release
    <2>2. CASE Closed /\ \A l \in Logins : Burdened(l)' => l # txn
      <3>1. Release("idle")
        BY <1>4, <2>2 DEF Closed
      <3>2. \A l \in Logins : ~Burdened(l)'
        BY <1>4, <2>2
      <3> QED BY <3>1, <3>2 DEF Release
    <2> QED BY <2>1, <2>2
  <1>5. CASE mode = "recover"
    <2>1. CASE LeftOpen
      <3>1. Release("recover") /\ blocked' = TRUE
        BY <1>5, <2>1 DEF LeftOpen
      <3> QED BY <3>1 DEF Release
    <2>2. CASE Closed /\ \A l \in Logins : Burdened(l)' => l # txn
      <3>1. Release("recover") /\ UNCHANGED <<todo, blocked>>
        BY <1>5, <2>2 DEF Closed
      <3>2. \A l \in Logins : Burdened(l)' => l \in todo \/ blocked
        BY <1>5, <2>2
      <3> QED BY <3>1, <3>2 DEF Release
    <2> QED BY <2>1, <2>2
  <1>6. CASE mode = "commit"
    <2>1. pc' = "running" /\ mode' = "none"
      BY <1>6 DEF Closed
    <2>2. \A l \in Logins : ~Burdened(l)'
      BY <1>6
    <2> QED BY <2>1, <2>2
  <1> QED BY <1>1, <1>2, <1>3, <1>4, <1>5, <1>6


\* Unwinding writes the record back only while the entry is the login's own.
LEMMA UnwindingKeeps == TypeInv /\ KeepInv /\ Unwinding => KeepInv'
  <1> SUFFICES ASSUME TypeInv, KeepInv, Unwinding PROVE KeepInv'
    OBVIOUS
  <1> USE DEF TypeInv, AtHand, ModesFit, KeepInv, UndoAhead, NotYetStaged, SlotOurs, AwaitWritten,
        Burdens, Concluded, At, Goto, Steady, keyring, Keep
  <1>1. CASE Unwind
    <2>1. journal' = journal /\ superseded' = superseded
      BY <1>1 DEF Unwind
    <2> QED BY <1>1, <2>1, Still DEF Unwind
  <1>2. CASE AdvanceUnwound
    <2>1. /\ txn \in Logins /\ "Prepared" \in Stages
          /\ superseded' = superseded /\ Advance("Prepared", "putBack", "unwound")
          /\ record.staged => superseded.txn = txn
          /\ mode \in {"adopt", "abandon", "rollback", "recover"} /\ mode' = mode
          /\ UNCHANGED <<txn, todo, blocked>>
      BY <1>2 DEF AdvanceUnwound, Stages, UndoStages
    <2>2. /\ \A l \in Logins : Burdened(l)' => Burdened(l) \/ (l = txn /\ record.staged)
          /\ StagedCredentialsKept'
      BY <2>1, AdvanceBurdens
    <2>3. record'.staged = record.staged /\ pc' \in {"putBack", "unwound"}
      BY <2>1, AdvanceEffect
    <2>4. CASE mode \in {"adopt", "abandon"}
      <3>1. \A l \in Logins : ~Burdened(l)'
        BY <2>2, <2>4
      <3> QED BY <2>1, <2>2, <2>3, <2>4, <3>1
    <2>5. CASE mode = "rollback"
      <3>1. \A l \in Logins : Burdened(l)' => l = txn
        BY <2>2, <2>5
      <3> QED BY <2>1, <2>2, <2>3, <2>5, <3>1
    <2>6. CASE mode = "recover"
      <3>1. \A l \in Logins : Burdened(l)' => l \in todo \/ blocked \/ l = txn
        BY <2>2, <2>6
      <3> QED BY <2>1, <2>2, <2>3, <2>6, <3>1
    <2> QED BY <2>1, <2>4, <2>5, <2>6
  <1>3. CASE PutBack
    <2>1. journal' = journal /\ superseded' = superseded
      BY <1>3 DEF PutBack
    <2> QED BY <1>3, <2>1, Still DEF PutBack
  <1>4. CASE DropPending
    <2>1. journal' = journal /\ superseded' = superseded
      BY <1>4 DEF DropPending
    <2> QED BY <1>4, <2>1, Still DEF DropPending
  <1>5. CASE Unwound
    <2>1. txn \in Logins /\ journal' = journal /\ superseded' = superseded
      BY <1>5 DEF Unwound, disk
    <2>2. CASE failed
      <3>1. LeftOpen /\ mode # "commit" /\ (mode = "adopt" => record' = record)
        BY <1>5, <2>2 DEF Unwound, LeftOpen
      <3> QED BY <1>5, <2>1, <3>1, Still, LeavingKeeps DEF Unwound
    <2>3. CASE ~failed
      <3>1. /\ pc' \in {"recordRolledBack", "markRolledBack", "restoreSession"}
            /\ pc' = "restoreSession" => superseded.txn = txn
            /\ UNCHANGED <<mode, txn, record, todo, blocked>> /\ pc = "unwound"
        BY <1>5, <2>3 DEF Unwound, Staged
      <3> QED BY <2>1, <3>1, Still
    <2> QED BY <2>2, <2>3
  <1>6. CASE Restored
    <2>1. txn \in Logins /\ journal' = journal /\ superseded' = superseded
      BY <1>6 DEF Restored, disk
    <2>2. CASE failed
      <3>1. LeftOpen /\ mode # "commit" /\ (mode = "adopt" => record' = record)
        BY <1>6, <2>2 DEF Restored, LeftOpen
      <3> QED BY <1>6, <2>1, <3>1, Still, LeavingKeeps DEF Restored
    <2>3. CASE ~failed
      BY <1>6, <2>1, <2>3, Still DEF Restored
    <2> QED BY <2>2, <2>3
  <1> QED BY <1>1, <1>2, <1>3, <1>4, <1>5, <1>6 DEF Unwinding

\* Concluding: the journal says that the login reached its end before the entry
\* is cleared, and the entry of another login is left alone.
LEMMA ConcludingKeeps == TypeInv /\ KeepInv /\ Concluding => KeepInv'
  <1> SUFFICES ASSUME TypeInv, KeepInv, Concluding PROVE KeepInv'
    OBVIOUS
  <1> USE DEF TypeInv, AtHand, ModesFit, KeepInv, UndoAhead, NotYetStaged, SlotOurs, AwaitWritten,
        Burdens, Concluded, At, Goto, Steady, keyring, Keep
  <1>0. \A l \in Logins : Burdened(l) => superseded.txn = l
    BY DEF StagedCredentialsKept, Burdened
  <1>1. CASE RecordRolledBack
    <2> DEFINE rec == [record EXCEPT !.stage = "RolledBack"]
    <2>1. /\ txn \in Logins /\ rec.stage = "RolledBack" /\ superseded' = superseded
          /\ journal \in [Logins -> Record]
      BY <1>1, Kinds DEF RecordRolledBack, TypeOK, Stages, TerminalStages
    <2>2. journal' = journal \/ journal' = [journal EXCEPT ![txn] = rec]
      BY <1>1 DEF RecordRolledBack
    <2> HIDE DEF rec
    <2>3. \A l \in Logins : ~Burdened(l)'
      <3>1. \A l \in Logins : ~Burdened(l)
        BY <1>1 DEF RecordRolledBack
      <3> QED BY <2>1, <2>2, <3>1 DEF Burdened, MustUndo, UndoStages
    <2>4. StagedCredentialsKept'
      BY <2>3 DEF StagedCredentialsKept, Burdened
    <2>5. \/ LeftOpen
          \/ Goto("forget") /\ Steady /\ UNCHANGED record
      BY <1>1 DEF RecordRolledBack
    <2>6. CASE LeftOpen
      <3>1. mode \in {"adopt", "abandon"}
        BY <1>1 DEF RecordRolledBack
      <3>2. mode = "adopt" => record' = record
        BY <2>6 DEF LeftOpen
      <3> QED BY <1>1, <2>1, <2>3, <2>4, <2>6, <3>1, <3>2, LeavingKeeps DEF RecordRolledBack
    <2>7. CASE Goto("forget") /\ Steady /\ UNCHANGED record
      BY <1>1, <2>1, <2>3, <2>4, <2>7 DEF RecordRolledBack
    <2> QED BY <2>5, <2>6, <2>7
  <1>2. CASE MarkRolledBack
    <2> DEFINE rec == [journal[txn] EXCEPT !.stage = "RolledBack"]
    <2>1. /\ txn \in Logins /\ rec.stage = "RolledBack" /\ superseded' = superseded
          /\ journal \in [Logins -> Record] /\ pc = "markRolledBack"
          /\ mode \in {"rollback", "recover"}
      BY <1>2, Kinds DEF MarkRolledBack, TypeOK, Stages, TerminalStages
    <2>2. \/ journal' = journal /\ LeftOpen
          \/ journal' = [journal EXCEPT ![txn] = rec] /\ LeftOpen
          \/ /\ journal' = [journal EXCEPT ![txn] = rec]
             /\ Goto("clearSlot") /\ Steady /\ UNCHANGED record
      BY <1>2 DEF MarkRolledBack
    <2> HIDE DEF rec
    <2>3. /\ \A l \in Logins : Burdened(l)' => Burdened(l)
          /\ journal' # journal => \A l \in Logins : Burdened(l)' => l # txn
      BY <2>1, <2>2 DEF Burdened, MustUndo, UndoStages
    <2>4. StagedCredentialsKept'
      BY <1>0, <2>1, <2>3 DEF StagedCredentialsKept, Burdened
    <2>5. CASE LeftOpen
      BY <2>1, <2>3, <2>4, <2>5, LeavingKeeps
    <2>6. CASE /\ journal' = [journal EXCEPT ![txn] = rec]
               /\ Goto("clearSlot") /\ Steady /\ UNCHANGED record
      <3>1. \A l \in Logins : Burdened(l)' => l # txn
        BY <2>1, <2>6 DEF Burdened, MustUndo, UndoStages
      <3> QED BY <2>1, <2>3, <2>4, <2>6, <3>1
    <2> QED BY <2>2, <2>5, <2>6
  <1>3. CASE ClearSlot
    <2>1. /\ txn \in Logins /\ journal' = journal /\ ~Burdened(txn)
          /\ superseded' \in {superseded, NoSlot}
          /\ superseded' # superseded => superseded.txn \in {txn, Corrupt}
      BY <1>3 DEF ClearSlot, disk
    <2>2. \A l \in Logins : Burdened(l)' <=> Burdened(l)
      BY <2>1 DEF Burdened, MustUndo
    <2>3. \A l \in Logins : Burdened(l) => superseded'.txn = l
      BY <1>0, <2>1, ConstantsAssumption
    <2>4. StagedCredentialsKept'
      BY <2>2, <2>3 DEF StagedCredentialsKept, Burdened
    <2>5. \/ Goto("forget") /\ Steady /\ UNCHANGED record
          \/ Closed /\ superseded' = superseded
      BY <1>3 DEF ClearSlot
    <2>6. CASE Goto("forget") /\ Steady /\ UNCHANGED record
      <3>1. pc' = "forget" /\ mode' = mode /\ mode \in {"rollback", "recover", "commit"}
        BY <1>3, <2>6 DEF ClearSlot
      <3> QED BY <1>3, <2>1, <2>2, <2>4, <2>6, <3>1
    <2>7. CASE Closed /\ superseded' = superseded
      <3>1. pc = "clearSlot" /\ mode # "adopt"
        BY <1>3 DEF ClearSlot
      <3> QED BY <2>1, <2>2, <2>4, <2>7, <3>1, LeavingKeeps
    <2> QED BY <2>5, <2>6, <2>7
  <1>4. CASE Forget
    <2>1. /\ txn \in Logins /\ pc = "forget" /\ ~Burdened(txn) /\ Closed
          /\ superseded' = superseded /\ journal \in [Logins -> Record]
          /\ journal' = journal \/ journal' = [journal EXCEPT ![txn] = NoRecord]
      BY <1>4 DEF Forget, TypeOK
    <2>2. \A l \in Logins : Burdened(l)' => Burdened(l) /\ l # txn
      BY <2>1 DEF Burdened, MustUndo, UndoStages, NoRecord
    <2>3. StagedCredentialsKept'
      BY <1>0, <2>1, <2>2 DEF StagedCredentialsKept, Burdened
    <2>4. mode = "adopt" => record' = record
      BY <2>1 DEF Closed
    <2> QED BY <2>1, <2>2, <2>3, <2>4, LeavingKeeps
  <1>5. CASE Scratch
    <2>1. journal' = journal /\ superseded' = superseded
      BY <1>5 DEF Scratch
    <2> QED BY <1>5, <2>1, Still DEF Scratch, Release
  <1>6. CASE PurgeAside
    <2>1. journal' = journal /\ superseded' = superseded
      BY <1>6 DEF PurgeAside
    <2> QED BY <1>6, <2>1, Still DEF PurgeAside
  <1>7. CASE AdvanceCommitted
    <2>1. /\ txn \in Logins /\ "Committed" \in Stages \ UndoStages
          /\ superseded' = superseded /\ Advance("Committed", "settled", "settled")
          /\ ~Burdened(txn) /\ mode \in {"commit", "recover"}
          /\ UNCHANGED <<mode, txn, todo, blocked>>
      BY <1>7 DEF AdvanceCommitted, Stages, UndoStages, TerminalStages
    <2>2. \A l \in Logins : Burdened(l)' => Burdened(l)
      <3>1. \A l \in Logins : \/ journal'[l] = journal[l]
                              \/ l = txn /\ journal'[l].stage = "Committed"
        BY <2>1, AdvanceEffect
      <3> QED BY <2>1, <3>1 DEF Burdened, MustUndo
    <2>3. StagedCredentialsKept'
      BY <1>0, <2>1, <2>2 DEF StagedCredentialsKept, Burdened
    <2>4. pc' = "settled"
      BY <2>1, AdvanceEffect
    <2> QED BY <2>1, <2>2, <2>3, <2>4
  <1>8. CASE Settled
    <2>1. /\ txn \in Logins /\ journal' = journal /\ superseded' = superseded
          /\ ~Burdened(txn) /\ pc = "settled"
      BY <1>8 DEF Settled, disk
    <2>2. CASE failed /\ mode = "recover"
      <3>1. Closed
        BY <1>8, <2>2 DEF Settled
      <3> QED BY <2>1, <2>2, <3>1, Still, LeavingKeeps
    <2>3. CASE ~(failed /\ mode = "recover")
      BY <1>8, <2>1, <2>3, Still DEF Settled
    <2> QED BY <2>2, <2>3
  <1> QED BY <1>1, <1>2, <1>3, <1>4, <1>5, <1>6, <1>7, <1>8 DEF Concluding

\* A start resolves every burdened login or blocks the sign-in.
LEMMA StartingKeeps == TypeInv /\ KeepInv /\ Starting => KeepInv'
  <1> SUFFICES ASSUME TypeInv, KeepInv, Starting PROVE KeepInv'
    OBVIOUS
  <1> USE DEF TypeInv, AtHand, ModesFit, KeepInv, UndoAhead, NotYetStaged, SlotOurs, AwaitWritten,
        Burdens, Concluded, At, Goto, Steady, keyring, Keep
  <1>1. CASE Start
    <2>1. journal' = journal /\ superseded' = superseded
      BY <1>1 DEF Start, disk
    <2>2. \A l \in Logins : Burdened(l) => Open(l)
      BY DEF Burdened, MustUndo, Open, UndoStages
    <2> QED BY <1>1, <2>1, <2>2, Still DEF Start
  <1>2. CASE Plan
    <2>1. /\ txn \in Logins /\ journal' = journal /\ superseded' = superseded
          /\ pc = "plan" /\ mode = "recover"
      BY <1>2 DEF Plan, disk
    <2>2. \/ LeftOpen
          \/ (Staged \/ ~record.staged) /\ Goto("unwind") /\ Steady /\ UNCHANGED record
      BY <1>2 DEF Plan
    <2>3. CASE LeftOpen
      BY <2>1, <2>3, Still, LeavingKeeps
    <2>4. CASE (Staged \/ ~record.staged) /\ Goto("unwind") /\ Steady /\ UNCHANGED record
      BY <2>1, <2>4, Still DEF Staged
    <2> QED BY <2>2, <2>3, <2>4
  <1>3. CASE Recovered
    <2>1. journal' = journal /\ superseded' = superseded
      BY <1>3 DEF Recovered, disk
    <2> QED BY <1>3, <2>1, Still DEF Recovered
  <1>4. CASE RestoreSaved
    <2>1. journal' = journal /\ superseded' = superseded
      BY <1>4 DEF RestoreSaved
    <2>2. /\ pc = "restore" /\ mode = "none" /\ mode' = "none" /\ record' = record
          /\ pc' \in {"running", "idle"}
      BY <1>4 DEF RestoreSaved
    <2> QED BY <2>1, <2>2, Still
  <1>5. CASE NothingSaved
    <2>1. journal' = journal /\ superseded' = superseded
      BY <1>5 DEF NothingSaved, disk
    <2> QED BY <1>5, <2>1, Still DEF NothingSaved
  <1>6. ASSUME NEW l \in Logins, Resolve(l) PROVE KeepInv'
    <2>1. /\ journal' = journal /\ superseded' = superseded /\ pc = "recover"
          /\ todo' = todo \ {l} /\ mode = "none"
      BY <1>6 DEF Resolve, disk
    <2>2. \/ /\ txn' = l /\ mode' = "recover" /\ record' = journal[l] /\ UNCHANGED blocked
             /\ pc' \in {"plan", "purgeAside", "clearSlot"}
             /\ pc' # "plan" => journal[l].stage \notin UndoStages
          \/ blocked' = TRUE /\ UNCHANGED <<pc, mode, txn, record>>
      BY <1>6 DEF Resolve, UndoStages
    <2>3. \A k \in Logins : Burdened(k) => k \in todo \/ blocked
      BY <2>1
    <2>4. CASE blocked' = TRUE /\ UNCHANGED <<pc, mode, txn, record>>
      BY <2>1, <2>4, Still
    <2>5. CASE /\ txn' = l /\ mode' = "recover" /\ record' = journal[l] /\ UNCHANGED blocked
               /\ pc' \in {"plan", "purgeAside", "clearSlot"}
               /\ pc' # "plan" => journal[l].stage \notin UndoStages
      <3>1. pc' # "plan" => ~Burdened(l)
        BY <2>5 DEF Burdened, MustUndo
      <3>2. pc' # "plan" => ~Burdened(txn)'
        BY <2>1, <2>5 DEF Burdened, MustUndo
      <3>3. \A k \in Logins : Burdened(k)' => k \in todo' \/ blocked' \/ k = txn'
        BY <2>1, <2>3, <2>5, Still
      <3> QED BY <2>1, <2>5, <3>2, <3>3, Still
    <2> QED BY <2>2, <2>4, <2>5
  <1> QED BY <1>1, <1>2, <1>3, <1>4, <1>5, <1>6 DEF Starting

\* Signing out and leaving write neither a journal nor the staging entry.
LEMMA EndingKeeps == TypeInv /\ KeepInv /\ (Erasing \/ Stopping) => KeepInv'
  <1> SUFFICES ASSUME TypeInv, KeepInv, Erasing \/ Stopping PROVE KeepInv'
    OBVIOUS
  <1> USE DEF TypeInv, AtHand, ModesFit, KeepInv, UndoAhead, NotYetStaged, SlotOurs, AwaitWritten,
        Burdens, Concluded, At, Goto, Steady, keyring, Keep
  <1>1. CASE Logout
    <2>1. journal' = journal /\ superseded' = superseded
      BY <1>1 DEF Logout, disk
    <2> QED BY <1>1, <2>1, Still DEF Logout
  <1>2. CASE EraseKey
    <2>1. journal' = journal /\ superseded' = superseded
      BY <1>2 DEF EraseKey, disk
    <2> QED BY <1>2, <2>1, Still DEF EraseKey
  <1>3. CASE EraseSession
    <2>1. journal' = journal /\ superseded' = superseded
      BY <1>3 DEF EraseSession, disk
    <2> QED BY <1>3, <2>1, Still DEF EraseSession
  <1>4. CASE EraseStore
    <2>1. journal' = journal /\ superseded' = superseded
      BY <1>4 DEF EraseStore
    <2> QED BY <1>4, <2>1, Still DEF EraseStore, Release
  <1>5. CASE Stopping
    <2>1. journal' = journal /\ superseded' = superseded /\ pc' = "off" /\ mode' = "none"
      BY <1>5 DEF Stopping, Quit, Crash, CrashMidPurge, Forgotten, disk
    <2> QED BY <2>1, Still
  <1> QED BY <1>1, <1>2, <1>3, <1>4, <1>5 DEF Erasing

\* The credentials a login displaced are kept until the login reached its end:
\* an undo that needs them always finds them, for any number of logins that
\* fail, die and are retried (recover::credential_plan never gives up on a
\* staging entry another login took).
THEOREM DisplacedCredentialsKept == Spec => []StagedCredentialsKept
  <1>1. Init => TypeInv /\ KeepInv
    <2>1. ASSUME Init PROVE \A l \in Logins : ~Burdened(l)
      BY <2>1 DEF Init, Burdened, NoRecord
    <2> QED BY <2>1, TypeInit DEF Init, KeepInv, StagedCredentialsKept, Burdened, UndoAhead,
          NotYetStaged, SlotOurs, AwaitWritten, Burdens, Concluded, NoRecord
  <1>2. TypeInv /\ KeepInv /\ [Next]_vars => TypeInv' /\ KeepInv'
    <2>1. CASE Next
      BY <2>1, TypeNext, AdoptingKeeps, RecordingKeeps, UnwindingKeeps, ConcludingKeeps,
         StartingKeeps, EndingKeeps DEF Next, Step
    <2>2. CASE UNCHANGED vars
      <3>1. ASSUME KeepInv PROVE KeepInv'
        BY <2>2, <3>1 DEF vars, disk, keyring, process, environment, KeepInv,
           StagedCredentialsKept, Burdened, MustUndo, UndoAhead, NotYetStaged, SlotOurs,
           AwaitWritten, Burdens, Concluded
      <3> QED BY <2>2, <3>1, TypeNext
    <2> QED BY <2>1, <2>2
  <1>3. KeepInv => StagedCredentialsKept
    BY DEF KeepInv
  <1> QED BY <1>1, <1>2, <1>3, PTL DEF Spec

-----------------------------------------------------------------------------
(* Dying alone leaves nothing behind. While nothing failed there is at most   *)
(* one login that is not over: the one at hand, or the one that a process     *)
(* that died left to the next start.                                          *)

\* The steps that work on a login, and those of which none is left.
Resting == {"restore", "idle", "running", "eraseKey", "eraseSession", "eraseStore"}
Working == Steps \ (Resting \cup {"off", "recover", "blocked"})

\* What is on the disk of a login, and what it has at hand, is of one that was tried.
TriedInv ==
    /\ \A l \in Logins : Open(l) \/ aside[l] # Nothing => l \in tried
    /\ todo \subseteq tried
    /\ pc \in Working => txn \in tried

\* A login that is over, and one whose displaced store can be put back.
Over(l) == ~Open(l) /\ superseded.txn # l
HasRoom(l) ==
    journal[l].stage = "Prepared" /\ aside[l] # Nothing => target[AccountOf[l]] = Nothing

\* The stages of the journal at each step.
StagesAt(step) ==
    CASE step \in {"holdAside", "advanceHeldAside", "putBack", "dropPending", "unwound",
                   "restored", "recordRolledBack", "markRolledBack"} -> {"Prepared"}
      [] step \in {"install", "advanceInstalled"} -> {"OldStoreHeldAside"}
      [] step \in {"openSession", "readDisplaced", "stageDisplaced", "markStaged", "saveKey",
                   "saveSession", "advanceWritten"} -> {"NewStoreInstalled"}
      [] step \in {"await", "purgeAside", "advanceCommitted"} -> {"CredentialsWritten"}
      [] step = "rollingBack" -> {"NewStoreInstalled", "CredentialsWritten"}
      [] step \in {"plan", "unwind", "advanceUnwound"} -> UndoStages
      [] step \in {"restoreSession", "restoreKey"} ->
             IF mode = "recover" THEN {"Prepared"} ELSE UndoStages
      [] step = "settled" -> {"Committed"}
      [] step \in {"clearSlot", "forget"} -> TerminalStages
      [] OTHER -> {"Closed"}

\* The disk, the keyring and the record agree with the step of the login at hand.
Fits ==
    /\ journal[txn].stage \in StagesAt(pc)
    /\ pc \notin {"open", "scratch", "clearSlot", "forget"} => record = journal[txn]
    /\ superseded.txn = txn => Open(txn)
    /\ pc = "forget" \/ mode \in {"adopt", "abandon"} => superseded.txn # txn
    /\ mode = "recover" => todo = {}
    /\ HasRoom(txn)
    /\ pc \in {"open", "holdAside"} => aside[txn] = Nothing
    /\ pc = "advanceUnwound" => target[Account] = Nothing

AtWork == pc \in Working => Fits /\ \A l \in Logins : l # txn => Over(l)
AtRest == pc \in Resting => \A l \in Logins : Over(l)
LeftOver ==
    pc \in {"off", "recover"} =>
        /\ \A k, l \in Logins : Open(k) /\ Open(l) => k = l
        /\ \A l \in Logins : superseded.txn = l => Open(l)
        /\ \A l \in Logins : HasRoom(l)
        /\ pc = "recover" => \A l \in Logins : Open(l) <=> l \in todo
Untroubled == pc # "blocked" /\ ~blocked /\ ~failed

CleanInv == Untroubled /\ AtWork /\ AtRest /\ LeftOver
CrashInv == TriedInv /\ (faults = 0 => CleanInv)


\* The steps are of three kinds.
LEMMA StepKinds ==
    /\ Working \cap Resting = {}
    /\ "off" \notin Working \cup Resting /\ "recover" \notin Working \cup Resting
    /\ "blocked" \notin Working
    /\ \A step \in Steps : step \in Working \cup Resting \cup {"off", "recover", "blocked"}
  BY DEF Working, Resting, Steps

\* While nothing failed, a write of the journal took effect.
LEMMA QuietPersist ==
    ASSUME TypeOK, txn \in Logins, NEW rec \in Record, NEW onOk, NEW onError,
           Persist(rec, onOk, onError), faults' = 0
    PROVE  /\ faults = 0 /\ pc' = onOk /\ record' = rec /\ journal'[txn] = rec
           /\ \A l \in Logins : l # txn => journal'[l] = journal[l]
  <1>1. faults \in Nat /\ journal \in [Logins -> Record]
    BY ConstantsAssumption DEF TypeOK
  <1>2. \A kind : ~Fault(kind)
    BY <1>1 DEF Fault
  <1>3. journal' = [journal EXCEPT ![txn] = rec] /\ record' = rec /\ pc' = onOk /\ faults' = faults
    BY <1>2 DEF Persist, Goto, NoFault
  <1> QED BY <1>1, <1>3

\* Likewise when the record is the journal's.
LEMMA QuietAdvance ==
    ASSUME TypeOK, txn \in Logins, NEW stage \in Stages, NEW onOk, NEW onError,
           Advance(stage, onOk, onError), record = journal[txn], faults' = 0
    PROVE  /\ faults = 0 /\ pc' = onOk /\ record' = journal'[txn] /\ journal'[txn].stage = stage
           /\ \A l \in Logins : l # txn => journal'[l] = journal[l]
  <1>1. CASE record.stage = stage
    BY <1>1 DEF Advance, Goto, NoFault
  <1>2. CASE record.stage # stage
    <2> DEFINE rec == [record EXCEPT !.stage = stage]
    <2>1. rec \in Record /\ rec.stage = stage
      BY Kinds DEF TypeOK
    <2>2. Persist(rec, onOk, onError)
      BY <1>2 DEF Advance
    <2> HIDE DEF rec
    <2> QED BY <2>1, <2>2, QuietPersist
  <1> QED BY <1>1, <1>2

\* A directory is moved onto none, and deleted.
LEMMA QuietMove ==
    ASSUME NEW from, NEW to, from = Nothing \/ to = Nothing
    PROVE  \A m \in Moves(from, to) : ~(m[3] /\ to = Nothing) => ~m[3] /\ m[1] = Nothing
  <1> SUFFICES ASSUME NEW m \in Moves(from, to), ~(m[3] /\ to = Nothing)
               PROVE  ~m[3] /\ m[1] = Nothing
    OBVIOUS
  <1>1. \/ m = <<Nothing, to, FALSE>> /\ from = Nothing
        \/ m = <<from, to, TRUE>> /\ from # Nothing
        \/ m = <<Nothing, from, TRUE>> /\ to = Nothing /\ from # Nothing
        \/ m = <<Nothing, from, FALSE>> /\ to = Nothing /\ from # Nothing
    BY DEF Moves
  <1>2. CASE m = <<Nothing, to, FALSE>> /\ from = Nothing
    BY <1>2
  <1>3. CASE m = <<from, to, TRUE>> /\ from # Nothing
    BY <1>3
  <1>4. CASE m = <<Nothing, from, TRUE>> /\ to = Nothing
    BY <1>4
  <1>5. CASE m = <<Nothing, from, FALSE>> /\ from # Nothing
    BY <1>5
  <1> QED BY <1>1, <1>2, <1>3, <1>4, <1>5

\* What was purged without a failure is gone.
LEMMA QuietPurge ==
    ASSUME NEW store
    PROVE  \A p \in Purge(store) : ~p[2] => p[1] = Nothing
  <1> SUFFICES ASSUME NEW p \in Purge(store), ~p[2] PROVE p[1] = Nothing
    OBVIOUS
  <1>1. p = <<Nothing, FALSE>> \/ p = <<store, TRUE>> \/ p = <<Debris, TRUE>>
    BY DEF Purge
  <1>2. CASE p = <<Nothing, FALSE>>
    BY <1>2
  <1>3. CASE p = <<store, TRUE>>
    BY <1>3
  <1>4. CASE p = <<Debris, TRUE>>
    BY <1>4
  <1> QED BY <1>1, <1>2, <1>3, <1>4

\* A step that goes on with the login at hand, or leaves it, says nothing of others.
OthersStay ==
    /\ \A l \in Logins : l # txn => journal'[l].stage = journal[l].stage
    /\ superseded'.txn \in {superseded.txn, txn, Nobody}

\* A step that goes on with the login at hand keeps the invariant when its own part does.
LEMMA WorkGoesOn ==
    ASSUME TypeInv, CleanInv, pc \in Working, pc' \in Working, txn' = txn, OthersStay,
           Fits', ~failed', ~blocked'
    PROVE  CleanInv'
  <1>1. \A l \in Logins : l # txn' => Over(l)'
    <2> SUFFICES ASSUME NEW l \in Logins, l # txn' PROVE Over(l)'
      OBVIOUS
    <2>1. Over(l)
      BY DEF CleanInv, AtWork
    <2> QED BY <2>1, ConstantsAssumption DEF Over, Open, OthersStay
  <1>2. pc' \notin Resting \cup {"off", "recover", "blocked"}
    BY StepKinds
  <1> QED BY <1>1, <1>2 DEF CleanInv, Untroubled, AtWork, AtRest, LeftOver

\* So does one that leaves it once its journal is closed and its staging entry cleared.
LEMMA WorkEnds ==
    ASSUME TypeInv, CleanInv, pc \in Working, pc' \in Resting \cup {"recover"}, OthersStay,
           journal'[txn].stage = "Closed", superseded'.txn # txn, ~failed', ~blocked',
           pc' = "recover" => todo' = {}
    PROVE  CleanInv'
  <1>1. \A l \in Logins : Over(l)'
    <2> SUFFICES ASSUME NEW l \in Logins PROVE Over(l)'
      OBVIOUS
    <2>1. CASE l = txn
      BY <2>1 DEF Over, Open
    <2>2. CASE l # txn
      <3>1. Over(l)
        BY <2>2 DEF CleanInv, AtWork
      <3> QED BY <2>2, <3>1, ConstantsAssumption DEF Over, Open, OthersStay
    <2> QED BY <2>1, <2>2
  <1>2. pc' \notin Working /\ pc' # "off" /\ pc' # "blocked"
    BY StepKinds DEF Resting
  <1>3. \A l \in Logins : ~Open(l)' /\ superseded'.txn # l
    BY <1>1 DEF Over
  <1>4. \A l \in Logins : HasRoom(l)'
    BY <1>3 DEF HasRoom, Open
  <1> QED BY <1>1, <1>2, <1>3, <1>4 DEF CleanInv, Untroubled, AtWork, AtRest, LeftOver


\* The steps write the disk of the login at hand, and take one that was tried.
LEMMA TriedMoves ==
    ASSUME TypeInv, Next
    PROVE  /\ \A l \in Logins : /\ Open(l)' => Open(l) \/ (l = txn /\ pc \in Working)
                                /\ aside'[l] # Nothing =>
                                      aside[l] # Nothing \/ (l = txn /\ pc \in Working)
           /\ tried \subseteq tried' /\ todo' \subseteq todo \cup {l \in Logins : Open(l)}
           /\ pc' \in Working => \/ pc \in Working /\ txn' = txn
                                 \/ txn' \in tried' \cup todo
  <1> DEFINE Moves1 ==
        /\ \A l \in Logins : /\ Open(l)' => Open(l) \/ (l = txn /\ pc \in Working)
                             /\ aside'[l] # Nothing =>
                                   aside[l] # Nothing \/ (l = txn /\ pc \in Working)
        /\ tried \subseteq tried' /\ todo' \subseteq todo \cup {l \in Logins : Open(l)}
        /\ pc' \in Working => \/ pc \in Working /\ txn' = txn
                              \/ txn' \in tried' \cup todo
  <1>0. /\ journal \in [Logins -> Record] /\ aside \in [Logins -> Stores] /\ txn \in Logins \cup {Nobody}
        /\ pc \in Working => txn \in Logins
    BY DEF TypeInv, TypeOK, AtHand, Working, Resting
  <1> SUFFICES Moves1
    OBVIOUS
  <1> USE DEF Open, At, Goto, Steady, Without, NoRecord, Working, Resting, Steps
  <1>1. ASSUME NEW l \in Logins, BeginLogin(l) PROVE Moves1
    BY <1>0, <1>1 DEF BeginLogin
  <1>2. CASE OpenJournal \/ HoldAside \/ AdvanceHeldAside \/ Install \/ AdvanceInstalled \/ OpenSession
    BY <1>0, <1>2 DEF OpenJournal, HoldAside, AdvanceHeldAside, Install, AdvanceInstalled,
       OpenSession,
       Persist, Advance, disk, environment
  <1>3. CASE Recording \/ RollBack
    BY <1>0, <1>3 DEF Recording, RollBack, ReadDisplaced, StageDisplaced, MarkStaged, SaveKey,
       SaveSession, AdvanceWritten, SettleLogin, RollingBack, RestoreSession, RestoreKey,
       Persist, Advance, Keep, disk, environment
  <1>4. CASE Unwind \/ AdvanceUnwound \/ PutBack \/ DropPending
    BY <1>0, <1>4 DEF Unwind, AdvanceUnwound, PutBack, DropPending, Persist, Advance
  <1>5. CASE Unwound \/ Restored \/ Settled \/ Scratch
    BY <1>0, <1>5 DEF Unwound, Restored, Settled, Scratch, LeftOpen, Closed, Release, disk,
       TypeInv, ModesFit
  <1>6. CASE RecordRolledBack \/ MarkRolledBack
    BY <1>0, <1>6 DEF RecordRolledBack, MarkRolledBack, LeftOpen, Closed, Release, TypeInv, ModesFit
  <1>7. CASE ClearSlot \/ Forget
    BY <1>0, <1>7 DEF ClearSlot, Forget, LeftOpen, Closed, Release, disk, TypeInv, ModesFit
  <1>8. CASE PurgeAside \/ AdvanceCommitted
    BY <1>0, <1>8 DEF PurgeAside, AdvanceCommitted, Persist, Advance
  <1>9. ASSUME NEW l \in Logins, Resolve(l) PROVE Moves1
    BY <1>0, <1>9 DEF Resolve, disk
  <1>10. CASE Plan
    BY <1>0, <1>10 DEF Plan, LeftOpen, Release, disk, TypeInv, ModesFit
  <1>11. CASE Start \/ Recovered \/ RestoreSaved \/ NothingSaved
    BY <1>0, <1>11 DEF Start, Recovered, RestoreSaved, NothingSaved, disk, environment
  <1>12. CASE Erasing
    BY <1>0, <1>12 DEF Erasing, Logout, EraseKey, EraseSession, EraseStore, Release, Keep, disk,
       environment
  <1>13. CASE Stopping
    BY <1>0, <1>13 DEF Stopping, Quit, Crash, CrashMidPurge, Forgotten, disk
  <1> QED BY <1>1, <1>2, <1>3, <1>4, <1>5, <1>6, <1>7, <1>8, <1>9, <1>10, <1>11, <1>12, <1>13
       DEF Next, Step, Adopting, Unwinding, Concluding, Starting

\* Whatever is tried stays so.
LEMMA TriedNext == TypeInv /\ TriedInv /\ [Next]_vars => TriedInv'
  <1> SUFFICES ASSUME TypeInv, TriedInv, [Next]_vars PROVE TriedInv'
    OBVIOUS
  <1>1. CASE Next
    <2>1. /\ \A l \in Logins : (Open(l) \/ aside[l] # Nothing)' => l \in tried'
          /\ todo' \subseteq tried' /\ tried \subseteq tried'
      BY <1>1, TriedMoves DEF TriedInv
    <2>2. pc' \in Working => txn' \in tried'
      BY <1>1, TriedMoves DEF TriedInv
    <2> QED BY <2>1, <2>2 DEF TriedInv
  <1>2. CASE UNCHANGED vars
    BY <1>2 DEF TriedInv, vars, disk, keyring, process, environment, Open
  <1> QED BY <1>1, <1>2


\* What is so while a login is at hand.
LEMMA AtHandFacts ==
    ASSUME TypeInv, CleanInv, pc \in Working
    PROVE  /\ txn \in Logins /\ journal[txn] \in Record /\ record \in Record
           /\ Fits /\ ~failed /\ ~blocked /\ faults \in Nat
           /\ superseded.txn \notin Logins \/ superseded.txn = txn
           /\ target \in [Accounts -> Stores] /\ Account \in Accounts
           /\ aside \in [Logins -> Stores] /\ journal \in [Logins -> Record]
  <1>1. txn \in Logins
    BY DEF TypeInv, AtHand, Working, Resting
  <1>2. \A l \in Logins : l # txn => superseded.txn # l
    BY DEF CleanInv, AtWork, Over
  <1>3. Account \in Accounts
    BY <1>1, ConstantsAssumption DEF Account
  <1> QED BY <1>1, <1>2, <1>3, ConstantsAssumption DEF TypeInv, TypeOK, CleanInv, AtWork, Untroubled

\* Making the new store, while nothing fails.
LEMMA AdoptingClean ==
    ASSUME TypeInv, TriedInv, CleanInv, Adopting, faults' = 0
    PROVE  CleanInv'
  <1> USE DEF At, Goto, Steady, keyring
  <1>0. \A kind : ~Fault(kind)
    BY ConstantsAssumption DEF TypeInv, TypeOK, Fault
  <1>1. ASSUME NEW l \in Logins, BeginLogin(l) PROVE CleanInv'
    <2>1. /\ pc = "idle" /\ pc' = "open" /\ txn' = l /\ mode' = "adopt" /\ l \notin tried
          /\ UNCHANGED <<journal, target, superseded, blocked>> /\ failed' = FALSE
      BY <1>1 DEF BeginLogin
    <2>2. PICK gone \in Sweepable : aside' = Without(aside, gone)
      BY <1>1 DEF BeginLogin
    <2>3. \A k \in Logins : Over(k)
      BY <2>1 DEF CleanInv, AtRest, Resting
    <2>4. aside'[l] = Nothing
      BY <2>1, <2>2 DEF Without, TriedInv
    <2>5. Fits'
      BY <2>1, <2>3, <2>4 DEF Fits, StagesAt, HasRoom, Over, Open
    <2>6. \A k \in Logins : Over(k)'
      BY <2>1, <2>3 DEF Over, Open
    <2>7. pc' \notin Resting \cup {"off", "recover", "blocked"}
      BY <2>1 DEF Resting
    <2>8. ~blocked
      BY DEF CleanInv, Untroubled
    <2> QED BY <2>1, <2>5, <2>6, <2>7, <2>8 DEF CleanInv, AtWork, AtRest, LeftOver, Untroubled
  <1>2. CASE OpenJournal
    <2> DEFINE rec == [stage |-> "Prepared", staged |-> FALSE]
    <2>1. pc = "open" /\ pc \in Working /\ UNCHANGED <<txn, mode, target, aside, superseded, failed, todo, blocked>>
      BY <1>2 DEF OpenJournal, Working, Resting, Steps
    <2>2. txn \in Logins /\ Fits /\ ~failed /\ ~blocked /\ rec \in Record /\ rec.stage = "Prepared"
      BY <2>1, AtHandFacts DEF Record, Stages, UndoStages
    <2>3. Persist(rec, "holdAside", "scratch")
      BY <1>2 DEF OpenJournal
    <2> HIDE DEF rec
    <2>4. /\ pc' = "holdAside" /\ record' = rec /\ journal'[txn] = rec
          /\ \A l \in Logins : l # txn => journal'[l] = journal[l]
      BY <2>2, <2>3, QuietPersist DEF TypeInv
    <2>5. Fits'
      BY <2>1, <2>2, <2>4 DEF Fits, StagesAt, HasRoom, Open
    <2> QED BY <2>1, <2>2, <2>4, <2>5, WorkGoesOn DEF OthersStay, Working, Resting, Steps
  <1>3. CASE HoldAside
    <2>1. /\ pc = "holdAside" /\ pc \in Working
          /\ UNCHANGED <<txn, mode, journal, record, superseded, failed, todo, blocked>>
      BY <1>3 DEF HoldAside, Working, Resting, Steps
    <2>2. /\ txn \in Logins /\ Fits /\ ~failed /\ ~blocked /\ aside[txn] = Nothing
          /\ target \in [Accounts -> Stores] /\ Account \in Accounts
      BY <2>1, AtHandFacts DEF Fits
    <2>3. PICK m \in Moves(target[Account], aside[txn]) :
              /\ target' = [target EXCEPT ![Account] = m[1]]
              /\ MoveFailure(aside[txn], m[3])
              /\ pc' = IF m[3] THEN "unwind" ELSE "advanceHeldAside"
      BY <1>3 DEF HoldAside
    <2>4. ~m[3] /\ m[1] = Nothing
      <3>1. ~(m[3] /\ aside[txn] = Nothing)
        BY <1>0, <2>3 DEF MoveFailure
      <3> QED BY <2>2, <2>3, <3>1, QuietMove
    <2>5. pc' = "advanceHeldAside" /\ target'[Account] = Nothing
      BY <2>2, <2>3, <2>4
    <2>6. Fits'
      BY <2>1, <2>2, <2>5 DEF Fits, StagesAt, HasRoom, Open, Account
    <2> QED BY <2>1, <2>2, <2>5, <2>6, WorkGoesOn DEF OthersStay, Working, Resting, Steps
  <1>4. CASE AdvanceHeldAside
    <2>1. /\ pc = "advanceHeldAside" /\ pc \in Working
          /\ UNCHANGED <<txn, mode, superseded, failed, todo, blocked>>
          /\ Advance("OldStoreHeldAside", "install", "unwind")
      BY <1>4 DEF AdvanceHeldAside, Working, Resting, Steps
    <2>2. txn \in Logins /\ Fits /\ ~failed /\ ~blocked /\ record = journal[txn]
      BY <2>1, AtHandFacts DEF Fits
    <2>3. /\ pc' = "install" /\ record' = journal'[txn] /\ journal'[txn].stage = "OldStoreHeldAside"
          /\ \A l \in Logins : l # txn => journal'[l] = journal[l]
      BY <2>1, <2>2, QuietAdvance DEF TypeInv, Stages, UndoStages
    <2>4. Fits'
      BY <2>1, <2>2, <2>3 DEF Fits, StagesAt, HasRoom, Open
    <2> QED BY <2>1, <2>2, <2>3, <2>4, WorkGoesOn DEF OthersStay, Working, Resting, Steps
  <1>5. CASE Install
    <2>1. /\ pc = "install" /\ pc \in Working /\ pc' \in {"advanceInstalled", "unwind"}
          /\ UNCHANGED <<txn, mode, journal, record, superseded, failed, todo, blocked>>
      BY <1>5 DEF Install, Working, Resting, Steps
    <2>2. txn \in Logins /\ Fits /\ ~failed /\ ~blocked /\ journal[txn].stage = "OldStoreHeldAside"
      BY <2>1, AtHandFacts DEF Fits, StagesAt
    <2>3. Fits'
      BY <2>1, <2>2 DEF Fits, StagesAt, UndoStages, HasRoom, Open
    <2> QED BY <2>1, <2>2, <2>3, WorkGoesOn DEF OthersStay, Working, Resting, Steps
  <1>6. CASE AdvanceInstalled
    <2>1. /\ pc = "advanceInstalled" /\ pc \in Working
          /\ UNCHANGED <<txn, mode, superseded, failed, todo, blocked>>
          /\ Advance("NewStoreInstalled", "openSession", "unwind")
      BY <1>6 DEF AdvanceInstalled, Working, Resting, Steps
    <2>2. txn \in Logins /\ Fits /\ ~failed /\ ~blocked /\ record = journal[txn]
      BY <2>1, AtHandFacts DEF Fits
    <2>3. /\ pc' = "openSession" /\ record' = journal'[txn] /\ journal'[txn].stage = "NewStoreInstalled"
          /\ \A l \in Logins : l # txn => journal'[l] = journal[l]
      BY <2>1, <2>2, QuietAdvance DEF TypeInv, Stages, UndoStages
    <2>4. Fits'
      BY <2>1, <2>2, <2>3 DEF Fits, StagesAt, HasRoom, Open
    <2> QED BY <2>1, <2>2, <2>3, <2>4, WorkGoesOn DEF OthersStay, Working, Resting, Steps
  <1>7. CASE OpenSession
    <2>1. /\ pc = "openSession" /\ pc \in Working /\ mode = "adopt"
          /\ \/ mode' = "record" /\ pc' = "readDisplaced"
             \/ mode' = "abandon" /\ pc' = "unwind"
          /\ UNCHANGED <<txn, journal, record, superseded, failed, todo, blocked>>
      BY <1>7 DEF OpenSession, Working, Resting, Steps, disk, TypeInv, ModesFit
    <2>2. txn \in Logins /\ Fits /\ ~failed /\ ~blocked /\ journal[txn].stage = "NewStoreInstalled"
      BY <2>1, AtHandFacts DEF Fits, StagesAt
    <2>3. Fits'
      BY <2>1, <2>2 DEF Fits, StagesAt, UndoStages, HasRoom, Open
    <2> QED BY <2>1, <2>2, <2>3, WorkGoesOn DEF OthersStay, Working, Resting, Steps
  <1> QED BY <1>1, <1>2, <1>3, <1>4, <1>5, <1>6, <1>7 DEF Adopting


\* Writing the credentials and undoing a login, while nothing fails.
LEMMA RecordingClean ==
    ASSUME TypeInv, CleanInv, Recording \/ RollBack, faults' = 0
    PROVE  CleanInv'
  <1> USE DEF At, Goto, Steady, keyring
  <1>0. \A kind : ~Fault(kind)
    BY ConstantsAssumption DEF TypeInv, TypeOK, Fault
  <1>w. pc \in Working
    BY DEF Recording, RollBack, ReadDisplaced, StageDisplaced, MarkStaged, SaveKey, SaveSession,
       AdvanceWritten, SettleLogin, RollingBack, RestoreSession, RestoreKey, Working, Resting, Steps
  <1>f. /\ txn \in Logins /\ Fits /\ ~failed /\ ~blocked /\ record \in Record
        /\ pc \notin {"open", "scratch", "clearSlot", "forget"} => record = journal[txn]
    BY <1>w, AtHandFacts DEF Fits
  <1>1. CASE ReadDisplaced \/ SaveKey \/ SaveSession
    <2>1. /\ \/ pc = "readDisplaced" /\ pc' = "stageDisplaced"
             \/ pc = "saveKey" /\ pc' = "saveSession"
             \/ pc = "saveSession" /\ pc' = "advanceWritten"
          /\ UNCHANGED <<txn, mode, journal, target, aside, record, superseded, failed, todo, blocked>>
      BY <1>0, <1>1 DEF ReadDisplaced, SaveKey, SaveSession, Keep, disk
    <2>2. Fits'
      BY <1>f, <2>1 DEF Fits, StagesAt, HasRoom, Open
    <2> QED BY <1>w, <1>f, <2>1, <2>2, WorkGoesOn DEF OthersStay, Working, Resting, Steps
  <1>2. CASE StageDisplaced
    <2>1. /\ pc = "stageDisplaced" /\ pc' = "markStaged" /\ mode = "record" /\ superseded'.txn = txn
          /\ UNCHANGED <<txn, mode, journal, target, aside, record, failed, todo, blocked>>
      BY <1>0, <1>2 DEF StageDisplaced, Keep, disk, TypeInv, ModesFit
    <2>2. Fits'
      BY <1>f, <2>1 DEF Fits, StagesAt, HasRoom, Open
    <2> QED BY <1>w, <1>f, <2>1, <2>2, WorkGoesOn DEF OthersStay, Working, Resting, Steps
  <1>3. CASE MarkStaged
    <2> DEFINE rec == [record EXCEPT !.staged = TRUE]
    <2>1. /\ pc = "markStaged" /\ UNCHANGED <<txn, mode, target, aside, superseded, failed, todo, blocked>>
          /\ rec \in Record /\ rec.stage = record.stage
      BY <1>3, <1>f, Kinds DEF MarkStaged
    <2>2. Persist(rec, "saveKey", "rollingBack")
      BY <1>3 DEF MarkStaged
    <2> HIDE DEF rec
    <2>3. /\ pc' = "saveKey" /\ record' = rec /\ journal'[txn] = rec
          /\ \A l \in Logins : l # txn => journal'[l] = journal[l]
      BY <1>f, <2>1, <2>2, QuietPersist DEF TypeInv
    <2>4. journal[txn].stage = "NewStoreInstalled" /\ journal'[txn].stage = "NewStoreInstalled"
      BY <1>f, <2>1, <2>3 DEF Fits, StagesAt
    <2>5. Fits'
      BY <1>f, <2>1, <2>3, <2>4 DEF Fits, StagesAt, HasRoom, Open
    <2> QED BY <1>w, <1>f, <2>1, <2>3, <2>5, WorkGoesOn DEF OthersStay, Working, Resting, Steps
  <1>4. CASE AdvanceWritten
    <2>1. /\ pc = "advanceWritten" /\ Advance("CredentialsWritten", "await", "rollingBack")
          /\ UNCHANGED <<txn, mode, target, aside, superseded, failed, todo, blocked>>
      BY <1>4 DEF AdvanceWritten
    <2>2. /\ pc' = "await" /\ record' = journal'[txn] /\ journal'[txn].stage = "CredentialsWritten"
          /\ \A l \in Logins : l # txn => journal'[l] = journal[l]
      BY <1>f, <2>1, QuietAdvance DEF TypeInv, Stages, OursStages
    <2>3. Fits'
      BY <1>f, <2>1, <2>2 DEF Fits, StagesAt, HasRoom, Open
    <2> QED BY <1>w, <1>f, <2>1, <2>2, <2>3, WorkGoesOn DEF OthersStay, Working, Resting, Steps
  <1>5. CASE SettleLogin
    <2>1. /\ pc = "await" /\ mode = "record"
          /\ \/ mode' = "commit" /\ pc' = "purgeAside"
             \/ mode' = "rollback" /\ pc' = "rollingBack"
          /\ UNCHANGED <<txn, journal, target, aside, record, superseded, failed, todo, blocked>>
      BY <1>5 DEF SettleLogin, disk, TypeInv, ModesFit
    <2>2. Fits'
      BY <1>f, <2>1 DEF Fits, StagesAt, HasRoom, Open
    <2> QED BY <1>w, <1>f, <2>1, <2>2, WorkGoesOn DEF OthersStay, Working, Resting, Steps
  <1>6. CASE RollingBack
    <2>1. /\ pc = "rollingBack" /\ mode' = "rollback"
          /\ UNCHANGED <<txn, target, aside, superseded, failed, todo, blocked>>
      BY <1>6 DEF RollingBack
    <2>2. /\ pc' = "restoreSession" /\ record' = journal'[txn]
          /\ journal'[txn].stage = "NewStoreInstalled"
          /\ \A l \in Logins : l # txn => journal'[l] = journal[l]
      <3>1. CASE record.stage = "CredentialsWritten"
        <4>1. Advance("NewStoreInstalled", "restoreSession", "blocked")
          BY <1>6, <3>1 DEF RollingBack
        <4> QED BY <1>f, <2>1, <4>1, QuietAdvance DEF TypeInv, Stages, UndoStages
      <3>2. CASE record.stage # "CredentialsWritten"
        <4>1. pc' = "restoreSession" /\ UNCHANGED <<journal, record>>
          BY <1>6, <3>2 DEF RollingBack
        <4> QED BY <1>f, <2>1, <3>2, <4>1 DEF Fits, StagesAt
      <3> QED BY <3>1, <3>2
    <2>3. Fits'
      BY <1>f, <2>1, <2>2 DEF Fits, StagesAt, UndoStages, HasRoom, Open
    <2> QED BY <1>w, <1>f, <2>1, <2>2, <2>3, WorkGoesOn DEF OthersStay, Working, Resting, Steps
  <1>7. CASE RestoreSession \/ RestoreKey
    <2>1. /\ mode \in {"rollback", "recover"} /\ pc \in {"restoreSession", "restoreKey"}
          /\ \/ pc' = "restoreKey"
             \/ pc' = IF mode = "rollback" THEN "unwind" ELSE "restored"
          /\ UNCHANGED <<txn, mode, journal, target, aside, record, superseded, failed, todo, blocked>>
      BY <1>0, <1>7 DEF RestoreSession, RestoreKey, Keep, disk, TypeInv, ModesFit
    <2>2. Fits'
      BY <1>f, <2>1 DEF Fits, StagesAt, HasRoom, Open
    <2> QED BY <1>w, <1>f, <2>1, <2>2, WorkGoesOn DEF OthersStay, Working, Resting, Steps
  <1> QED BY <1>1, <1>2, <1>3, <1>4, <1>5, <1>6, <1>7 DEF Recording, RollBack

\* Putting the old store back, while nothing fails: nothing is reported.
LEMMA UnwindingClean ==
    ASSUME TypeInv, CleanInv, Unwinding, faults' = 0
    PROVE  CleanInv'
  <1> USE DEF At, Goto, Steady, keyring
  <1>0. \A kind : ~Fault(kind)
    BY ConstantsAssumption DEF TypeInv, TypeOK, Fault
  <1>w. pc \in Working
    BY DEF Unwinding, Unwind, AdvanceUnwound, PutBack, DropPending, Unwound, Restored,
       Working, Resting, Steps
  <1>f. /\ txn \in Logins /\ Fits /\ ~failed /\ ~blocked /\ record \in Record
        /\ pc \notin {"open", "scratch", "clearSlot", "forget"} => record = journal[txn]
        /\ target \in [Accounts -> Stores] /\ Account \in Accounts /\ aside \in [Logins -> Stores]
    BY <1>w, AtHandFacts DEF Fits
  <1>1. CASE Unwind
    <2>1. pc = "unwind" /\ UNCHANGED <<txn, mode, journal, aside, record, superseded, todo, blocked>>
      BY <1>1 DEF Unwind
    <2>2. CASE record.stage \in OursStages
      <3>1. PICK p \in Purge(target[Account]) :
                /\ target' = [target EXCEPT ![Account] = p[1]]
                /\ PurgeFailure(p[2]) /\ failed' = (failed \/ p[2]) /\ pc' = "advanceUnwound"
        BY <1>1, <2>2 DEF Unwind
      <3>2. ~p[2] /\ p[1] = Nothing
        <4>1. ~p[2]
          BY <1>0, <3>1 DEF PurgeFailure
        <4> QED BY <3>1, <4>1, QuietPurge
      <3>3. target'[Account] = Nothing /\ ~failed'
        BY <1>f, <3>1, <3>2
      <3>4. Fits'
        BY <1>f, <2>1, <3>1, <3>3 DEF Fits, StagesAt, HasRoom, Open, Account
      <3> QED BY <1>w, <1>f, <2>1, <3>1, <3>3, <3>4, WorkGoesOn DEF OthersStay, Working, Resting,
         Steps
    <2>3. CASE record.stage \notin OursStages
      <3>1. pc' = "putBack" /\ UNCHANGED <<target, failed>>
        BY <1>1, <2>3 DEF Unwind
      <3>2. journal[txn].stage = "Prepared"
        BY <1>f, <2>1, <2>3 DEF Fits, StagesAt, UndoStages, OursStages
      <3>3. Fits'
        BY <1>f, <2>1, <3>1, <3>2 DEF Fits, StagesAt, HasRoom, Open
      <3> QED BY <1>w, <1>f, <2>1, <3>1, <3>3, WorkGoesOn DEF OthersStay, Working, Resting, Steps
    <2> QED BY <2>2, <2>3
  <1>2. CASE AdvanceUnwound
    <2>1. /\ pc = "advanceUnwound" /\ Advance("Prepared", "putBack", "unwound")
          /\ UNCHANGED <<txn, mode, target, aside, superseded, todo, blocked>>
          /\ failed' = (failed \/ record'.stage # "Prepared")
      BY <1>2 DEF AdvanceUnwound
    <2>2. /\ pc' = "putBack" /\ record' = journal'[txn] /\ journal'[txn].stage = "Prepared"
          /\ \A l \in Logins : l # txn => journal'[l] = journal[l]
      BY <1>f, <2>1, QuietAdvance DEF TypeInv, Stages, UndoStages
    <2>3. ~failed' /\ target[Account] = Nothing
      BY <1>f, <2>1, <2>2 DEF Fits
    <2>4. Fits'
      BY <1>f, <2>1, <2>2, <2>3 DEF Fits, StagesAt, HasRoom, Open, Account
    <2> QED BY <1>w, <1>f, <2>1, <2>2, <2>3, <2>4, WorkGoesOn DEF OthersStay, Working, Resting,
       Steps
  <1>3. CASE PutBack
    <2>1. pc = "putBack" /\ pc' = "dropPending" /\ UNCHANGED <<txn, mode, journal, record, superseded, todo, blocked>>
      BY <1>3 DEF PutBack
    <2>2. PICK m \in Moves(aside[txn], target[Account]) :
              /\ aside' = [aside EXCEPT ![txn] = m[1]]
              /\ MoveFailure(target[Account], m[3]) /\ failed' = (failed \/ m[3])
      BY <1>3 DEF PutBack
    <2>3. aside[txn] = Nothing \/ target[Account] = Nothing
      BY <1>f, <2>1 DEF Fits, StagesAt, HasRoom, Account
    <2>4. ~m[3] /\ m[1] = Nothing
      <3>1. ~(m[3] /\ target[Account] = Nothing)
        BY <1>0, <2>2 DEF MoveFailure
      <3> QED BY <2>2, <2>3, <3>1, QuietMove
    <2>5. aside'[txn] = Nothing /\ ~failed'
      BY <1>f, <2>2, <2>4
    <2>6. Fits'
      BY <1>f, <2>1, <2>5 DEF Fits, StagesAt, HasRoom, Open
    <2> QED BY <1>w, <1>f, <2>1, <2>5, <2>6, WorkGoesOn DEF OthersStay, Working, Resting, Steps
  <1>4. CASE DropPending
    <2>1. /\ pc = "dropPending" /\ pc' = "unwound"
          /\ UNCHANGED <<txn, mode, journal, target, aside, record, superseded, todo, blocked>>
      BY <1>4 DEF DropPending
    <2>2. ~failed'
      <3>1. PICK p \in Purge(pending[txn]) : PurgeFailure(p[2]) /\ failed' = (failed \/ p[2])
        BY <1>4 DEF DropPending
      <3> QED BY <1>0, <1>f, <3>1 DEF PurgeFailure
    <2>3. Fits'
      BY <1>f, <2>1 DEF Fits, StagesAt, HasRoom, Open
    <2> QED BY <1>w, <1>f, <2>1, <2>2, <2>3, WorkGoesOn DEF OthersStay, Working, Resting, Steps
  <1>5. CASE Unwound
    <2>1. /\ pc = "unwound" /\ mode \in {"adopt", "abandon", "rollback", "recover"}
          /\ pc' = CASE mode \in {"adopt", "abandon"} -> "recordRolledBack"
                     [] mode = "rollback" -> "markRolledBack"
                     [] mode = "recover" -> IF Staged THEN "restoreSession" ELSE "markRolledBack"
          /\ UNCHANGED <<txn, mode, journal, target, aside, record, superseded, failed, todo, blocked>>
      BY <1>5, <1>f DEF Unwound, disk, TypeInv, ModesFit
    <2>2. /\ pc' \in {"recordRolledBack", "markRolledBack", "restoreSession"}
          /\ pc' = "restoreSession" => mode = "recover"
      BY <2>1
    <2>3. Fits'
      BY <1>f, <2>1, <2>2 DEF Fits, StagesAt, HasRoom, Open
    <2> QED BY <1>w, <1>f, <2>1, <2>2, <2>3, WorkGoesOn DEF OthersStay, Working, Resting, Steps
  <1>6. CASE Restored
    <2>1. /\ pc = "restored" /\ pc' = "markRolledBack"
          /\ UNCHANGED <<txn, mode, journal, target, aside, record, superseded, failed, todo, blocked>>
      BY <1>6, <1>f DEF Restored, disk
    <2>2. Fits'
      BY <1>f, <2>1 DEF Fits, StagesAt, HasRoom, Open
    <2> QED BY <1>w, <1>f, <2>1, <2>2, WorkGoesOn DEF OthersStay, Working, Resting, Steps
  <1> QED BY <1>1, <1>2, <1>3, <1>4, <1>5, <1>6 DEF Unwinding


\* Reaching the end of a login, while nothing fails.
LEMMA ConcludingClean ==
    ASSUME TypeInv, CleanInv, Concluding, faults' = 0
    PROVE  CleanInv'
  <1> USE DEF At, Goto, Steady, keyring
  <1>0. \A kind : ~Fault(kind)
    BY ConstantsAssumption DEF TypeInv, TypeOK, Fault
  <1>w. pc \in Working
    BY DEF Concluding, RecordRolledBack, MarkRolledBack, ClearSlot, Forget, Scratch, PurgeAside,
       AdvanceCommitted, Settled, Working, Resting, Steps
  <1>f. /\ txn \in Logins /\ Fits /\ ~failed /\ ~blocked /\ record \in Record
        /\ pc \notin {"open", "scratch", "clearSlot", "forget"} => record = journal[txn]
        /\ journal \in [Logins -> Record] /\ aside \in [Logins -> Stores]
    BY <1>w, AtHandFacts DEF Fits
  <1>1. CASE RecordRolledBack
    <2> DEFINE rec == [record EXCEPT !.stage = "RolledBack"]
    <2>1. pc = "recordRolledBack" /\ mode \in {"adopt", "abandon"} /\ record.stage = "Prepared"
      BY <1>1, <1>f DEF RecordRolledBack, TypeInv, ModesFit, Fits, StagesAt
    <2>2. rec \in Record /\ rec.stage = "RolledBack"
      <3>1. "RolledBack" \in Stages
        BY DEF Stages, TerminalStages
      <3> QED BY <1>f, <3>1, Kinds
    <2>3. /\ journal' = [journal EXCEPT ![txn] = rec] /\ pc' = "forget"
          /\ UNCHANGED <<txn, mode, target, aside, record, superseded, failed, todo, blocked>>
      BY <1>0, <1>1, <2>1 DEF RecordRolledBack
    <2> HIDE DEF rec
    <2>4. /\ journal'[txn].stage = "RolledBack"
          /\ \A l \in Logins : l # txn => journal'[l] = journal[l]
      BY <1>f, <2>2, <2>3
    <2>5. superseded.txn # txn
      BY <1>f, <2>1 DEF Fits
    <2>6. Fits'
      BY <1>f, <2>1, <2>3, <2>4, <2>5 DEF Fits, StagesAt, TerminalStages, HasRoom, Open
    <2> QED BY <1>w, <1>f, <2>3, <2>4, <2>6, WorkGoesOn DEF OthersStay, Working, Resting, Steps
  <1>2. CASE MarkRolledBack
    <2>1. pc = "markRolledBack" /\ mode \in {"rollback", "recover"} /\ journal[txn].stage = "Prepared"
      BY <1>2, <1>f DEF MarkRolledBack, TypeInv, ModesFit, Fits, StagesAt
    <2>2. /\ journal' = [journal EXCEPT ![txn].stage = "RolledBack"] /\ pc' = "clearSlot"
          /\ UNCHANGED <<txn, mode, target, aside, record, superseded, failed, todo, blocked>>
      BY <1>0, <1>2, <2>1 DEF MarkRolledBack
    <2>3. /\ journal'[txn].stage = "RolledBack"
          /\ \A l \in Logins : l # txn => journal'[l] = journal[l]
      <3>1. journal' = [journal EXCEPT ![txn] = [journal[txn] EXCEPT !.stage = "RolledBack"]]
        BY <2>2
      <3>2. [journal[txn] EXCEPT !.stage = "RolledBack"].stage = "RolledBack"
        BY <1>f, Kinds DEF Stages, TerminalStages
      <3> QED BY <1>f, <3>1, <3>2
    <2>4. Fits'
      BY <1>f, <2>1, <2>2, <2>3 DEF Fits, StagesAt, TerminalStages, HasRoom, Open
    <2> QED BY <1>w, <1>f, <2>2, <2>3, <2>4, WorkGoesOn DEF OthersStay, Working, Resting, Steps
  <1>3. CASE ClearSlot
    <2>1. /\ pc = "clearSlot" /\ pc' = "forget" /\ mode \notin {"adopt", "abandon"}
          /\ superseded' = IF superseded.txn \in {txn, Corrupt} THEN NoSlot ELSE superseded
          /\ UNCHANGED <<txn, mode, journal, target, aside, record, failed, todo, blocked>>
      BY <1>0, <1>3 DEF ClearSlot, disk, TypeInv, ModesFit
    <2>2. superseded'.txn # txn /\ superseded'.txn \in {superseded.txn, Nobody}
      BY <1>f, <2>1, ConstantsAssumption DEF NoSlot
    <2>3. Fits'
      BY <1>f, <2>1, <2>2 DEF Fits, StagesAt, HasRoom, Open
    <2> QED BY <1>w, <1>f, <2>1, <2>2, <2>3, WorkGoesOn DEF OthersStay, Working, Resting, Steps
  <1>4. CASE Forget
    <2>1. /\ pc = "forget" /\ Closed /\ mode \in {"adopt", "abandon", "rollback", "recover", "commit"}
          /\ UNCHANGED <<target, aside, superseded>>
      BY <1>4 DEF Forget, TypeInv, ModesFit
    <2>2. superseded.txn # txn /\ journal[txn].stage \in TerminalStages
      BY <1>f, <2>1 DEF Fits, StagesAt
    <2>3. journal' = [journal EXCEPT ![txn] = NoRecord]
      BY <1>0, <1>4, <2>2 DEF Forget
    <2>4. /\ journal'[txn].stage = "Closed"
          /\ \A l \in Logins : l # txn => journal'[l] = journal[l]
      BY <1>f, <2>3 DEF NoRecord
    <2>5. CASE mode = "adopt"
      <3>1. /\ pc' = "scratch"
            /\ UNCHANGED <<txn, mode, record, failed, todo, blocked>>
        BY <2>1, <2>5 DEF Closed
      <3>2. Fits'
        BY <1>f, <2>1, <2>2, <2>4, <2>5, <3>1 DEF Fits, StagesAt, HasRoom, Open
      <3> QED BY <1>w, <1>f, <2>1, <2>4, <3>1, <3>2, WorkGoesOn DEF OthersStay, Working, Resting,
         Steps
    <2>6. CASE mode # "adopt"
      <3>1. /\ pc' \in {"idle", "recover", "running"}
            /\ pc' = "recover" => mode = "recover"
            /\ ~failed' /\ UNCHANGED <<todo, blocked>>
        BY <2>1, <2>6 DEF Closed, Release
      <3>2. mode = "recover" => todo = {}
        BY <1>f DEF Fits
      <3>3. pc' \in Resting \cup {"recover"} /\ (pc' = "recover" => todo' = {}) /\ ~blocked'
        BY <1>f, <3>1, <3>2 DEF Resting
      <3>4. OthersStay /\ superseded'.txn # txn
        BY <2>1, <2>2, <2>4 DEF OthersStay
      <3> QED BY <1>w, <2>4, <3>1, <3>3, <3>4, WorkEnds
    <2> QED BY <2>5, <2>6
  <1>5. CASE Scratch
    <2>1. /\ pc = "scratch" /\ pc' = "idle" /\ ~failed'
          /\ UNCHANGED <<journal, target, aside, superseded, todo, blocked>>
      BY <1>5 DEF Scratch, Release
    <2>2. journal[txn].stage = "Closed" /\ superseded.txn # txn
      BY <1>f, <2>1 DEF Fits, StagesAt, Open
    <2> QED BY <1>w, <1>f, <2>1, <2>2, WorkEnds DEF OthersStay, Resting
  <1>6. CASE PurgeAside
    <2>1. /\ pc = "purgeAside" /\ record.stage = "CredentialsWritten" /\ mode \notin {"adopt", "abandon"}
          /\ UNCHANGED <<txn, mode, journal, target, record, superseded, todo, blocked>>
      BY <1>6, <1>f DEF PurgeAside, Fits, StagesAt, TypeInv, ModesFit
    <2>2. /\ pc' = "advanceCommitted" /\ ~failed'
      <3>1. PICK p \in Purge(aside[txn]) :
                PurgeFailure(p[2]) /\ failed' = (failed \/ p[2]) /\ pc' = "advanceCommitted"
        BY <1>6, <2>1 DEF PurgeAside
      <3>2. ~p[2]
        BY <1>0, <3>1 DEF PurgeFailure
      <3> QED BY <1>f, <3>1, <3>2
    <2>3. Fits'
      BY <1>f, <2>1, <2>2 DEF Fits, StagesAt, HasRoom, Open
    <2> QED BY <1>w, <1>f, <2>1, <2>2, <2>3, WorkGoesOn DEF OthersStay, Working, Resting, Steps
  <1>7. CASE AdvanceCommitted
    <2>1. /\ pc = "advanceCommitted" /\ Advance("Committed", "settled", "settled")
          /\ mode \notin {"adopt", "abandon"}
          /\ UNCHANGED <<txn, mode, target, aside, superseded, todo, blocked>>
          /\ failed' = (failed \/ record'.stage # "Committed")
      BY <1>7 DEF AdvanceCommitted, TypeInv, ModesFit
    <2>2. /\ pc' = "settled" /\ record' = journal'[txn] /\ journal'[txn].stage = "Committed"
          /\ \A l \in Logins : l # txn => journal'[l] = journal[l]
      BY <1>f, <2>1, QuietAdvance DEF TypeInv, Stages, TerminalStages
    <2>3. ~failed'
      BY <1>f, <2>1, <2>2
    <2>4. Fits'
      BY <1>f, <2>1, <2>2, <2>3 DEF Fits, StagesAt, HasRoom, Open
    <2> QED BY <1>w, <1>f, <2>1, <2>2, <2>3, <2>4, WorkGoesOn DEF OthersStay, Working, Resting,
       Steps
  <1>8. CASE Settled
    <2>1. /\ pc = "settled" /\ pc' = "clearSlot"
          /\ UNCHANGED <<txn, mode, journal, target, aside, record, superseded, failed, todo, blocked>>
      BY <1>8, <1>f DEF Settled, disk
    <2>2. Fits'
      BY <1>f, <2>1 DEF Fits, StagesAt, TerminalStages, HasRoom, Open
    <2> QED BY <1>w, <1>f, <2>1, <2>2, WorkGoesOn DEF OthersStay, Working, Resting, Steps
  <1> QED BY <1>1, <1>2, <1>3, <1>4, <1>5, <1>6, <1>7, <1>8 DEF Concluding


\* A start finds at most one login, and what undoing it needs.
LEMMA StartingClean ==
    ASSUME TypeInv, KeepInv, CleanInv, Starting, faults' = 0
    PROVE  CleanInv'
  <1> USE DEF At, Goto, Steady, keyring
  <1>0. \A kind : ~Fault(kind)
    BY ConstantsAssumption DEF TypeInv, TypeOK, Fault
  <1>u. ~failed /\ ~blocked
    BY DEF CleanInv, Untroubled
  <1>1. CASE Start
    <2>1. /\ pc = "off" /\ pc' = "recover" /\ todo' = {l \in Logins : Open(l)}
          /\ UNCHANGED <<journal, target, aside, superseded, failed, blocked>>
      BY <1>0, <1>1 DEF Start, disk
    <2>2. LeftOver'
      BY <2>1 DEF CleanInv, LeftOver, HasRoom, Open
    <2>3. pc' \notin Working \cup Resting
      BY <2>1, StepKinds
    <2> QED BY <1>u, <2>1, <2>2, <2>3 DEF CleanInv, Untroubled, AtWork, AtRest
  <1>2. ASSUME NEW l \in Logins, Resolve(l) PROVE CleanInv'
    <2>1. /\ pc = "recover" /\ l \in todo /\ todo' = todo \ {l} /\ txn' = l /\ mode' = "recover"
          /\ record' = journal[l] /\ ~failed'
          /\ pc' = CASE journal[l].stage \in UndoStages -> "plan"
                     [] journal[l].stage = "CredentialsWritten" -> "purgeAside"
                     [] OTHER -> "clearSlot"
          /\ UNCHANGED <<journal, target, aside, superseded, blocked>>
      BY <1>0, <1>2 DEF Resolve, disk
    <2>2. /\ \A k, m \in Logins : Open(k) /\ Open(m) => k = m
          /\ \A k \in Logins : superseded.txn = k => Open(k)
          /\ \A k \in Logins : Open(k) <=> k \in todo
          /\ HasRoom(l) /\ todo \subseteq Logins /\ journal[l] \in Record
      BY <2>1 DEF CleanInv, LeftOver, TypeInv, TypeOK
    <2>3. todo' = {} /\ Open(l) /\ \A k \in Logins : k # l => Over(k)
      BY <2>1, <2>2 DEF Over
    <2>4. pc' \in {"plan", "purgeAside", "clearSlot"} /\ journal[l].stage \in StagesAt(pc')
      <3>1. journal[l].stage \in Stages /\ journal[l].stage # "Closed"
        BY <2>2, <2>3, Kinds DEF Open
      <3>2. CASE journal[l].stage \in UndoStages
        BY <2>1, <3>2 DEF StagesAt
      <3>3. CASE journal[l].stage = "CredentialsWritten"
        BY <2>1, <3>3 DEF StagesAt, UndoStages
      <3>4. CASE journal[l].stage \in TerminalStages
        BY <2>1, <3>4 DEF StagesAt, UndoStages, TerminalStages
      <3> QED BY <3>1, <3>2, <3>3, <3>4 DEF Stages, UndoStages, OursStages
    <2>5. Fits'
      <3>1. StagesAt(pc)' = StagesAt(pc')
        BY <2>4 DEF StagesAt
      <3> QED BY <2>1, <2>2, <2>3, <2>4, <3>1 DEF Fits, HasRoom, Open
    <2>6. \A k \in Logins : k # txn' => Over(k)'
      BY <2>1, <2>3 DEF Over, Open
    <2>7. pc' \notin Resting \cup {"off", "recover", "blocked"}
      BY <2>4 DEF Resting
    <2> QED BY <1>u, <2>1, <2>5, <2>6, <2>7 DEF CleanInv, Untroubled, AtWork, AtRest, LeftOver
  <1>3. CASE Plan
    <2>1. pc = "plan" /\ pc \in Working
      BY <1>3 DEF Plan, Working, Resting, Steps
    <2>2. /\ txn \in Logins /\ Fits /\ record = journal[txn] /\ journal[txn].stage \in UndoStages
      BY <2>1, AtHandFacts DEF Fits, StagesAt
    <2>3. Staged \/ ~record.staged
      BY <2>2 DEF KeepInv, StagedCredentialsKept, MustUndo, Staged
    <2>4. /\ pc' = "unwind"
          /\ UNCHANGED <<txn, mode, journal, target, aside, record, superseded, failed, todo, blocked>>
      BY <1>0, <1>3, <2>3 DEF Plan, disk
    <2>5. Fits'
      BY <2>1, <2>2, <2>4 DEF Fits, StagesAt, HasRoom, Open
    <2> QED BY <1>u, <2>1, <2>2, <2>4, <2>5, WorkGoesOn DEF OthersStay, Working, Resting, Steps
  <1>4. CASE Recovered
    <2>1. /\ pc = "recover" /\ todo = {} /\ pc' = "restore"
          /\ UNCHANGED <<journal, superseded, failed, blocked>>
      BY <1>u, <1>4 DEF Recovered, disk
    <2>2. \A l \in Logins : Over(l)
      BY <2>1 DEF CleanInv, LeftOver, Over
    <2>3. \A l \in Logins : Over(l)'
      BY <2>1, <2>2 DEF Over, Open
    <2>4. pc' \notin Working
      BY <2>1, StepKinds DEF Resting
    <2> QED BY <1>u, <2>1, <2>3, <2>4 DEF CleanInv, Untroubled, AtWork, AtRest, LeftOver
  <1>5. CASE RestoreSaved \/ NothingSaved
    <2>1. /\ pc = "restore" /\ pc' \in {"idle", "running"}
          /\ UNCHANGED <<journal, superseded, failed, blocked>>
      BY <1>5 DEF RestoreSaved, NothingSaved, disk
    <2>2. \A l \in Logins : Over(l)
      BY <2>1 DEF CleanInv, AtRest, Resting
    <2>3. \A l \in Logins : Over(l)'
      BY <2>1, <2>2 DEF Over, Open
    <2>4. pc' \notin Working
      BY <2>1, StepKinds DEF Resting
    <2> QED BY <1>u, <2>1, <2>3, <2>4 DEF CleanInv, Untroubled, AtWork, AtRest, LeftOver
  <1> QED BY <1>1, <1>2, <1>3, <1>4, <1>5 DEF Starting

\* However far it got, there is room for what the login at hand displaced.
LEMMA RoomLeft ==
    ASSUME TypeInv, CleanInv
    PROVE  /\ \A l \in Logins : HasRoom(l)
           /\ \A k, l \in Logins : Open(k) /\ Open(l) => k = l
           /\ \A l \in Logins : superseded.txn = l => Open(l)
  <1>1. pc \in Steps /\ pc # "blocked"
    BY DEF TypeInv, TypeOK, CleanInv, Untroubled
  <1>2. CASE pc \in Working
    <2>1. Fits /\ txn \in Logins /\ \A l \in Logins : l # txn => Over(l)
      BY <1>2, AtHandFacts DEF CleanInv, AtWork
    <2> QED BY <2>1 DEF Fits, Over, HasRoom, Open
  <1>3. CASE pc \in Resting
    <2>1. \A l \in Logins : Over(l)
      BY <1>3 DEF CleanInv, AtRest
    <2> QED BY <2>1 DEF Over, HasRoom, Open
  <1>4. CASE pc \in {"off", "recover"}
    BY <1>4 DEF CleanInv, LeftOver
  <1> QED BY <1>1, <1>2, <1>3, <1>4, StepKinds

\* A process that ends leaves that login to the next start.
LEMMA EndingClean ==
    ASSUME TypeInv, CleanInv, Erasing \/ Stopping
    PROVE  CleanInv'
  <1> USE DEF At, Goto, Steady, keyring
  <1>u. ~failed /\ ~blocked
    BY DEF CleanInv, Untroubled
  <1>1. CASE Erasing
    <2>1. /\ pc \in {"running", "eraseKey", "eraseSession", "eraseStore"}
          /\ pc' \in {"idle", "eraseKey", "eraseSession", "eraseStore"}
          /\ UNCHANGED <<journal, superseded, blocked>> /\ ~failed'
      BY <1>u, <1>1 DEF Erasing, Logout, EraseKey, EraseSession, EraseStore, Release, Keep, disk
    <2>2. \A l \in Logins : Over(l)
      BY <2>1 DEF CleanInv, AtRest, Resting
    <2>3. \A l \in Logins : Over(l)'
      BY <2>1, <2>2 DEF Over, Open
    <2>4. pc' \notin Working
      BY <2>1, StepKinds DEF Resting
    <2> QED BY <1>u, <2>1, <2>3, <2>4 DEF CleanInv, Untroubled, AtWork, AtRest, LeftOver
  <1>2. CASE Stopping
    <2>1. /\ pc' = "off" /\ ~failed' /\ ~blocked' /\ UNCHANGED <<journal, superseded>>
      BY <1>2 DEF Stopping, Quit, Crash, CrashMidPurge, Forgotten, disk
    <2>2. \A l \in Logins : HasRoom(l)'
      <3>1. CASE UNCHANGED <<target, aside>>
        BY <2>1, <3>1, RoomLeft DEF HasRoom
      <3>2. CASE CrashMidPurge /\ pc \in {"unwind", "purgeAside"}
        <4>1. pc \in Working
          BY <3>2 DEF Working, Resting, Steps
        <4>2. /\ Fits /\ txn \in Logins /\ record = journal[txn]
          BY <3>2, <4>1, AtHandFacts DEF Fits
        <4>3. journal[txn].stage # "Prepared"
          BY <3>2, <4>2 DEF CrashMidPurge, Fits, StagesAt, OursStages
        <4>4. \A l \in Logins : l # txn => Over(l)
          BY <4>1 DEF CleanInv, AtWork
        <4> QED BY <2>1, <4>3, <4>4 DEF HasRoom, Over, Open
      <3>3. CASE pc = "eraseStore"
        <4>1. \A l \in Logins : Over(l)
          BY <3>3 DEF CleanInv, AtRest, Resting
        <4> QED BY <2>1, <4>1 DEF HasRoom, Over, Open
      <3> QED BY <1>2, <3>1, <3>2, <3>3 DEF Stopping, Quit, Crash, CrashMidPurge, disk
    <2>3. LeftOver'
      BY <2>1, <2>2, RoomLeft DEF LeftOver, Open
    <2>4. pc' \notin Working \cup Resting
      BY <2>1, StepKinds
    <2> QED BY <2>1, <2>3, <2>4 DEF CleanInv, Untroubled, AtWork, AtRest
  <1> QED BY <1>1, <1>2


\* Failures are counted.
LEMMA FaultsGrow == TypeInv /\ Next => faults' \in {faults, faults + 1}
  <1> DEFINE Grown == faults' \in {faults, faults + 1}
  <1> SUFFICES ASSUME TypeInv, Next PROVE Grown
    OBVIOUS
  <1>0. txn \in Logins \cup {Nobody}
    BY DEF TypeInv, TypeOK
  <1> USE DEF Steady, Fault, NoFault, Keep, MoveFailure, PurgeFailure, environment
  <1>1. CASE Adopting
    BY <1>1 DEF Adopting, BeginLogin, OpenJournal, HoldAside, AdvanceHeldAside, Install,
       AdvanceInstalled, OpenSession, Persist, Advance
  <1>2. CASE Recording \/ RollBack
    BY <1>2 DEF Recording, RollBack, ReadDisplaced, StageDisplaced, MarkStaged, SaveKey,
       SaveSession, AdvanceWritten, SettleLogin, RollingBack, RestoreSession, RestoreKey,
       Persist, Advance
  <1>3. CASE Unwinding
    BY <1>3 DEF Unwinding, Unwind, AdvanceUnwound, PutBack, DropPending, Unwound, Restored,
       Persist, Advance
  <1>4. CASE Concluding
    BY <1>4 DEF Concluding, RecordRolledBack, MarkRolledBack, ClearSlot, Forget, Scratch,
       PurgeAside, AdvanceCommitted, Settled, Persist, Advance
  <1>5. CASE Starting
    BY <1>5 DEF Starting, Start, Plan, Recovered, RestoreSaved, NothingSaved, Resolve
  <1>6. CASE Erasing
    BY <1>6 DEF Erasing, Logout, EraseKey, EraseSession, EraseStore
  <1>7. CASE Stopping
    BY <1>7 DEF Stopping, Quit, Crash, CrashMidPurge, Forgotten
  <1> QED BY <1>1, <1>2, <1>3, <1>4, <1>5, <1>6, <1>7 DEF Next, Step

\* What a process leaves to the next is resolved, while nothing fails.
LEMMA CrashNext == TypeInv /\ KeepInv /\ CrashInv /\ [Next]_vars => CrashInv'
  <1> SUFFICES ASSUME TypeInv, KeepInv, CrashInv, [Next]_vars, faults' = 0 PROVE CleanInv'
    BY TriedNext DEF CrashInv
  <1>1. CASE Next
    <2>1. faults = 0
      BY <1>1, FaultsGrow, ConstantsAssumption DEF TypeInv, TypeOK
    <2>2. TriedInv /\ CleanInv
      BY <2>1 DEF CrashInv
    <2> QED BY <1>1, <2>2, AdoptingClean, RecordingClean, UnwindingClean, ConcludingClean,
          StartingClean, EndingClean DEF Next, Step
  <1>2. CASE UNCHANGED vars
    <2>1. CleanInv /\ UNCHANGED vars
      BY <1>2 DEF CrashInv, vars, environment
    <2>2. /\ UNCHANGED <<pc, mode, txn, record, journal, target, aside, superseded,
                         failed, todo, blocked>>
      BY <1>2 DEF vars, disk, keyring, process
    <2>3. \A l \in Logins : Over(l)' <=> Over(l)
      BY <2>2 DEF Over, Open
    <2>4. Fits' <=> Fits
      BY <2>2 DEF Fits, StagesAt, HasRoom, Open, Account
    <2>5. LeftOver' <=> LeftOver
      BY <2>2 DEF LeftOver, HasRoom, Open
    <2> QED BY <2>1, <2>2, <2>3, <2>4, <2>5 DEF CleanInv, Untroubled, AtWork, AtRest
  <1> QED BY <1>1, <1>2

\* Dying alone never costs a sign-in: as long as nothing failed, whatever died
\* and wherever, every start resolves every login (recover_interrupted_logins
\* ends Clean), and a process that shows the sign-in form or runs a session has
\* no transaction left over.
THEOREM DyingIsResolved == Spec => []CrashAloneIsResolved
  <1>1. Init => TypeInv /\ KeepInv /\ CrashInv
    <2> SUFFICES ASSUME Init PROVE TypeInv /\ KeepInv /\ CrashInv
      OBVIOUS
    <2>1. /\ journal = [k \in Logins |-> NoRecord] /\ aside = [k \in Logins |-> Nothing]
          /\ superseded.txn \in {Nobody, Corrupt} /\ pc = "off" /\ todo = {} /\ ~blocked /\ ~failed
      BY DEF Init
    <2>2. \A l \in Logins : Over(l) /\ ~Open(l) /\ HasRoom(l) /\ aside[l] = Nothing
      BY <2>1, ConstantsAssumption DEF Over, Open, HasRoom, NoRecord
    <2>3. pc \notin Working \cup Resting
      BY <2>1, StepKinds
    <2>4. CrashInv
      BY <2>1, <2>2, <2>3 DEF CrashInv, TriedInv, CleanInv, Untroubled, AtWork, AtRest, LeftOver,
         Over
    <2>5. KeepInv
      <3>1. \A l \in Logins : ~Burdened(l)
        BY DEF Init, Burdened, NoRecord
      <3> QED BY <3>1, TypeInit DEF Init, KeepInv, StagedCredentialsKept, Burdened, UndoAhead,
            NotYetStaged, SlotOurs, AwaitWritten, Burdens, Concluded, NoRecord
    <2> QED BY <2>4, <2>5, TypeInit
  <1>2. TypeInv /\ KeepInv /\ CrashInv /\ [Next]_vars => TypeInv' /\ KeepInv' /\ CrashInv'
    <2> SUFFICES ASSUME TypeInv, KeepInv, [Next]_vars PROVE TypeInv' /\ KeepInv'
      BY CrashNext
    <2>1. CASE Next
      BY <2>1, TypeNext, AdoptingKeeps, RecordingKeeps, UnwindingKeeps, ConcludingKeeps,
         StartingKeeps, EndingKeeps DEF Next, Step
    <2>2. CASE UNCHANGED vars
      <3>1. KeepInv'
        BY <2>2 DEF vars, disk, keyring, process, environment, KeepInv,
           StagedCredentialsKept, Burdened, MustUndo, UndoAhead, NotYetStaged, SlotOurs,
           AwaitWritten, Burdens, Concluded
      <3> QED BY <3>1, TypeNext
    <2> QED BY <2>1, <2>2
  <1>3. CrashInv => CrashAloneIsResolved
    BY DEF CrashInv, CleanInv, Untroubled, AtRest, Resting, Over, CrashAloneIsResolved
  <1> QED BY <1>1, <1>2, <1>3, PTL DEF Spec
=============================================================================
