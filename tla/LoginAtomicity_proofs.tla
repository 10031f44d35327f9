------------------------ MODULE LoginAtomicity_proofs ------------------------
(* Proof that the login transaction implements AtomicLogin, for any number of *)
(* logins, accounts, failures and crashes. What the next start restores       *)
(* (RestorableWithout) is the value of three things: the saved session, the   *)
(* keys and the stores, as they are or as they will be once the one login to  *)
(* undo is undone. The invariant says enough of the journal, the directories  *)
(* and the staging entry, at every step, for that value to change only where  *)
(* AtomicLogin lets it: when the journal says that the credentials are        *)
(* written, when it takes that back, and when a user signs out.               *)
EXTENDS LoginAtomicity, LoginTransaction_proofs

-----------------------------------------------------------------------------
(* Where the refinement holds: a rename that is reported is on the disk, and  *)
(* nobody signs in past a login that the next start will undo.                *)

Plain == "sync" \notin FaultKinds /\ ~SignInPastOpenJournal

-----------------------------------------------------------------------------
(* The inductive invariant, in the parts that the steps disturb apart.        *)

\* The logins on the disk and in the keyring are ones that were tried.
Known ==
    /\ TriedInv
    /\ {session, displaced.session, superseded.was.session} \subseteq tried \cup {Nobody}
    /\ superseded.txn \in tried \cup {Nobody, Corrupt}

\* There is one login to undo at most: the one at hand, or the one that a start
\* has still to resolve or could not.
OneToUndo ==
    /\ \A k, l \in Logins : MustUndo(k) /\ MustUndo(l) => k = l
    /\ pc \in Resting \ {"idle"} => \A l \in Logins : ~MustUndo(l)
    /\ pc \in Working /\ mode # "recover" => \A l \in Logins : MustUndo(l) => l = txn
    /\ mode = "recover" => \A l \in Logins : MustUndo(l) => l \in todo \/ blocked \/ l = txn
    /\ pc = "recover" => \A l \in Logins : MustUndo(l) => l \in todo \/ blocked

\* The stages of the journal at each step, whatever failed.
StagesOf(step) ==
    CASE step = "open" -> {"Closed"}
      [] step \in {"holdAside", "advanceHeldAside"} -> {"Prepared"}
      [] step \in {"install", "advanceInstalled"} -> {"OldStoreHeldAside"}
      [] step \in {"openSession", "readDisplaced", "stageDisplaced", "markStaged", "saveKey",
                   "saveSession", "advanceWritten"} -> {"NewStoreInstalled"}
      [] step = "await" -> {"CredentialsWritten"}
      [] step = "rollingBack" -> {"NewStoreInstalled", "CredentialsWritten"}
      [] step \in {"putBack", "dropPending"} -> {"Prepared"}
      [] step \in {"plan", "unwind", "advanceUnwound", "unwound", "restored", "restoreSession",
                   "restoreKey", "recordRolledBack", "markRolledBack"} -> UndoStages
      [] step \in {"purgeAside", "advanceCommitted", "settled"} ->
             {"CredentialsWritten"} \cup TerminalStages
      [] step \in {"clearSlot", "forget"} -> Stages \ UndoStages
      [] OTHER -> Stages

\* The record in memory is the journal's, and of a stage its step expects.
RecordFits ==
    pc \in Working =>
        /\ journal[txn].stage \in StagesOf(pc)
        /\ pc \notin {"open", "scratch", "clearSlot", "forget"} => record = journal[txn]

\* The directories at each step, and of a login that is to be undone.
StoresFit ==
    /\ \A l \in Logins : journal[l].stage \in {"OldStoreHeldAside", "NewStoreInstalled"} =>
          target[AccountOf[l]] \in {Nothing, Debris, l}
    /\ pc \in {"open", "holdAside", "advanceHeldAside", "install"} => pending[txn] = txn
    /\ pc \in {"open", "holdAside"} => aside[txn] = Nothing
    /\ pc = "advanceHeldAside" => target[Account] = Nothing
    /\ pc \in {"advanceInstalled", "openSession", "readDisplaced", "stageDisplaced", "markStaged",
               "saveKey", "saveSession", "advanceWritten", "await", "rollingBack"} =>
          target[Account] = txn

\* The staging entry, and the credentials that the process holds to give back.
SlotFits ==
    /\ \A l \in Logins : superseded.txn = l => superseded.was.session # l
    /\ \A l \in Logins : MustUndo(l) /\ superseded.txn # l => session # l
    /\ pc = "open" => session # txn
    /\ mode \in {"adopt", "abandon"} \/ pc \in {"readDisplaced", "stageDisplaced"} =>
          superseded.txn # txn
    /\ \/ pc \in {"markStaged", "saveKey", "saveSession", "advanceWritten", "await"}
       \/ pc = "rollingBack" /\ record.stage = "CredentialsWritten"
       \/ pc \in {"restoreSession", "restoreKey"} /\ mode = "recover"
       => superseded.txn = txn

HeldFits ==
    /\ pc \in {"stageDisplaced", "markStaged", "saveKey", "saveSession", "advanceWritten", "await",
               "rollingBack", "restoreSession", "restoreKey"} =>
          displaced = IF Staged THEN superseded.was
                                ELSE [session |-> session, key |-> storeKey[Account]]
    /\ /\ mode = "recover" /\ Staged
       /\ pc \in {"unwind", "advanceUnwound", "putBack", "dropPending", "unwound"}
       => displaced = superseded.was
    /\ pc \in {"saveSession", "advanceWritten"} => storeKey[Account] = txn
    /\ pc = "advanceWritten" => session = txn

\* What has been given back, unless the report says that something was not.
SessionIsBack ==
    \/ mode = "rollback" /\ pc \in {"restoreKey", "unwind", "advanceUnwound", "putBack",
                                    "dropPending", "unwound", "markRolledBack"}
    \/ mode = "recover" /\ pc \in {"restoreKey", "restored", "markRolledBack"}
StoreIsBack ==
    \/ pc \in {"dropPending", "unwound", "restored", "recordRolledBack", "markRolledBack"}
    \/ mode = "recover" /\ pc \in {"restoreSession", "restoreKey"}
GivenBackFits ==
    /\ pc \in {"recordRolledBack", "markRolledBack"} => ~failed
    /\ Staged /\ SessionIsBack /\ ~failed => session = superseded.was.session
    /\ Staged /\ SessionIsBack /\ pc # "restoreKey" /\ ~failed =>
          storeKey[Account] = superseded.was.key
    /\ StoreIsBack /\ ~failed => aside[txn] = Nothing

LoginFits == OneToUndo /\ RecordFits /\ StoresFit /\ SlotFits /\ HeldFits /\ GivenBackFits
AtomInv == Known /\ LoginFits

-----------------------------------------------------------------------------
(* What the next start restores, login by login. *)

\* The login that a session, the keys and the stores restore together.
Restored3(s, keys, stores) ==
    IF s # Nobody /\ keys[AccountOf[s]] = s /\ stores[AccountOf[s]] = s THEN s ELSE Nobody

\* What is restored as things are, and once login u is undone.
AsItIs == Restored3(session, storeKey, target)
SessionBack(u) == IF superseded.txn = u THEN superseded.was.session ELSE session
KeysBack(u) ==
    IF superseded.txn = u THEN [storeKey EXCEPT ![AccountOf[u]] = superseded.was.key] ELSE storeKey
StoresBack(u) ==
    IF aside[u] # Nothing THEN [target EXCEPT ![AccountOf[u]] = aside[u]]
    ELSE IF journal[u].stage \in OursStages THEN [target EXCEPT ![AccountOf[u]] = Nothing]
    ELSE target
GivenBack(u) == Restored3(SessionBack(u), KeysBack(u), StoresBack(u))

SavedIs(s) ==
    /\ \A u \in Logins : MustUndo(u) => s = GivenBack(u)
    /\ (\A u \in Logins : ~MustUndo(u)) => s = AsItIs

\* Undoing one login at most, RestorableWithout is that.
LEMMA RestorableValue ==
    TypeInv =>
       /\ \A u \in Logins : RestorableWithout({u}) = GivenBack(u)
       /\ RestorableWithout({}) = AsItIs
  <1> SUFFICES ASSUME TypeInv
               PROVE  /\ \A u \in Logins : RestorableWithout({u}) = GivenBack(u)
                      /\ RestorableWithout({}) = AsItIs
    OBVIOUS
  <1>0. /\ AccountOf \in [Logins -> Accounts] /\ Nobody \notin Logins
        /\ session \in Logins \cup {Nobody} /\ storeKey \in [Accounts -> Logins \cup {Nobody}]
        /\ target \in [Accounts -> Stores] /\ aside \in [Logins -> Stores]
        /\ superseded.was.session \in Logins \cup {Nobody}
    BY ConstantsAssumption, Kinds DEF TypeInv, TypeOK
  <1>1. ASSUME NEW u \in Logins PROVE RestorableWithout({u}) = GivenBack(u)
    <2> DEFINE holders == {l \in {u} : superseded.txn = l}
               s == IF holders = {} THEN session ELSE superseded.was.session
               key(a) == IF \E l \in holders : AccountOf[l] = a THEN superseded.was.key
                                                                ELSE storeKey[a]
               store(a) == IF \E l \in {u} : AccountOf[l] = a /\ aside[l] # Nothing
                      THEN aside[CHOOSE l \in {u} : AccountOf[l] = a /\ aside[l] # Nothing]
                    ELSE IF \E l \in {u} : AccountOf[l] = a /\ journal[l].stage \in OursStages
                      THEN Nothing
                    ELSE target[a]
    <2>1. RestorableWithout({u}) =
              IF s # Nobody /\ key(AccountOf[s]) = s /\ store(AccountOf[s]) = s THEN s ELSE Nobody
      BY DEF RestorableWithout
    <2>2. s = SessionBack(u)
      BY DEF SessionBack
    <2>3. \A a \in Accounts : key(a) = KeysBack(u)[a]
      BY <1>0 DEF KeysBack
    <2>4. \A a \in Accounts : store(a) = StoresBack(u)[a]
      <3> SUFFICES ASSUME NEW a \in Accounts PROVE store(a) = StoresBack(u)[a]
        OBVIOUS
      <3>1. CASE AccountOf[u] = a /\ aside[u] # Nothing
        <4>1. (CHOOSE l \in {u} : AccountOf[l] = a /\ aside[l] # Nothing) = u
          BY <3>1
        <4> QED BY <1>0, <3>1, <4>1 DEF StoresBack
      <3>2. CASE ~(AccountOf[u] = a /\ aside[u] # Nothing)
        BY <1>0, <3>2 DEF StoresBack
      <3> QED BY <3>1, <3>2
    <2>5. SessionBack(u) \in Logins \cup {Nobody}
      BY <1>0 DEF SessionBack
    <2> HIDE DEF holders, s, key, store
    <2>6. CASE SessionBack(u) = Nobody
      BY <2>1, <2>2, <2>6 DEF GivenBack, Restored3
    <2>7. CASE SessionBack(u) \in Logins
      <3>1. AccountOf[s] \in Accounts
        BY <1>0, <2>2, <2>7
      <3>2. key(AccountOf[s]) = KeysBack(u)[AccountOf[s]]
            /\ store(AccountOf[s]) = StoresBack(u)[AccountOf[s]]
        BY <2>3, <2>4, <3>1
      <3> QED BY <2>1, <2>2, <3>2 DEF GivenBack, Restored3
    <2> QED BY <2>5, <2>6, <2>7
  <1>2. RestorableWithout({}) = AsItIs
    BY DEF RestorableWithout, AsItIs, Restored3
  <1> QED BY <1>1, <1>2

\* So the abstract saved login and fallback are these.
LEMMA SavedValue ==
    TypeInv /\ OneToUndo =>
       /\ SavedIs(RestorableWithout(Undoable))
       /\ \A s : SavedIs(s) => RestorableWithout(Undoable) = s
       /\ \A u \in Logins : (\A l \in Logins : MustUndo(l) => l = u) =>
             RestorableWithout(Undoable \cup {u}) = GivenBack(u)
  <1> SUFFICES ASSUME TypeInv, OneToUndo
               PROVE  /\ SavedIs(RestorableWithout(Undoable))
                      /\ \A s : SavedIs(s) => RestorableWithout(Undoable) = s
                      /\ \A u \in Logins : (\A l \in Logins : MustUndo(l) => l = u) =>
                            RestorableWithout(Undoable \cup {u}) = GivenBack(u)
    OBVIOUS
  <1>1. ASSUME NEW u \in Logins, \A l \in Logins : MustUndo(l) => l = u
        PROVE  RestorableWithout(Undoable \cup {u}) = GivenBack(u)
    <2>1. Undoable \cup {u} = {u}
      BY <1>1 DEF Undoable
    <2> QED BY <2>1, RestorableValue
  <1>2. SavedIs(RestorableWithout(Undoable))
    <2>1. ASSUME NEW u \in Logins, MustUndo(u) PROVE RestorableWithout(Undoable) = GivenBack(u)
      <3>1. Undoable = {u}
        BY <2>1 DEF Undoable, OneToUndo
      <3> QED BY <3>1, RestorableValue
    <2>2. ASSUME \A u \in Logins : ~MustUndo(u) PROVE RestorableWithout(Undoable) = AsItIs
      <3>1. Undoable = {}
        BY <2>2 DEF Undoable
      <3> QED BY <3>1, RestorableValue
    <2> QED BY <2>1, <2>2 DEF SavedIs
  <1>3. ASSUME NEW s, SavedIs(s) PROVE RestorableWithout(Undoable) = s
    BY <1>2, <1>3 DEF SavedIs
  <1> QED BY <1>1, <1>2, <1>3

-----------------------------------------------------------------------------
(* What the steps may write *)

\* Credentials are those of a login that is there already.
LEMMA KnownNext == TypeInv /\ Known /\ [Next]_vars => Known'
  <1> SUFFICES ASSUME TypeInv, Known, [Next]_vars PROVE Known'
    OBVIOUS
  <1>0. /\ TriedInv' /\ txn \in Logins \cup {Nobody}
        /\ tried \subseteq Logins /\ Nobody \notin Logins
    BY TriedNext, ConstantsAssumption DEF Known, TypeInv, TypeOK
  <1> DEFINE Kept == tried \cup {Nobody}
             Stays == /\ tried \subseteq tried'
                      /\ session' \in Kept /\ displaced'.session \in Kept
                      /\ superseded'.was.session \in Kept
                      /\ superseded'.txn \in Kept \cup {Corrupt}
  <1>1. /\ session \in Kept /\ displaced.session \in Kept /\ superseded.was.session \in Kept
        /\ superseded.txn \in Kept \cup {Corrupt} /\ NoCredentials.session \in Kept
        /\ NoSlot.was.session \in Kept /\ NoSlot.txn \in Kept
        /\ pc \in Working => txn \in Kept
    BY DEF Known, TriedInv, NoCredentials, NoSlot
  <1>2. Next => Stays
    <2> SUFFICES ASSUME Next PROVE Stays
      OBVIOUS
    <2> HIDE DEF Kept
    <2> USE DEF Steady, keyring, Keep, disk, environment, At
    <2>1. CASE Adopting
      BY <1>1, <2>1 DEF Adopting, BeginLogin, OpenJournal, HoldAside, AdvanceHeldAside, Install,
         AdvanceInstalled, OpenSession
    <2>2. CASE ReadDisplaced
      BY <1>1, <2>2 DEF ReadDisplaced
    <2>3. CASE StageDisplaced
      <3>1. txn \in Kept
        BY <1>1, <2>3 DEF StageDisplaced, Working, Resting, Steps
      <3> QED BY <1>1, <2>3, <3>1 DEF StageDisplaced
    <2>4. CASE SaveSession
      <3>1. txn \in Kept
        BY <1>1, <2>4 DEF SaveSession, Working, Resting, Steps
      <3> QED BY <1>1, <2>4, <3>1 DEF SaveSession
    <2>5. CASE MarkStaged \/ SaveKey \/ AdvanceWritten \/ SettleLogin
      BY <1>1, <2>5 DEF MarkStaged, SaveKey, AdvanceWritten, SettleLogin
    <2>6. CASE RollBack
      BY <1>1, <2>6 DEF RollBack, RollingBack, RestoreSession, RestoreKey, Kept
    <2>7. CASE Unwind \/ AdvanceUnwound \/ PutBack \/ DropPending
      BY <1>1, <2>7 DEF Unwind, AdvanceUnwound, PutBack, DropPending
    <2>8. CASE Unwound \/ Restored \/ Scratch \/ RecordRolledBack \/ MarkRolledBack
      BY <1>1, <2>8 DEF Unwound, Restored, Scratch, RecordRolledBack, MarkRolledBack, LeftOpen,
         Release, TypeInv, ModesFit
    <2>9. CASE ClearSlot \/ Forget \/ Settled
      BY <1>1, <2>9 DEF ClearSlot, Forget, Settled, Closed, Release, TypeInv, ModesFit
    <2>10. CASE PurgeAside \/ AdvanceCommitted
      BY <1>1, <2>10 DEF PurgeAside, AdvanceCommitted
    <2>11. CASE Plan
      BY <1>1, <2>11 DEF Plan, LeftOpen, Release, TypeInv, ModesFit
    <2>12. ASSUME NEW l \in Logins, Resolve(l) PROVE Stays
      BY <1>1, <2>12 DEF Resolve
    <2>13. CASE Start \/ Recovered \/ RestoreSaved \/ NothingSaved
      BY <1>1, <2>13 DEF Start, Recovered, RestoreSaved, NothingSaved, Kept
    <2>14. CASE Erasing
      BY <1>1, <2>14 DEF Erasing, Logout, EraseKey, EraseSession, EraseStore, Release, Kept
    <2>15. CASE Stopping
      BY <1>1, <2>15 DEF Stopping, Quit, Crash, CrashMidPurge, Forgotten
    <2> QED BY <2>1, <2>2, <2>3, <2>4, <2>5, <2>6, <2>7, <2>8, <2>9, <2>10, <2>11, <2>12, <2>13,
          <2>14, <2>15 DEF Next, Step, Recording, Unwinding, Concluding, Starting
  <1>3. CASE Next
    BY <1>0, <1>2, <1>3 DEF Known
  <1>4. CASE UNCHANGED vars
    BY <1>0, <1>1, <1>4 DEF Known, vars, disk, keyring, process, environment
  <1> QED BY <1>3, <1>4

\* A write of the journal is done, or it is not and its step says so.
LEMMA PlainPersist ==
    ASSUME Plain, TypeOK, txn \in Logins, NEW rec \in Record, NEW onOk, NEW onError,
           Persist(rec, onOk, onError)
    PROVE  /\ \A l \in Logins : l # txn => journal'[l] = journal[l]
           /\ \/ pc' = onOk /\ record' = rec /\ journal'[txn] = rec
              \/ pc' = onError /\ record' = record /\ journal' = journal
  <1>1. journal \in [Logins -> Record] /\ ~Fault("sync")
    BY DEF TypeOK, Plain, Fault
  <1> QED BY <1>1 DEF Persist, Goto

\* Likewise when the record is the journal's.
LEMMA PlainAdvance ==
    ASSUME Plain, TypeOK, txn \in Logins, NEW stage \in Stages, NEW onOk, NEW onError,
           Advance(stage, onOk, onError), record = journal[txn]
    PROVE  /\ \A l \in Logins : l # txn => journal'[l] = journal[l]
           /\ \/ pc' = onOk /\ record' = journal'[txn] /\ journal'[txn].stage = stage
              \/ pc' = onError /\ record' = record /\ journal' = journal
  <1>1. CASE record.stage = stage
    BY <1>1 DEF Advance, Goto
  <1>2. CASE record.stage # stage
    <2> DEFINE rec == [record EXCEPT !.stage = stage]
    <2>1. rec \in Record /\ rec.stage = stage
      BY Kinds DEF TypeOK
    <2>2. Persist(rec, onOk, onError)
      BY <1>2 DEF Advance
    <2> HIDE DEF rec
    <2> QED BY <2>1, <2>2, PlainPersist
  <1> QED BY <1>1, <1>2

\* A directory that was moved away is gone from its place, and at the other.
LEMMA PlainMove ==
    ASSUME NEW from, NEW to
    PROVE  \A m \in Moves(from, to) :
              \/ m[1] = Nothing /\ m[2] = from /\ to = Nothing /\ from # Nothing
              \/ m[1] = from /\ m[2] = to /\ (from = Nothing => ~m[3]) /\ (~m[3] => from = Nothing)
  <1> SUFFICES ASSUME NEW m \in Moves(from, to)
               PROVE  \/ m[1] = Nothing /\ m[2] = from /\ to = Nothing /\ from # Nothing
                      \/ /\ m[1] = from /\ m[2] = to
                         /\ (from = Nothing => ~m[3]) /\ (~m[3] => from = Nothing)
    OBVIOUS
  <1>1. \/ m = <<Nothing, to, FALSE>> /\ from = Nothing
        \/ m = <<from, to, TRUE>> /\ from # Nothing
        \/ m = <<Nothing, from, TRUE>> /\ to = Nothing /\ from # Nothing
        \/ m = <<Nothing, from, FALSE>> /\ to = Nothing /\ from # Nothing
    BY DEF Moves
  <1>2. CASE m = <<Nothing, to, FALSE>> /\ from = Nothing
    BY <1>2
  <1>3. CASE m = <<from, to, TRUE>> /\ from # Nothing
    BY <1>3
  <1>4. CASE m = <<Nothing, from, TRUE>> /\ to = Nothing /\ from # Nothing
    BY <1>4
  <1>5. CASE m = <<Nothing, from, FALSE>> /\ to = Nothing /\ from # Nothing
    BY <1>5
  <1> QED BY <1>1, <1>2, <1>3, <1>4, <1>5

\* A store that was purged is gone, or broken, or nothing happened to it.
LEMMA PlainPurge ==
    ASSUME NEW store, NEW p \in Purge(store)
    PROVE  p[1] \in {Nothing, Debris, store} /\ p[2] \in BOOLEAN /\ (~p[2] => p[1] = Nothing)
  <1>1. p = <<Nothing, FALSE>> \/ p = <<store, TRUE>> \/ p = <<Debris, TRUE>>
    BY DEF Purge
  <1>2. CASE p = <<Nothing, FALSE>>
    BY <1>2
  <1>3. CASE p = <<store, TRUE>>
    BY <1>3
  <1>4. CASE p = <<Debris, TRUE>>
    BY <1>4
  <1> QED BY <1>1, <1>2, <1>3, <1>4

\* What the parts of the invariant are about.
LEMMA LoginFacts ==
    ASSUME TypeInv, AtomInv
    PROVE  /\ OneToUndo /\ RecordFits /\ StoresFit /\ SlotFits /\ HeldFits /\ GivenBackFits
           /\ journal \in [Logins -> Record] /\ record \in Record
           /\ target \in [Accounts -> Stores] /\ aside \in [Logins -> Stores]
           /\ pending \in [Logins -> Stores]
           /\ storeKey \in [Accounts -> Logins \cup {Nobody}] /\ session \in Logins \cup {Nobody}
           /\ superseded \in Slot /\ displaced \in Credentials /\ failed \in BOOLEAN
           /\ AccountOf \in [Logins -> Accounts]
              /\ Logins \cap {Nobody, Corrupt, Nothing, Debris} = {}
           /\ Corrupt # Nobody /\ Nothing # Debris
           /\ pc \in Working => txn \in Logins /\ Account \in Accounts /\ txn # Nobody
  <1>1. pc \in Working => txn \in Logins /\ txn # Nobody
    BY ConstantsAssumption DEF TypeInv, AtHand, Working, Resting
  <1>2. pc \in Working => Account \in Accounts
    BY <1>1, ConstantsAssumption DEF Account
  <1> QED BY <1>1, <1>2, ConstantsAssumption DEF TypeInv, TypeOK, AtomInv, LoginFits

\* Making the new store: until the journal names it, and then until its
\* credentials are written, the next start restores the login before.
LEMMA AdoptingFits ==
    ASSUME Plain, TypeInv, AtomInv, NEW s, SavedIs(s), Adopting
    PROVE  LoginFits' /\ SavedIs(s)'
  <1> USE DEF At, Goto, Steady, keyring
  <1> HIDE DEF SavedIs, AtomInv, LoginFits
  <1>f. /\ OneToUndo /\ RecordFits /\ StoresFit /\ SlotFits /\ HeldFits /\ GivenBackFits
        /\ journal \in [Logins -> Record] /\ target \in [Accounts -> Stores]
        /\ aside \in [Logins -> Stores] /\ pending \in [Logins -> Stores]
        /\ Logins \cap {Nobody, Corrupt, Nothing, Debris} = {}
        /\ AccountOf \in [Logins -> Accounts]
        /\ pc \in Working => txn \in Logins /\ Account \in Accounts
        /\ SavedIs(s)
    BY LoginFacts
  <1>1. ASSUME NEW l \in Logins, BeginLogin(l) PROVE LoginFits' /\ SavedIs(s)'
    <2>1. /\ pc = "idle" /\ pc' = "open" /\ mode = "none" /\ mode' = "adopt" /\ txn' = l
             /\ l \notin tried
          /\ \A k \in Logins : ~MustUndo(k)
          /\ UNCHANGED <<journal, target, session, storeKey, superseded, todo, blocked>>
      BY <1>1 DEF BeginLogin, Plain, TypeInv, ModesFit
    <2>2. PICK gone \in Sweepable : /\ aside' = Without(aside, gone)
                                   /\ pending' = [Without(pending, gone) EXCEPT ![l] = l]
      BY <1>1 DEF BeginLogin
    <2>3. /\ aside'[l] = Nothing /\ pending'[l] = l /\ journal[l].stage = "Closed"
          /\ session # l /\ superseded.txn # l
      BY <1>f, <2>1, <2>2 DEF Without, AtomInv, Known, TriedInv, Open
    <2>4. OneToUndo'
      BY <1>f, <2>1, <2>2, <2>3 DEF OneToUndo, MustUndo, Working, Resting, Steps
    <2>5. RecordFits'
      BY <1>f, <2>1, <2>2, <2>3 DEF RecordFits, StagesOf, Working, Resting, Steps
    <2>6. StoresFit'
      BY <1>f, <2>1, <2>2, <2>3 DEF StoresFit, Account
    <2>7. SlotFits'
      BY <1>f, <2>1, <2>2, <2>3 DEF SlotFits, MustUndo
    <2>8. HeldFits'
      BY <1>f, <2>1, <2>2, <2>3 DEF HeldFits, Staged, Account
    <2>9. GivenBackFits'
      BY <1>f, <2>1, <2>2, <2>3 DEF GivenBackFits, SessionIsBack, StoreIsBack, Staged, Account
    <2>10. SavedIs(s)'
      BY <1>f, <2>1, <2>2, <2>3 DEF SavedIs, GivenBack, AsItIs, SessionBack, KeysBack,
         StoresBack, MustUndo
    <2> QED BY <2>4, <2>5, <2>6, <2>7, <2>8, <2>9, <2>10 DEF LoginFits
  <1>2. CASE OpenJournal
    <2>1. /\ pc = "open" /\ mode = "adopt" /\ pc \in Working
          /\ UNCHANGED <<txn, mode, target, aside, pending, session, storeKey, superseded,
                         displaced, failed, todo, blocked>>
      BY <1>2 DEF OpenJournal, TypeInv, ModesFit, Working, Resting, Steps
    <2>2. /\ \A l \in Logins : l # txn => journal'[l] = journal[l]
          /\ \/ pc' = "holdAside" /\ record' = journal'[txn] /\ journal'[txn].stage = "Prepared"
             \/ pc' = "scratch" /\ record' = record /\ journal' = journal
      <3> DEFINE rec == [stage |-> "Prepared", staged |-> FALSE]
      <3>1. rec \in Record /\ rec.stage = "Prepared"
        BY DEF Record, Stages, UndoStages
      <3>2. Persist(rec, "holdAside", "scratch")
        BY <1>2 DEF OpenJournal
      <3> HIDE DEF rec
      <3> QED BY <1>f, <2>1, <3>1, <3>2, PlainPersist DEF TypeInv
    <2>3. /\ journal[txn].stage = "Closed" /\ aside[txn] = Nothing /\ superseded.txn # txn
             /\ session # txn
          /\ \A l \in Logins : ~MustUndo(l)
      BY <1>f, <2>1, <2>2 DEF RecordFits, StagesOf, StoresFit, SlotFits, OneToUndo, MustUndo,
         UndoStages
    <2>4. OneToUndo'
      BY <1>f, <2>1, <2>2, <2>3 DEF OneToUndo, MustUndo, Working, Resting, Steps, UndoStages
    <2>5. RecordFits'
      BY <1>f, <2>1, <2>2, <2>3 DEF RecordFits, StagesOf, Working, Resting, Steps, UndoStages,
         TerminalStages, OursStages, Stages
    <2>6. StoresFit'
      BY <1>f, <2>1, <2>2, <2>3 DEF StoresFit, Account
    <2>7. SlotFits'
      BY <1>f, <2>1, <2>2, <2>3 DEF SlotFits, MustUndo, UndoStages
    <2>8. HeldFits'
      BY <1>f, <2>1, <2>2, <2>3 DEF HeldFits, Staged, Account
    <2>9. GivenBackFits'
      BY <1>f, <2>1, <2>2, <2>3 DEF GivenBackFits, SessionIsBack, StoreIsBack, Staged, Account
    <2>10. SavedIs(s)'
      BY <1>f, <2>1, <2>2, <2>3 DEF SavedIs, GivenBack, AsItIs, SessionBack, KeysBack,
         StoresBack, MustUndo, UndoStages, OursStages
    <2> QED BY <2>4, <2>5, <2>6, <2>7, <2>8, <2>9, <2>10 DEF LoginFits
  <1>3. CASE HoldAside
    <2>1. /\ pc = "holdAside" /\ mode = "adopt" /\ pc \in Working
          /\ UNCHANGED <<txn, mode, journal, record, pending, session, storeKey, superseded,
                         displaced, todo, blocked>>
      BY <1>3 DEF HoldAside, TypeInv, ModesFit, Working, Resting, Steps
    <2>2. journal[txn].stage = "Prepared" /\ aside[txn] = Nothing /\ superseded.txn # txn
      BY <1>f, <2>1 DEF RecordFits, StagesOf, StoresFit, SlotFits
    <2>3. PICK m \in Moves(target[Account], aside[txn]) :
              /\ target' = [target EXCEPT ![Account] = m[1]]
              /\ aside' = [aside EXCEPT ![txn] = m[2]]
              /\ pc' = IF m[3] THEN "unwind" ELSE "advanceHeldAside"
      BY <1>3 DEF HoldAside
    <2>4. \/ /\ m[1] = Nothing /\ m[2] = target[Account] /\ target[Account] # Nothing
          \/ /\ m[1] = target[Account] /\ m[2] = aside[txn]
             /\ ~m[3] => target[Account] = Nothing
      BY <2>3, PlainMove
    <2>5. /\ pc' \in {"unwind", "advanceHeldAside"}
          /\ \/ /\ target[Account] # Nothing
                /\ target' = [target EXCEPT ![Account] = Nothing]
                /\ aside' = [aside EXCEPT ![txn] = target[Account]]
             \/ /\ target' = [target EXCEPT ![Account] = target[Account]]
                /\ aside' = [aside EXCEPT ![txn] = aside[txn]]
                /\ pc' = "advanceHeldAside" => target[Account] = Nothing
      BY <2>3, <2>4
    <2>6. /\ pc' = "advanceHeldAside" => target'[Account] = Nothing
          /\ \/ /\ target[Account] # Nothing
                /\ target' = [target EXCEPT ![Account] = Nothing]
                /\ aside' = [aside EXCEPT ![txn] = target[Account]]
             \/ UNCHANGED <<target, aside>>
      BY <1>f, <2>1, <2>5
    <2>7. OneToUndo'
      BY <1>f, <2>1, <2>2, <2>3, <2>4, <2>5, <2>6 DEF OneToUndo, MustUndo, Working, Resting, Steps
    <2>8. RecordFits'
      BY <1>f, <2>1, <2>2, <2>3, <2>4, <2>5, <2>6 DEF RecordFits, StagesOf, Working, Resting,
         Steps, UndoStages
    <2>9. StoresFit'
      BY <1>f, <2>1, <2>2, <2>3, <2>4, <2>5, <2>6 DEF StoresFit, Account
    <2>10. SlotFits'
      BY <1>f, <2>1, <2>2, <2>3, <2>4, <2>5, <2>6 DEF SlotFits, MustUndo
    <2>11. HeldFits'
      BY <1>f, <2>1, <2>2, <2>3, <2>4, <2>5, <2>6 DEF HeldFits, Staged, Account
    <2>12. GivenBackFits'
      BY <1>f, <2>1, <2>2, <2>3, <2>4, <2>5, <2>6 DEF GivenBackFits, SessionIsBack, StoreIsBack,
         Staged, Account
    <2>13. SavedIs(s)'
      <3>1. \A l \in Logins : MustUndo(l) => l = txn
        BY <1>f, <2>1 DEF OneToUndo
      <3>2. StoresBack(txn)' = StoresBack(txn)
        BY <1>f, <2>1, <2>2, <2>6 DEF StoresBack, Account, OursStages
      <3>3. GivenBack(txn)' = GivenBack(txn)
        BY <2>1, <3>2 DEF GivenBack, SessionBack, KeysBack
      <3>4. MustUndo(txn) /\ MustUndo(txn)' /\ \A l \in Logins : MustUndo(l)' => l = txn
        BY <1>f, <3>1, <2>1, <2>2, <2>6 DEF MustUndo, UndoStages
      <3> QED BY <1>f, <2>1, <3>1, <3>3, <3>4 DEF SavedIs
    <2> QED BY <2>7, <2>8, <2>9, <2>10, <2>11, <2>12, <2>13 DEF LoginFits
  <1>4. CASE AdvanceHeldAside
    <2>1. /\ pc = "advanceHeldAside" /\ mode = "adopt" /\ pc \in Working
          /\ Advance("OldStoreHeldAside", "install", "unwind")
          /\ UNCHANGED <<txn, mode, target, aside, pending, session, storeKey, superseded,
                         displaced, failed, todo, blocked>>
      BY <1>4 DEF AdvanceHeldAside, TypeInv, ModesFit, Working, Resting, Steps
    <2>2. /\ record = journal[txn] /\ journal[txn].stage = "Prepared" /\ superseded.txn # txn
          /\ target[Account] = Nothing
      BY <1>f, <2>1 DEF RecordFits, StagesOf, SlotFits, StoresFit
    <2>3. /\ \A l \in Logins : l # txn => journal'[l] = journal[l]
          /\ \/ /\ pc' = "install" /\ record' = journal'[txn]
                /\ journal'[txn].stage = "OldStoreHeldAside"
             \/ pc' = "unwind" /\ record' = record /\ journal' = journal
      BY <1>f, <2>1, <2>2, PlainAdvance DEF TypeInv, Stages, UndoStages
    <2>4. OneToUndo'
      BY <1>f, <2>1, <2>2, <2>3 DEF OneToUndo, MustUndo, Working, Resting, Steps, UndoStages
    <2>5. RecordFits'
      BY <1>f, <2>1, <2>2, <2>3 DEF RecordFits, StagesOf, Working, Resting, Steps, UndoStages
    <2>6. StoresFit'
      BY <1>f, <2>1, <2>2, <2>3 DEF StoresFit, Account
    <2>7. SlotFits'
      BY <1>f, <2>1, <2>2, <2>3 DEF SlotFits, MustUndo, UndoStages
    <2>8. HeldFits'
      BY <1>f, <2>1, <2>2, <2>3 DEF HeldFits, Staged, Account
    <2>9. GivenBackFits'
      BY <1>f, <2>1, <2>2, <2>3 DEF GivenBackFits, SessionIsBack, StoreIsBack, Staged, Account
    <2>10. SavedIs(s)'
      <3>1. \A l \in Logins : MustUndo(l) => l = txn
        BY <1>f, <2>1 DEF OneToUndo
      <3>2. StoresBack(txn)' = StoresBack(txn)
        BY <1>f, <2>1, <2>2, <2>3 DEF StoresBack, Account, OursStages
      <3>3. GivenBack(txn)' = GivenBack(txn)
        BY <2>1, <3>2 DEF GivenBack, SessionBack, KeysBack
      <3>4. MustUndo(txn) /\ MustUndo(txn)' /\ \A l \in Logins : MustUndo(l)' => l = txn
        BY <1>f, <3>1, <2>1, <2>2, <2>3 DEF MustUndo, UndoStages
      <3> QED BY <1>f, <2>1, <3>1, <3>3, <3>4 DEF SavedIs
    <2> QED BY <2>4, <2>5, <2>6, <2>7, <2>8, <2>9, <2>10 DEF LoginFits
  <1>5. CASE Install
    <2>1. /\ pc = "install" /\ mode = "adopt" /\ pc \in Working
          /\ UNCHANGED <<txn, mode, journal, record, aside, session, storeKey, superseded,
                         displaced, failed, todo, blocked>>
      BY <1>5 DEF Install, TypeInv, ModesFit, Working, Resting, Steps
    <2>2. /\ journal[txn].stage = "OldStoreHeldAside" /\ pending[txn] = txn /\ superseded.txn # txn
      BY <1>f, <2>1 DEF RecordFits, StagesOf, StoresFit, SlotFits
    <2>3. \/ pc' = "advanceInstalled" /\ target' = [target EXCEPT ![Account] = txn]
          \/ pc' = "unwind" /\ target' = target
      BY <1>5, <2>1, <2>2 DEF Install
    <2>4. OneToUndo'
      BY <1>f, <2>1, <2>2, <2>3 DEF OneToUndo, MustUndo, Working, Resting, Steps
    <2>5. RecordFits'
      BY <1>f, <2>1, <2>2, <2>3 DEF RecordFits, StagesOf, Working, Resting, Steps, UndoStages
    <2>6. StoresFit'
      <3>1. \A l \in Logins : MustUndo(l) => l = txn
        BY <1>f, <2>1 DEF OneToUndo
      <3>2. \A l \in Logins : l # txn =>
                journal[l].stage \notin {"OldStoreHeldAside", "NewStoreInstalled"}
        BY <3>1 DEF MustUndo, UndoStages
      <3> QED BY <1>f, <2>1, <2>2, <2>3, <3>2 DEF StoresFit, Account
    <2>7. SlotFits'
      BY <1>f, <2>1, <2>2, <2>3 DEF SlotFits, MustUndo
    <2>8. HeldFits'
      BY <1>f, <2>1, <2>2, <2>3 DEF HeldFits, Staged, Account
    <2>9. GivenBackFits'
      BY <1>f, <2>1, <2>2, <2>3 DEF GivenBackFits, SessionIsBack, StoreIsBack, Staged, Account
    <2>10. SavedIs(s)'
      <3>1. \A l \in Logins : MustUndo(l) => l = txn
        BY <1>f, <2>1 DEF OneToUndo
      <3>2. StoresBack(txn)' = StoresBack(txn)
        BY <1>f, <2>1, <2>2, <2>3 DEF StoresBack, Account, OursStages
      <3>3. GivenBack(txn)' = GivenBack(txn)
        BY <2>1, <3>2 DEF GivenBack, SessionBack, KeysBack
      <3>4. MustUndo(txn) /\ MustUndo(txn)' /\ \A l \in Logins : MustUndo(l)' => l = txn
        BY <1>f, <3>1, <2>1, <2>2, <2>3 DEF MustUndo, UndoStages
      <3> QED BY <1>f, <2>1, <3>1, <3>3, <3>4 DEF SavedIs
    <2> QED BY <2>4, <2>5, <2>6, <2>7, <2>8, <2>9, <2>10 DEF LoginFits
  <1>6. CASE AdvanceInstalled
    <2>1. /\ pc = "advanceInstalled" /\ mode = "adopt" /\ pc \in Working
          /\ Advance("NewStoreInstalled", "openSession", "unwind")
          /\ UNCHANGED <<txn, mode, target, aside, pending, session, storeKey, superseded,
                         displaced, failed, todo, blocked>>
      BY <1>6 DEF AdvanceInstalled, TypeInv, ModesFit, Working, Resting, Steps
    <2>2. /\ record = journal[txn] /\ journal[txn].stage = "OldStoreHeldAside"
             /\ superseded.txn # txn
          /\ target[Account] = txn
      BY <1>f, <2>1 DEF RecordFits, StagesOf, SlotFits, StoresFit
    <2>3. /\ \A l \in Logins : l # txn => journal'[l] = journal[l]
          /\ \/ /\ pc' = "openSession" /\ record' = journal'[txn]
                /\ journal'[txn].stage = "NewStoreInstalled"
             \/ pc' = "unwind" /\ record' = record /\ journal' = journal
      BY <1>f, <2>1, <2>2, PlainAdvance DEF TypeInv, Stages, UndoStages
    <2>4. OneToUndo'
      BY <1>f, <2>1, <2>2, <2>3 DEF OneToUndo, MustUndo, Working, Resting, Steps, UndoStages
    <2>5. RecordFits'
      BY <1>f, <2>1, <2>2, <2>3 DEF RecordFits, StagesOf, Working, Resting, Steps, UndoStages
    <2>6. StoresFit'
      BY <1>f, <2>1, <2>2, <2>3 DEF StoresFit, Account
    <2>7. SlotFits'
      BY <1>f, <2>1, <2>2, <2>3 DEF SlotFits, MustUndo, UndoStages
    <2>8. HeldFits'
      BY <1>f, <2>1, <2>2, <2>3 DEF HeldFits, Staged, Account
    <2>9. GivenBackFits'
      BY <1>f, <2>1, <2>2, <2>3 DEF GivenBackFits, SessionIsBack, StoreIsBack, Staged, Account
    <2>10. SavedIs(s)'
      BY <1>f, <2>1, <2>2, <2>3 DEF SavedIs, GivenBack, AsItIs, SessionBack, KeysBack,
         StoresBack, MustUndo, UndoStages, OursStages
    <2> QED BY <2>4, <2>5, <2>6, <2>7, <2>8, <2>9, <2>10 DEF LoginFits
  <1>7. CASE OpenSession
    <2>1. /\ pc = "openSession" /\ pc \in Working /\ mode = "adopt"
          /\ \/ mode' = "record" /\ pc' = "readDisplaced"
             \/ mode' = "abandon" /\ pc' = "unwind"
          /\ UNCHANGED <<txn, journal, record, target, aside, pending, session, storeKey,
                         superseded, displaced, failed, todo, blocked>>
      BY <1>7 DEF OpenSession, disk, TypeInv, ModesFit, Working, Resting, Steps
    <2>2. superseded.txn # txn
      BY <1>f, <2>1 DEF SlotFits
    <2>3. OneToUndo'
      BY <1>f, <2>1, <2>2 DEF OneToUndo, MustUndo, Working, Resting, Steps
    <2>4. RecordFits'
      BY <1>f, <2>1, <2>2 DEF RecordFits, StagesOf, Working, Resting, Steps, UndoStages
    <2>5. StoresFit'
      BY <1>f, <2>1, <2>2 DEF StoresFit, Account
    <2>6. SlotFits'
      BY <1>f, <2>1, <2>2 DEF SlotFits, MustUndo
    <2>7. HeldFits'
      BY <1>f, <2>1, <2>2 DEF HeldFits, Staged, Account
    <2>8. GivenBackFits'
      BY <1>f, <2>1, <2>2 DEF GivenBackFits, SessionIsBack, StoreIsBack, Staged, Account
    <2>9. SavedIs(s)'
      BY <1>f, <2>1, <2>2 DEF SavedIs, GivenBack, AsItIs, SessionBack, KeysBack, StoresBack,
         MustUndo
    <2> QED BY <2>3, <2>4, <2>5, <2>6, <2>7, <2>8, <2>9 DEF LoginFits
  <1> QED BY <1>1, <1>2, <1>3, <1>4, <1>5, <1>6, <1>7 DEF Adopting

\* Writing the credentials: until the journal says they are written, the next
\* start gives back the ones they displaced.
LEMMA RecordingFits ==
    ASSUME Plain, TypeInv, AtomInv, NEW s, SavedIs(s),
           ReadDisplaced \/ StageDisplaced \/ MarkStaged \/ SaveKey \/ SaveSession \/ SettleLogin
    PROVE  LoginFits' /\ SavedIs(s)'
  <1> USE DEF At, Goto, Steady, keyring
  <1>f. /\ OneToUndo /\ RecordFits /\ StoresFit /\ SlotFits /\ HeldFits /\ GivenBackFits
        /\ journal \in [Logins -> Record] /\ record \in Record
        /\ target \in [Accounts -> Stores] /\ aside \in [Logins -> Stores]
        /\ storeKey \in [Accounts -> Logins \cup {Nobody}]
        /\ superseded \in Slot /\ failed \in BOOLEAN
        /\ Logins \cap {Nobody, Corrupt, Nothing, Debris} = {}
        /\ AccountOf \in [Logins -> Accounts]
        /\ pc \in Working => txn \in Logins /\ Account \in Accounts
        /\ SavedIs(s)
    BY LoginFacts
  <1>1. CASE ReadDisplaced
    <2>1. /\ pc = "readDisplaced" /\ pc \in Working /\ mode = "record"
          /\ \/ /\ pc' = "stageDisplaced" /\ mode' = mode
                /\ displaced' = [session |-> session, key |-> storeKey[Account]]
             \/ pc' = "unwind" /\ mode' = "rollback" /\ displaced' = displaced
          /\ UNCHANGED <<txn, journal, record, target, aside, pending, session, storeKey,
                         superseded, failed, todo, blocked>>
      BY <1>1 DEF ReadDisplaced, disk, TypeInv, ModesFit, Working, Resting, Steps
    <2>2. superseded.txn # txn
      BY <1>f, <2>1 DEF SlotFits
    <2>3. OneToUndo'
      BY <1>f, <2>1, <2>2 DEF OneToUndo, MustUndo, Working, Resting, Steps
    <2>4. RecordFits'
      BY <1>f, <2>1, <2>2 DEF RecordFits, StagesOf, Working, Resting, Steps, UndoStages
    <2>5. StoresFit'
      BY <1>f, <2>1, <2>2 DEF StoresFit, Account
    <2>6. SlotFits'
      BY <1>f, <2>1, <2>2 DEF SlotFits, MustUndo
    <2>7. HeldFits'
      BY <1>f, <2>1, <2>2 DEF HeldFits, Staged, Account
    <2>8. GivenBackFits'
      BY <1>f, <2>1, <2>2 DEF GivenBackFits, SessionIsBack, StoreIsBack, Staged, Account
    <2>9. SavedIs(s)'
      BY <1>f, <2>1, <2>2 DEF SavedIs, GivenBack, AsItIs, SessionBack, KeysBack, StoresBack,
         MustUndo
    <2> QED BY <2>3, <2>4, <2>5, <2>6, <2>7, <2>8, <2>9 DEF LoginFits
  <1>2. CASE StageDisplaced
    <2>1. /\ pc = "stageDisplaced" /\ pc \in Working /\ mode = "record"
          /\ \/ pc' = "markStaged" /\ superseded' = [txn |-> txn, was |-> displaced]
             \/ pc' = "rollingBack" /\ superseded' = superseded
          /\ UNCHANGED <<txn, mode, journal, record, target, aside, pending, session, storeKey,
                         displaced, failed, todo, blocked>>
      BY <1>2 DEF StageDisplaced, Keep, disk, TypeInv, ModesFit, Working, Resting, Steps
    <2>2. /\ journal[txn].stage = "NewStoreInstalled" /\ record = journal[txn]
             /\ superseded.txn # txn
          /\ displaced = [session |-> session, key |-> storeKey[Account]]
      BY <1>f, <2>1 DEF RecordFits, StagesOf, SlotFits, HeldFits, Staged
    <2>3. session # txn /\ displaced.session = session /\ displaced.key = storeKey[Account]
      BY <1>f, <2>1, <2>2 DEF SlotFits, MustUndo, UndoStages
    <2>4. \A l \in Logins : MustUndo(l) => l = txn
      BY <1>f, <2>1 DEF OneToUndo
    <2>5. OneToUndo'
      BY <1>f, <2>1, <2>2, <2>3, <2>4 DEF OneToUndo, MustUndo, Working, Resting, Steps
    <2>6. RecordFits'
      BY <1>f, <2>1, <2>2, <2>3, <2>4 DEF RecordFits, StagesOf, Working, Resting, Steps
    <2>7. StoresFit'
      BY <1>f, <2>1, <2>2, <2>3, <2>4 DEF StoresFit, Account
    <2>8. SlotFits'
      BY <1>f, <2>1, <2>2, <2>3, <2>4 DEF SlotFits, MustUndo
    <2>9. HeldFits'
      BY <1>f, <2>1, <2>2, <2>3, <2>4 DEF HeldFits, Staged, Account
    <2>10. GivenBackFits'
      BY <1>f, <2>1, <2>2, <2>3, <2>4 DEF GivenBackFits, SessionIsBack, StoreIsBack, Staged,
         Account
    <2>11. SavedIs(s)'
      <3>1. \A l \in Logins : MustUndo(l) => l = txn
        BY <1>f, <2>1 DEF OneToUndo
      <3>2. SessionBack(txn)' = SessionBack(txn)
        BY <1>f, <2>1, <2>2, <2>3 DEF SessionBack
      <3>3. KeysBack(txn)' = KeysBack(txn)
        BY <1>f, <2>1, <2>2, <2>3 DEF KeysBack, Account
      <3>4. StoresBack(txn)' = StoresBack(txn)
        BY <1>f, <2>1, <2>2, <2>3 DEF StoresBack, Account, OursStages
      <3>5. MustUndo(txn) /\ MustUndo(txn)' /\ \A l \in Logins : MustUndo(l)' => l = txn
        BY <1>f, <3>1, <2>1, <2>2 DEF MustUndo, UndoStages
      <3> QED BY <1>f, <2>1, <3>1, <3>2, <3>3, <3>4, <3>5 DEF SavedIs, GivenBack
    <2> QED BY <2>5, <2>6, <2>7, <2>8, <2>9, <2>10, <2>11 DEF LoginFits
  <1>3. CASE MarkStaged
    <2>1. /\ pc = "markStaged" /\ pc \in Working /\ mode = "record"
          /\ UNCHANGED <<txn, mode, target, aside, pending, session, storeKey, superseded,
                         displaced, failed, todo, blocked>>
      BY <1>3 DEF MarkStaged, TypeInv, ModesFit, Working, Resting, Steps
    <2>2. /\ journal[txn].stage = "NewStoreInstalled" /\ record = journal[txn]
             /\ superseded.txn = txn
      BY <1>f, <2>1 DEF RecordFits, StagesOf, SlotFits
    <2>3. /\ \A l \in Logins : l # txn => journal'[l] = journal[l]
          /\ record' = journal'[txn] /\ journal'[txn].stage = "NewStoreInstalled"
          /\ pc' \in {"saveKey", "rollingBack"}
      <3> DEFINE rec == [record EXCEPT !.staged = TRUE]
      <3>1. rec \in Record /\ rec.stage = record.stage
        BY <1>f, Kinds
      <3>2. Persist(rec, "saveKey", "rollingBack")
        BY <1>3 DEF MarkStaged
      <3> HIDE DEF rec
      <3> QED BY <1>f, <2>1, <2>2, <3>1, <3>2, PlainPersist DEF TypeInv
    <2>4. OneToUndo'
      BY <1>f, <2>1, <2>2, <2>3 DEF OneToUndo, MustUndo, Working, Resting, Steps, UndoStages
    <2>5. RecordFits'
      BY <1>f, <2>1, <2>2, <2>3 DEF RecordFits, StagesOf, Working, Resting, Steps
    <2>6. StoresFit'
      BY <1>f, <2>1, <2>2, <2>3 DEF StoresFit, Account
    <2>7. SlotFits'
      BY <1>f, <2>1, <2>2, <2>3 DEF SlotFits, MustUndo, UndoStages
    <2>8. HeldFits'
      BY <1>f, <2>1, <2>2, <2>3 DEF HeldFits, Staged, Account
    <2>9. GivenBackFits'
      BY <1>f, <2>1, <2>2, <2>3 DEF GivenBackFits, SessionIsBack, StoreIsBack, Staged, Account
    <2>10. SavedIs(s)'
      <3>1. \A l \in Logins : MustUndo(l) => l = txn
        BY <1>f, <2>1 DEF OneToUndo
      <3>2. SessionBack(txn)' = SessionBack(txn)
        BY <1>f, <2>1, <2>2, <2>3 DEF SessionBack
      <3>3. KeysBack(txn)' = KeysBack(txn)
        BY <1>f, <2>1, <2>2, <2>3 DEF KeysBack, Account
      <3>4. StoresBack(txn)' = StoresBack(txn)
        BY <1>f, <2>1, <2>2, <2>3 DEF StoresBack, Account, OursStages
      <3>5. MustUndo(txn) /\ MustUndo(txn)' /\ \A l \in Logins : MustUndo(l)' => l = txn
        BY <1>f, <3>1, <2>1, <2>2, <2>3 DEF MustUndo, UndoStages
      <3> QED BY <1>f, <2>1, <3>1, <3>2, <3>3, <3>4, <3>5 DEF SavedIs, GivenBack
    <2> QED BY <2>4, <2>5, <2>6, <2>7, <2>8, <2>9, <2>10 DEF LoginFits
  <1>4. CASE SaveKey
    <2>1. /\ pc = "saveKey" /\ pc \in Working /\ mode = "record"
          /\ \/ pc' = "saveSession" /\ storeKey' = [storeKey EXCEPT ![Account] = txn]
             \/ pc' = "rollingBack" /\ storeKey' = storeKey
          /\ UNCHANGED <<txn, mode, journal, record, target, aside, pending, session,
                         superseded, displaced, failed, todo, blocked>>
      BY <1>4 DEF SaveKey, Keep, disk, TypeInv, ModesFit, Working, Resting, Steps
    <2>2. /\ journal[txn].stage = "NewStoreInstalled" /\ record = journal[txn]
             /\ superseded.txn = txn
          /\ displaced = superseded.was
      BY <1>f, <2>1 DEF RecordFits, StagesOf, SlotFits, HeldFits, Staged
    <2>3. OneToUndo'
      BY <1>f, <2>1, <2>2 DEF OneToUndo, MustUndo, Working, Resting, Steps
    <2>4. RecordFits'
      BY <1>f, <2>1, <2>2 DEF RecordFits, StagesOf, Working, Resting, Steps
    <2>5. StoresFit'
      BY <1>f, <2>1, <2>2 DEF StoresFit, Account
    <2>6. SlotFits'
      BY <1>f, <2>1, <2>2 DEF SlotFits, MustUndo
    <2>7. HeldFits'
      BY <1>f, <2>1, <2>2 DEF HeldFits, Staged, Account
    <2>8. GivenBackFits'
      BY <1>f, <2>1, <2>2 DEF GivenBackFits, SessionIsBack, StoreIsBack, Staged, Account
    <2>9. SavedIs(s)'
      <3>1. \A l \in Logins : MustUndo(l) => l = txn
        BY <1>f, <2>1 DEF OneToUndo
      <3>2. SessionBack(txn)' = SessionBack(txn)
        BY <1>f, <2>1, <2>2 DEF SessionBack
      <3>3. KeysBack(txn)' = KeysBack(txn)
        <4>1. KeysBack(txn) = [storeKey EXCEPT ![Account] = superseded.was.key]
          BY <2>2 DEF KeysBack, Account
        <4>2. KeysBack(txn)' = [storeKey' EXCEPT ![Account] = superseded.was.key]
          BY <2>1, <2>2 DEF KeysBack, Account
        <4>3. [[storeKey EXCEPT ![Account] = txn] EXCEPT ![Account] = superseded.was.key]
                 = [storeKey EXCEPT ![Account] = superseded.was.key]
          BY <1>f
        <4> QED BY <2>1, <4>1, <4>2, <4>3
      <3>4. StoresBack(txn)' = StoresBack(txn)
        BY <1>f, <2>1, <2>2 DEF StoresBack, Account, OursStages
      <3>5. MustUndo(txn) /\ MustUndo(txn)' /\ \A l \in Logins : MustUndo(l)' => l = txn
        BY <1>f, <3>1, <2>1, <2>2 DEF MustUndo, UndoStages
      <3> QED BY <1>f, <2>1, <3>1, <3>2, <3>3, <3>4, <3>5 DEF SavedIs, GivenBack
    <2> QED BY <2>3, <2>4, <2>5, <2>6, <2>7, <2>8, <2>9 DEF LoginFits
  <1>5. CASE SaveSession
    <2>1. /\ pc = "saveSession" /\ pc \in Working /\ mode = "record"
          /\ \/ pc' = "advanceWritten" /\ session' = txn
             \/ pc' = "rollingBack" /\ session' = session
          /\ UNCHANGED <<txn, mode, journal, record, target, aside, pending, storeKey,
                         superseded, displaced, failed, todo, blocked>>
      BY <1>5 DEF SaveSession, Keep, disk, TypeInv, ModesFit, Working, Resting, Steps
    <2>2. /\ journal[txn].stage = "NewStoreInstalled" /\ record = journal[txn]
             /\ superseded.txn = txn
          /\ displaced = superseded.was /\ storeKey[Account] = txn
      BY <1>f, <2>1 DEF RecordFits, StagesOf, SlotFits, HeldFits, Staged
    <2>3. \A l \in Logins : MustUndo(l) => l = txn
      BY <1>f, <2>1 DEF OneToUndo
    <2>4. OneToUndo'
      BY <1>f, <2>1, <2>2, <2>3 DEF OneToUndo, MustUndo, Working, Resting, Steps
    <2>5. RecordFits'
      BY <1>f, <2>1, <2>2, <2>3 DEF RecordFits, StagesOf, Working, Resting, Steps
    <2>6. StoresFit'
      BY <1>f, <2>1, <2>2, <2>3 DEF StoresFit, Account
    <2>7. SlotFits'
      BY <1>f, <2>1, <2>2, <2>3 DEF SlotFits, MustUndo
    <2>8. HeldFits'
      BY <1>f, <2>1, <2>2, <2>3 DEF HeldFits, Staged, Account
    <2>9. GivenBackFits'
      BY <1>f, <2>1, <2>2, <2>3 DEF GivenBackFits, SessionIsBack, StoreIsBack, Staged, Account
    <2>10. SavedIs(s)'
      <3>1. \A l \in Logins : MustUndo(l) => l = txn
        BY <1>f, <2>1 DEF OneToUndo
      <3>2. SessionBack(txn)' = SessionBack(txn)
        BY <1>f, <2>1, <2>2 DEF SessionBack
      <3>3. KeysBack(txn)' = KeysBack(txn)
        BY <1>f, <2>1, <2>2 DEF KeysBack, Account
      <3>4. StoresBack(txn)' = StoresBack(txn)
        BY <1>f, <2>1, <2>2 DEF StoresBack, Account, OursStages
      <3>5. MustUndo(txn) /\ MustUndo(txn)' /\ \A l \in Logins : MustUndo(l)' => l = txn
        BY <1>f, <3>1, <2>1, <2>2 DEF MustUndo, UndoStages
      <3> QED BY <1>f, <2>1, <3>1, <3>2, <3>3, <3>4, <3>5 DEF SavedIs, GivenBack
    <2> QED BY <2>4, <2>5, <2>6, <2>7, <2>8, <2>9, <2>10 DEF LoginFits
  <1>6. CASE SettleLogin
    <2>1. /\ pc = "await" /\ pc \in Working /\ mode = "record"
          /\ \/ mode' = "commit" /\ pc' = "purgeAside"
             \/ mode' = "rollback" /\ pc' = "rollingBack"
          /\ UNCHANGED <<txn, journal, record, target, aside, pending, session, storeKey,
                         superseded, displaced, failed, todo, blocked>>
      BY <1>6 DEF SettleLogin, disk, TypeInv, ModesFit, Working, Resting, Steps
    <2>2. /\ journal[txn].stage = "CredentialsWritten" /\ superseded.txn = txn
      BY <1>f, <2>1 DEF RecordFits, StagesOf, SlotFits
    <2>3. OneToUndo'
      BY <1>f, <2>1, <2>2 DEF OneToUndo, MustUndo, Working, Resting, Steps
    <2>4. RecordFits'
      BY <1>f, <2>1, <2>2 DEF RecordFits, StagesOf, Working, Resting, Steps
    <2>5. StoresFit'
      BY <1>f, <2>1, <2>2 DEF StoresFit, Account
    <2>6. SlotFits'
      BY <1>f, <2>1, <2>2 DEF SlotFits, MustUndo
    <2>7. HeldFits'
      BY <1>f, <2>1, <2>2 DEF HeldFits, Staged, Account
    <2>8. GivenBackFits'
      BY <1>f, <2>1, <2>2 DEF GivenBackFits, SessionIsBack, StoreIsBack, Staged, Account
    <2>9. SavedIs(s)'
      BY <1>f, <2>1, <2>2 DEF SavedIs, GivenBack, AsItIs, SessionBack, KeysBack, StoresBack,
         MustUndo
    <2> QED BY <2>3, <2>4, <2>5, <2>6, <2>7, <2>8, <2>9 DEF LoginFits
  <1> QED BY <1>1, <1>2, <1>3, <1>4, <1>5, <1>6

\* The step that establishes the login: from here on the next start restores it,
\* and undoing it would restore what was restored before.
LEMMA WrittenFits ==
    ASSUME Plain, TypeInv, AtomInv, NEW s, SavedIs(s), AdvanceWritten
    PROVE  /\ LoginFits'
           /\ \/ pc' = "rollingBack" /\ journal' = journal /\ SavedIs(s)'
              \/ /\ pc' = "await" /\ journal'[txn].stage = "CredentialsWritten"
                 /\ SavedIs(txn)' /\ GivenBack(txn)' = s
  <1> USE DEF At, Goto, Steady, keyring
  <1>f. /\ OneToUndo /\ RecordFits /\ StoresFit /\ SlotFits /\ HeldFits /\ GivenBackFits
        /\ journal \in [Logins -> Record] /\ record \in Record
        /\ target \in [Accounts -> Stores] /\ aside \in [Logins -> Stores]
        /\ storeKey \in [Accounts -> Logins \cup {Nobody}]
        /\ superseded \in Slot /\ failed \in BOOLEAN
        /\ Logins \cap {Nobody, Corrupt, Nothing, Debris} = {}
        /\ AccountOf \in [Logins -> Accounts]
        /\ pc \in Working => txn \in Logins /\ Account \in Accounts
        /\ SavedIs(s)
    BY LoginFacts
  <1>1. /\ pc = "advanceWritten" /\ pc \in Working /\ mode = "record"
        /\ Advance("CredentialsWritten", "await", "rollingBack")
        /\ UNCHANGED <<txn, mode, target, aside, pending, session, storeKey, superseded, displaced,
                       failed, todo, blocked>>
    BY DEF AdvanceWritten, TypeInv, ModesFit, Working, Resting, Steps
  <1>2. /\ journal[txn].stage = "NewStoreInstalled" /\ record = journal[txn]
        /\ superseded.txn = txn /\ displaced = superseded.was
        /\ storeKey[Account] = txn /\ session = txn /\ target[Account] = txn
    BY <1>f, <1>1 DEF RecordFits, StagesOf, SlotFits, HeldFits, StoresFit, Staged
  <1>3. /\ \A l \in Logins : l # txn => journal'[l] = journal[l]
        /\ \/ /\ pc' = "await" /\ record' = journal'[txn]
              /\ journal'[txn].stage = "CredentialsWritten"
           \/ pc' = "rollingBack" /\ record' = record /\ journal' = journal
    BY <1>f, <1>1, <1>2, PlainAdvance DEF TypeInv, Stages, OursStages
  <1>4. MustUndo(txn) /\ \A l \in Logins : MustUndo(l) => l = txn
    BY <1>f, <1>1, <1>2 DEF OneToUndo, MustUndo, UndoStages
  <1>5. LoginFits'
    <2>1. OneToUndo'
      BY <1>f, <1>1, <1>2, <1>3 DEF OneToUndo, MustUndo, UndoStages, Working, Resting, Steps
    <2>2. RecordFits'
      BY <1>f, <1>1, <1>2, <1>3 DEF RecordFits, StagesOf, Working, Resting, Steps
    <2>3. StoresFit'
      BY <1>f, <1>1, <1>2, <1>3 DEF StoresFit, Account
    <2>4. SlotFits'
      BY <1>f, <1>1, <1>2, <1>3, <1>4 DEF SlotFits, MustUndo, UndoStages
    <2>5. HeldFits'
      BY <1>f, <1>1, <1>2, <1>3 DEF HeldFits, Staged, Account
    <2>6. GivenBackFits'
      BY <1>f, <1>1, <1>2, <1>3 DEF GivenBackFits, SessionIsBack, StoreIsBack, Staged, Account
    <2> QED BY <2>1, <2>2, <2>3, <2>4, <2>5, <2>6 DEF LoginFits
  <1>6. s = GivenBack(txn)
    BY <1>f, <1>1, <1>4 DEF SavedIs
  <1>7. CASE pc' = "await"
    <2>1. GivenBack(txn)' = GivenBack(txn)
      BY <1>f, <1>1, <1>2, <1>3, <1>7 DEF GivenBack, SessionBack, KeysBack, StoresBack, OursStages
    <2>2. \A l \in Logins : ~MustUndo(l)'
      BY <1>3, <1>4, <1>7 DEF MustUndo, UndoStages
    <2>3. txn = AsItIs'
      BY <1>f, <1>1, <1>2 DEF AsItIs, Restored3, Account
    <2>4. SavedIs(txn)'
      BY <1>1, <2>2, <2>3 DEF SavedIs
    <2> QED BY <1>3, <1>5, <1>6, <1>7, <2>1, <2>4
  <1>8. CASE pc' = "rollingBack"
    <2>1. journal' = journal
      BY <1>3, <1>8
    <2>2. SavedIs(s)'
      BY <1>f, <1>1, <2>1 DEF SavedIs, GivenBack, AsItIs, SessionBack, KeysBack, StoresBack,
         MustUndo
    <2> QED BY <1>5, <1>8, <2>1, <2>2
  <1> QED BY <1>3, <1>7, <1>8

\* Giving back the credentials in place leaves what the next start gives back.
LEMMA RestoringFits ==
    ASSUME Plain, TypeInv, AtomInv, NEW s, SavedIs(s), RestoreSession \/ RestoreKey
    PROVE  LoginFits' /\ SavedIs(s)'
  <1> USE DEF At, Goto, Steady, keyring
  <1>f. /\ OneToUndo /\ RecordFits /\ StoresFit /\ SlotFits /\ HeldFits /\ GivenBackFits
        /\ journal \in [Logins -> Record] /\ record \in Record
        /\ target \in [Accounts -> Stores] /\ aside \in [Logins -> Stores]
        /\ storeKey \in [Accounts -> Logins \cup {Nobody}]
        /\ superseded \in Slot /\ failed \in BOOLEAN
        /\ Logins \cap {Nobody, Corrupt, Nothing, Debris} = {}
        /\ AccountOf \in [Logins -> Accounts]
        /\ pc \in Working => txn \in Logins /\ Account \in Accounts
        /\ SavedIs(s)
    BY LoginFacts
  <1>1. CASE RestoreSession
    <2>1. /\ pc = "restoreSession" /\ pc \in Working /\ pc' = "restoreKey"
             /\ mode \in {"rollback", "recover"}
          /\ \/ session' = displaced.session /\ failed' = failed
             \/ failed' = TRUE /\ session' \in {session, displaced.session}
          /\ UNCHANGED <<txn, mode, journal, record, target, aside, pending, storeKey,
                         superseded, displaced, todo, blocked>>
      BY <1>1 DEF RestoreSession, Keep, disk, TypeInv, ModesFit, Working, Resting, Steps
    <2>2. /\ journal[txn].stage \in UndoStages /\ record = journal[txn]
          /\ displaced = IF superseded.txn = txn THEN superseded.was
                         ELSE [session |-> session, key |-> storeKey[Account]]
          /\ mode = "recover" => superseded.txn = txn
      BY <1>f, <2>1 DEF RecordFits, StagesOf, SlotFits, HeldFits, Staged
    <2>3. /\ superseded.txn = txn => displaced = superseded.was
          /\ superseded.txn # txn => session' = session /\ displaced.key = storeKey[Account]
          /\ \A l \in Logins : MustUndo(l) => l = txn
      BY <1>f, <2>1, <2>2 DEF OneToUndo, MustUndo
    <2>4. OneToUndo'
      BY <1>f, <2>1, <2>2, <2>3 DEF OneToUndo, MustUndo, Working, Resting, Steps
    <2>5. RecordFits'
      BY <1>f, <2>1, <2>2, <2>3 DEF RecordFits, StagesOf, Working, Resting, Steps
    <2>6. StoresFit'
      BY <1>f, <2>1, <2>2, <2>3 DEF StoresFit, Account
    <2>7. SlotFits'
      BY <1>f, <2>1, <2>2, <2>3 DEF SlotFits, MustUndo
    <2>8. HeldFits'
      <3>1. displaced' = IF superseded'.txn = txn THEN superseded'.was
                         ELSE [session |-> session', key |-> storeKey'[Account]]
        BY <2>1, <2>2, <2>3
      <3> QED BY <2>1, <3>1 DEF HeldFits, Staged, Account
    <2>9. GivenBackFits'
      BY <1>f, <2>1, <2>2, <2>3 DEF GivenBackFits, SessionIsBack, StoreIsBack, Staged, Account
    <2>10. SavedIs(s)'
      <3>1. \A l \in Logins : MustUndo(l) => l = txn
        BY <2>3
      <3>2. SessionBack(txn)' = SessionBack(txn)
        BY <1>f, <2>1, <2>2, <2>3 DEF SessionBack
      <3>3. KeysBack(txn)' = KeysBack(txn)
        BY <1>f, <2>1, <2>2, <2>3 DEF KeysBack, Account
      <3>4. StoresBack(txn)' = StoresBack(txn)
        BY <1>f, <2>1, <2>2, <2>3 DEF StoresBack, Account, OursStages
      <3>5. MustUndo(txn) /\ MustUndo(txn)' /\ \A l \in Logins : MustUndo(l)' => l = txn
        BY <1>f, <3>1, <2>1, <2>2 DEF MustUndo, UndoStages
      <3> QED BY <1>f, <2>1, <3>1, <3>2, <3>3, <3>4, <3>5 DEF SavedIs, GivenBack
    <2> QED BY <2>4, <2>5, <2>6, <2>7, <2>8, <2>9, <2>10 DEF LoginFits
  <1>2. CASE RestoreKey
    <2>1. /\ pc = "restoreKey" /\ pc \in Working /\ mode \in {"rollback", "recover"}
          /\ pc' = IF mode = "rollback" THEN "unwind" ELSE "restored"
          /\ \/ storeKey' = [storeKey EXCEPT ![Account] = displaced.key] /\ failed' = failed
             \/ failed' = TRUE /\ storeKey' = storeKey
          /\ UNCHANGED <<txn, mode, journal, record, target, aside, pending, session,
                         superseded, displaced, todo, blocked>>
      BY <1>2 DEF RestoreKey, Keep, disk, TypeInv, ModesFit, Working, Resting, Steps
    <2>2. /\ journal[txn].stage \in UndoStages /\ record = journal[txn]
          /\ displaced = IF superseded.txn = txn THEN superseded.was
                         ELSE [session |-> session, key |-> storeKey[Account]]
          /\ mode = "recover" => superseded.txn = txn
      BY <1>f, <2>1 DEF RecordFits, StagesOf, SlotFits, HeldFits, Staged
    <2>3. /\ superseded.txn = txn => displaced = superseded.was
          /\ superseded.txn # txn => storeKey' = storeKey
          /\ \A l \in Logins : MustUndo(l) => l = txn
      <3>1. superseded.txn # txn => displaced.key = storeKey[Account]
        BY <2>2
      <3>2. [storeKey EXCEPT ![Account] = storeKey[Account]] = storeKey
        BY <1>f
      <3>3. \A l \in Logins : MustUndo(l) => l = txn
        BY <1>f, <2>1, <2>2 DEF OneToUndo, MustUndo
      <3> QED BY <2>1, <2>2, <3>1, <3>2, <3>3
    <2>4. pc' \in {"unwind", "restored"} /\ (pc' = "unwind" <=> mode = "rollback")
      BY <2>1
    <2>5. OneToUndo'
      BY <1>f, <2>1, <2>2, <2>3, <2>4 DEF OneToUndo, MustUndo, Working, Resting, Steps
    <2>6. RecordFits'
      BY <1>f, <2>1, <2>2, <2>3, <2>4 DEF RecordFits, StagesOf, Working, Resting, Steps
    <2>7. StoresFit'
      BY <1>f, <2>1, <2>2, <2>3, <2>4 DEF StoresFit, Account
    <2>8. SlotFits'
      BY <1>f, <2>1, <2>2, <2>3, <2>4 DEF SlotFits, MustUndo
    <2>9. HeldFits'
      BY <1>f, <2>1, <2>2, <2>3, <2>4 DEF HeldFits, Staged, Account
    <2>10. GivenBackFits'
      BY <1>f, <2>1, <2>2, <2>3, <2>4 DEF GivenBackFits, SessionIsBack, StoreIsBack, Staged,
         Account
    <2>11. SavedIs(s)'
      <3>1. \A l \in Logins : MustUndo(l) => l = txn
        BY <2>3
      <3>2. SessionBack(txn)' = SessionBack(txn)
        BY <1>f, <2>1, <2>2, <2>3 DEF SessionBack
      <3>3. KeysBack(txn)' = KeysBack(txn)
        <4>1. CASE superseded.txn # txn
          BY <2>1, <2>3, <4>1 DEF KeysBack
        <4>2. CASE superseded.txn = txn
          <5>1. KeysBack(txn) = [storeKey EXCEPT ![Account] = superseded.was.key]
            BY <4>2 DEF KeysBack, Account
          <5>2. KeysBack(txn)' = [storeKey' EXCEPT ![Account] = superseded.was.key]
            BY <2>1, <4>2 DEF KeysBack, Account
          <5>3. [[storeKey EXCEPT ![Account] = displaced.key] EXCEPT ![Account]
                   = superseded.was.key]
                   = [storeKey EXCEPT ![Account] = superseded.was.key]
            BY <1>f
          <5> QED BY <2>1, <5>1, <5>2, <5>3
        <4> QED BY <4>1, <4>2
      <3>4. StoresBack(txn)' = StoresBack(txn)
        BY <1>f, <2>1, <2>2, <2>3 DEF StoresBack, Account, OursStages
      <3>5. MustUndo(txn) /\ MustUndo(txn)' /\ \A l \in Logins : MustUndo(l)' => l = txn
        BY <1>f, <3>1, <2>1, <2>2 DEF MustUndo, UndoStages
      <3> QED BY <1>f, <2>1, <3>1, <3>2, <3>3, <3>4, <3>5 DEF SavedIs, GivenBack
    <2> QED BY <2>5, <2>6, <2>7, <2>8, <2>9, <2>10, <2>11 DEF LoginFits
  <1> QED BY <1>1, <1>2

\* Undoing a login that was established is one step too: the one that takes its
\* journal back. A login whose journal cannot be written stays established.
LEMMA RollingBackFits ==
    ASSUME Plain, TypeInv, AtomInv, NEW s, SavedIs(s), RollingBack
    PROVE  /\ LoginFits' /\ pc' \in {"restoreSession", "blocked"}
           /\ \/ SavedIs(s)'
              \/ /\ journal[txn].stage = "CredentialsWritten"
                 /\ \E back : back = GivenBack(txn) /\ SavedIs(back)'
  <1> USE DEF At, Goto, Steady, keyring
  <1>f. /\ OneToUndo /\ RecordFits /\ StoresFit /\ SlotFits /\ HeldFits /\ GivenBackFits
        /\ journal \in [Logins -> Record] /\ record \in Record
        /\ target \in [Accounts -> Stores] /\ aside \in [Logins -> Stores]
        /\ storeKey \in [Accounts -> Logins \cup {Nobody}]
        /\ superseded \in Slot /\ failed \in BOOLEAN
        /\ Logins \cap {Nobody, Corrupt, Nothing, Debris} = {}
        /\ AccountOf \in [Logins -> Accounts]
        /\ pc \in Working => txn \in Logins /\ Account \in Accounts
        /\ SavedIs(s)
    BY LoginFacts
  <1>1. /\ pc = "rollingBack" /\ pc \in Working /\ mode \in {"record", "rollback"}
           /\ mode' = "rollback"
        /\ UNCHANGED <<txn, target, aside, pending, session, storeKey, superseded, displaced,
                       failed, todo, blocked>>
    BY DEF RollingBack, TypeInv, ModesFit, Working, Resting, Steps
  <1>2. /\ journal[txn].stage \in {"NewStoreInstalled", "CredentialsWritten"}
        /\ record = journal[txn] /\ target[Account] = txn
        /\ record.stage = "CredentialsWritten" => superseded.txn = txn
        /\ displaced = IF superseded.txn = txn THEN superseded.was
                       ELSE [session |-> session, key |-> storeKey[Account]]
        /\ \A l \in Logins : superseded.txn = l => superseded.was.session # l
    BY <1>f, <1>1 DEF RecordFits, StagesOf, SlotFits, HeldFits, StoresFit, Staged
  <1>3. \A l \in Logins : MustUndo(l) => l = txn
    BY <1>f, <1>1 DEF OneToUndo
  <1>4. /\ \A l \in Logins : l # txn => journal'[l] = journal[l]
        /\ \/ /\ pc' = "restoreSession" /\ record' = journal'[txn]
              /\ journal'[txn].stage = "NewStoreInstalled"
           \/ /\ pc' = "blocked" /\ journal' = journal /\ record' = record
              /\ record.stage = "CredentialsWritten"
    <2>1. CASE record.stage = "CredentialsWritten"
      <3>1. Advance("NewStoreInstalled", "restoreSession", "blocked")
        BY <2>1 DEF RollingBack
      <3> QED BY <1>f, <1>1, <1>2, <2>1, <3>1, PlainAdvance DEF TypeInv, Stages, UndoStages
    <2>2. CASE record.stage # "CredentialsWritten"
      BY <1>2, <2>2 DEF RollingBack
    <2> QED BY <2>1, <2>2
  <1>5. LoginFits'
    <2>1. OneToUndo'
      BY <1>f, <1>1, <1>2, <1>3, <1>4 DEF OneToUndo, MustUndo, UndoStages, Working, Resting, Steps
    <2>2. RecordFits'
      BY <1>f, <1>1, <1>2, <1>4 DEF RecordFits, StagesOf, UndoStages, Working, Resting, Steps
    <2>3. StoresFit'
      BY <1>f, <1>1, <1>2, <1>4 DEF StoresFit, Account
    <2>4. SlotFits'
      BY <1>f, <1>1, <1>2, <1>3, <1>4 DEF SlotFits, MustUndo, UndoStages
    <2>5. HeldFits'
      BY <1>f, <1>1, <1>2, <1>4 DEF HeldFits, Staged, Account
    <2>6. GivenBackFits'
      BY <1>f, <1>1, <1>2, <1>4 DEF GivenBackFits, SessionIsBack, StoreIsBack, Staged, Account
    <2> QED BY <2>1, <2>2, <2>3, <2>4, <2>5, <2>6 DEF LoginFits
  <1>6. CASE journal'[txn].stage = journal[txn].stage
    <2>1. SavedIs(s)'
      BY <1>f, <1>1, <1>3, <1>4, <1>6 DEF SavedIs, GivenBack, AsItIs, SessionBack, KeysBack,
         StoresBack, MustUndo
    <2> QED BY <1>4, <1>5, <2>1
  <1>7. CASE journal'[txn].stage # journal[txn].stage
    <2>1. /\ journal[txn].stage = "CredentialsWritten"
          /\ journal'[txn].stage = "NewStoreInstalled" /\ pc' = "restoreSession"
      BY <1>2, <1>4, <1>7
    <2>2. GivenBack(txn)' = GivenBack(txn)
      BY <1>f, <1>1, <2>1 DEF GivenBack, SessionBack, KeysBack, StoresBack, OursStages
    <2>3. MustUndo(txn)' /\ \A l \in Logins : MustUndo(l)' => l = txn
      BY <1>f, <1>1, <1>3, <1>4, <2>1 DEF MustUndo, UndoStages
    <2>4. PICK back : back = GivenBack(txn)
      OBVIOUS
    <2>5. SavedIs(back)'
      BY <1>f, <1>1, <2>2, <2>3, <2>4 DEF SavedIs
    <2> QED BY <1>5, <2>1, <2>4, <2>5
  <1> QED BY <1>6, <1>7

\* Where the steps of a login lead that is left for the next start.
LEMMA LeftOpenTo ==
    LeftOpen /\ mode \in {"adopt", "abandon", "rollback", "recover"} =>
       /\ todo' = todo
       /\ \/ /\ pc' = "scratch" /\ mode = "adopt"
             /\ UNCHANGED <<mode, txn, record, displaced, failed, blocked>>
          \/ /\ pc' \in {"idle", "blocked"} /\ mode \in {"abandon", "rollback"}
             /\ mode' = "none" /\ txn' = Nobody /\ blocked' = blocked
          \/ /\ pc' = "recover" /\ mode = "recover"
             /\ mode' = "none" /\ txn' = Nobody /\ blocked' = TRUE
  <1>1. CASE mode = "adopt"
    BY <1>1 DEF LeftOpen, Goto, Steady
  <1>2. CASE mode = "abandon"
    BY <1>2 DEF LeftOpen, Goto, Release
  <1>3. CASE mode = "rollback"
    BY <1>3 DEF LeftOpen, Goto, Release
  <1>4. CASE mode = "recover"
    BY <1>4 DEF LeftOpen, Goto, Release
  <1> QED BY <1>1, <1>2, <1>3, <1>4

\* Leaving it changes nothing of what the next start gives back.
LEMMA LeavingFits ==
    ASSUME TypeInv, AtomInv, NEW s, SavedIs(s), LeftOpen, UNCHANGED <<disk, keyring>>,
           pc \in {"plan", "unwound", "restored", "recordRolledBack", "markRolledBack"}
    PROVE  /\ LoginFits' /\ SavedIs(s)' /\ pc' \in {"scratch", "idle", "blocked", "recover"}
           /\ mode' \in {"adopt", "none"}
  <1> USE DEF At, Goto, Steady, keyring
  <1>f. /\ OneToUndo /\ RecordFits /\ StoresFit /\ SlotFits /\ HeldFits /\ GivenBackFits
        /\ journal \in [Logins -> Record] /\ record \in Record
        /\ target \in [Accounts -> Stores] /\ aside \in [Logins -> Stores]
        /\ storeKey \in [Accounts -> Logins \cup {Nobody}]
        /\ superseded \in Slot /\ failed \in BOOLEAN
        /\ Logins \cap {Nobody, Corrupt, Nothing, Debris} = {}
        /\ AccountOf \in [Logins -> Accounts]
        /\ pc \in Working => txn \in Logins /\ Account \in Accounts
        /\ SavedIs(s)
    BY LoginFacts
  <1>1. /\ pc \in Working /\ mode \in {"adopt", "abandon", "rollback", "recover"}
        /\ UNCHANGED <<journal, target, aside, pending, session, storeKey, superseded>>
    BY DEF disk, TypeInv, ModesFit, Working, Resting, Steps
  <1>2. /\ todo' = todo
        /\ \/ /\ pc' = "scratch" /\ mode = "adopt"
              /\ UNCHANGED <<mode, txn, record, displaced, failed, blocked>>
           \/ /\ pc' \in {"idle", "blocked"} /\ mode \in {"abandon", "rollback"}
              /\ mode' = "none" /\ txn' = Nobody /\ blocked' = blocked
           \/ /\ pc' = "recover" /\ mode = "recover"
              /\ mode' = "none" /\ txn' = Nobody /\ blocked' = TRUE
    BY <1>1, LeftOpenTo
  <1>3. pc' \in {"scratch", "idle", "blocked", "recover"}
    BY <1>2
  <1>4. OneToUndo'
    BY <1>f, <1>1, <1>2 DEF OneToUndo, MustUndo, Working, Resting, Steps
  <1>5. RecordFits'
    BY <1>f, <1>1, <1>2, Kinds DEF RecordFits, StagesOf, Working, Resting, Steps
  <1>6. StoresFit'
    BY <1>f, <1>1, <1>2, <1>3 DEF StoresFit
  <1>7. SlotFits'
    BY <1>f, <1>1, <1>2 DEF SlotFits, MustUndo
  <1>8. HeldFits'
    BY <1>f, <1>1, <1>2, <1>3 DEF HeldFits
  <1>9. GivenBackFits'
    BY <1>f, <1>1, <1>2, <1>3 DEF GivenBackFits, SessionIsBack, StoreIsBack
  <1>10. SavedIs(s)'
    BY <1>f, <1>1 DEF SavedIs, GivenBack, AsItIs, SessionBack, KeysBack, StoresBack, MustUndo
  <1> QED BY <1>1, <1>2, <1>3, <1>4, <1>5, <1>6, <1>7, <1>8, <1>9, <1>10 DEF LoginFits

\* Taking the store down that a login put up, and putting back the one it
\* displaced, is what the next start would do.
LEMMA UnwindingFits ==
    ASSUME Plain, TypeInv, AtomInv, NEW s, SavedIs(s), Unwinding
    PROVE  LoginFits' /\ SavedIs(s)'
  <1> USE DEF At, Goto, Steady, keyring
  <1>f. /\ OneToUndo /\ RecordFits /\ StoresFit /\ SlotFits /\ HeldFits /\ GivenBackFits
        /\ journal \in [Logins -> Record] /\ record \in Record
        /\ target \in [Accounts -> Stores] /\ aside \in [Logins -> Stores]
        /\ storeKey \in [Accounts -> Logins \cup {Nobody}]
        /\ superseded \in Slot /\ failed \in BOOLEAN
        /\ Logins \cap {Nobody, Corrupt, Nothing, Debris} = {}
        /\ AccountOf \in [Logins -> Accounts]
        /\ pc \in Working => txn \in Logins /\ Account \in Accounts
        /\ SavedIs(s)
    BY LoginFacts
  <1>1. CASE Unwind
    <2>1. /\ pc = "unwind" /\ pc \in Working /\ mode \in {"adopt", "abandon", "rollback", "recover"}
          /\ \/ /\ record.stage \in OursStages /\ pc' = "advanceUnwound"
                /\ failed' = FALSE => failed = FALSE
                /\ \E p \in {Nothing, Debris, target[Account]} :
                      target' = [target EXCEPT ![Account] = p]
             \/ /\ record.stage \notin OursStages /\ pc' = "putBack"
                /\ target' = target /\ failed' = failed
          /\ UNCHANGED <<txn, mode, journal, record, aside, pending, session, storeKey,
                         superseded, displaced, todo, blocked>>
      <3>1. CASE record.stage \in OursStages
        <4>1. PICK p \in Purge(target[Account]) :
                 target' = [target EXCEPT ![Account] = p[1]] /\ failed' = (failed \/ p[2])
          BY <1>1, <3>1 DEF Unwind
        <4>2. p[1] \in {Nothing, Debris, target[Account]} /\ (failed' = FALSE => failed = FALSE)
          BY <1>f, <4>1, PlainPurge
        <4> QED BY <1>1, <3>1, <4>1, <4>2 DEF Unwind, disk, TypeInv, ModesFit, Working, Resting,
           Steps
      <3>2. CASE record.stage \notin OursStages
        BY <1>1, <3>2 DEF Unwind, disk, TypeInv, ModesFit, Working, Resting, Steps
      <3> QED BY <3>1, <3>2
    <2>2. /\ journal[txn].stage \in UndoStages /\ record = journal[txn]
      BY <1>f, <2>1 DEF RecordFits, StagesOf
    <2>3. /\ \A l \in Logins : MustUndo(l) => l = txn
          /\ target' \in [Accounts -> Stores]
          /\ \A a \in Accounts : a # Account => target'[a] = target[a]
          /\ target'[Account] \in {Nothing, Debris, target[Account]}
      BY <1>f, <2>1, <2>2 DEF OneToUndo, MustUndo, Stores
    <2>4. OneToUndo'
      BY <1>f, <2>1, <2>2, <2>3 DEF OneToUndo, MustUndo, Working, Resting, Steps
    <2>5. RecordFits'
      BY <1>f, <2>1, <2>2, <2>3 DEF RecordFits, StagesOf, Working, Resting, Steps, UndoStages,
         OursStages
    <2>6. StoresFit'
      <3>1. \A l \in Logins : journal[l].stage \in {"OldStoreHeldAside", "NewStoreInstalled"} =>
               l = txn
        BY <2>3 DEF MustUndo, UndoStages
      <3>2. pc' \in {"advanceUnwound", "putBack"}
        BY <2>1
      <3> QED BY <1>f, <2>1, <2>2, <2>3, <3>1, <3>2 DEF StoresFit, Account
    <2>7. SlotFits'
      BY <1>f, <2>1, <2>2, <2>3 DEF SlotFits, MustUndo
    <2>8. HeldFits'
      BY <1>f, <2>1, <2>2, <2>3 DEF HeldFits, Staged, Account
    <2>9. GivenBackFits'
      BY <1>f, <2>1, <2>2, <2>3 DEF GivenBackFits, SessionIsBack, StoreIsBack, Staged, Account
    <2>10. SavedIs(s)'
      <3>1. \A l \in Logins : MustUndo(l) => l = txn
        BY <2>3
      <3>2. SessionBack(txn)' = SessionBack(txn)
        BY <1>f, <2>1, <2>2, <2>3 DEF SessionBack
      <3>3. KeysBack(txn)' = KeysBack(txn)
        BY <1>f, <2>1, <2>2, <2>3 DEF KeysBack, Account
      <3>4. StoresBack(txn)' = StoresBack(txn)
        BY <1>f, <2>1, <2>2, <2>3 DEF StoresBack, Account, OursStages
      <3>5. MustUndo(txn) /\ MustUndo(txn)' /\ \A l \in Logins : MustUndo(l)' => l = txn
        BY <1>f, <3>1, <2>1, <2>2 DEF MustUndo, UndoStages
      <3> QED BY <1>f, <2>1, <3>1, <3>2, <3>3, <3>4, <3>5 DEF SavedIs, GivenBack
    <2> QED BY <2>4, <2>5, <2>6, <2>7, <2>8, <2>9, <2>10 DEF LoginFits
  <1>2. CASE AdvanceUnwound
    <2>1. /\ pc = "advanceUnwound" /\ pc \in Working
             /\ mode \in {"adopt", "abandon", "rollback", "recover"}
          /\ Advance("Prepared", "putBack", "unwound")
          /\ failed' = (failed \/ record'.stage # "Prepared")
          /\ UNCHANGED <<txn, mode, target, aside, pending, session, storeKey, superseded,
                         displaced, todo, blocked>>
      BY <1>2 DEF AdvanceUnwound, TypeInv, ModesFit, Working, Resting, Steps
    <2>2. /\ journal[txn].stage \in UndoStages /\ record = journal[txn]
      BY <1>f, <2>1 DEF RecordFits, StagesOf
    <2>3. /\ \A l \in Logins : l # txn => journal'[l] = journal[l]
          /\ \/ pc' = "putBack" /\ record' = journal'[txn] /\ journal'[txn].stage = "Prepared"
             \/ pc' = "unwound" /\ record' = record /\ journal' = journal
      BY <1>f, <2>1, <2>2, PlainAdvance DEF TypeInv, Stages, UndoStages
    <2>4. pc' = "unwound" => failed'
      <3>1. CASE record.stage = "Prepared"
        BY <2>1, <3>1 DEF Advance
      <3> QED BY <2>1, <2>3, <3>1
    <2>5. /\ pc' \in {"putBack", "unwound"} /\ (pc' = "putBack" => failed' = failed)
          /\ \A l \in Logins : MustUndo(l) => l = txn
          /\ MustUndo(txn) /\ MustUndo(txn)' /\ \A l \in Logins : MustUndo(l)' => l = txn
      BY <1>f, <2>1, <2>2, <2>3, <2>4 DEF OneToUndo, MustUndo, UndoStages
    <2>6. OneToUndo'
      BY <1>f, <2>1, <2>2, <2>3, <2>4, <2>5 DEF OneToUndo, MustUndo, Working, Resting, Steps
    <2>7. RecordFits'
      BY <1>f, <2>1, <2>2, <2>3, <2>4, <2>5 DEF RecordFits, StagesOf, Working, Resting, Steps
    <2>8. StoresFit'
      BY <1>f, <2>1, <2>2, <2>3, <2>4, <2>5 DEF StoresFit, Account
    <2>9. SlotFits'
      BY <1>f, <2>1, <2>2, <2>3, <2>4, <2>5 DEF SlotFits, MustUndo
    <2>10. HeldFits'
      BY <1>f, <2>1, <2>2, <2>3, <2>4, <2>5 DEF HeldFits, Staged, Account
    <2>11. GivenBackFits'
      BY <1>f, <2>1, <2>2, <2>3, <2>4, <2>5 DEF GivenBackFits, SessionIsBack, StoreIsBack,
         Staged, Account
    <2>12. SavedIs(s)'
      <3>1. s = GivenBack(txn)
        BY <1>f, <2>1, <2>5 DEF SavedIs
      <3>2. GivenBack(txn)' = GivenBack(txn)
        <4>1. SessionBack(txn)' = SessionBack(txn) /\ KeysBack(txn)' = KeysBack(txn)
          BY <2>1 DEF SessionBack, KeysBack
        <4>2. CASE StoresBack(txn)' = StoresBack(txn)
          BY <4>1, <4>2 DEF GivenBack
        <4>3. CASE StoresBack(txn)' # StoresBack(txn)
          <5>1. /\ aside[txn] = Nothing
                /\ journal[txn].stage \in {"OldStoreHeldAside", "NewStoreInstalled"}
                /\ StoresBack(txn)' = target
                /\ StoresBack(txn) = [target EXCEPT ![Account] = Nothing]
            BY <2>1, <2>2, <2>3, <4>3 DEF StoresBack, OursStages, UndoStages, Account
          <5>2. target[Account] \in {Nothing, Debris, txn}
            BY <1>f, <2>1, <5>1 DEF StoresFit, Account
          <5>3. SessionBack(txn) # txn /\ SessionBack(txn) \in Logins \cup {Nobody}
            BY <1>f, <2>1, <2>5, Kinds DEF SlotFits, SessionBack, TypeInv, TypeOK
          <5> DEFINE b == SessionBack(txn)
          <5>4. CASE b = Nobody
            BY <4>1, <5>4 DEF GivenBack, Restored3
          <5>5. CASE b \in Logins
            <6>1. /\ AccountOf[b] \in Accounts /\ b # txn /\ b \notin {Nothing, Debris}
                  /\ StoresBack(txn)[AccountOf[b]] = b <=> StoresBack(txn)'[AccountOf[b]] = b
              <7>1. b # txn /\ AccountOf[b] \in Accounts /\ b \notin {Nothing, Debris}
                BY <1>f, <5>3, <5>5
              <7>2. CASE AccountOf[b] = Account
                BY <1>f, <2>1, <5>1, <5>2, <7>1, <7>2
              <7>3. CASE AccountOf[b] # Account
                BY <1>f, <2>1, <5>1, <7>1, <7>3
              <7> QED BY <7>1, <7>2, <7>3
            <6> QED BY <4>1, <6>1 DEF GivenBack, Restored3
          <5> QED BY <5>3, <5>4, <5>5
        <4> QED BY <4>2, <4>3
      <3> QED BY <1>f, <2>1, <2>5, <3>1, <3>2 DEF SavedIs
    <2> QED BY <2>6, <2>7, <2>8, <2>9, <2>10, <2>11, <2>12 DEF LoginFits
  <1>3. CASE PutBack
    <2>1. /\ pc = "putBack" /\ pc \in Working
             /\ mode \in {"adopt", "abandon", "rollback", "recover"} /\ pc' = "dropPending"
          /\ \E m \in Moves(aside[txn], target[Account]) :
                /\ aside' = [aside EXCEPT ![txn] = m[1]]
                   /\ target' = [target EXCEPT ![Account] = m[2]]
                /\ failed' = (failed \/ m[3])
          /\ UNCHANGED <<txn, mode, journal, record, pending, session, storeKey, superseded,
                         displaced, todo, blocked>>
      BY <1>3 DEF PutBack, TypeInv, ModesFit, Working, Resting, Steps
    <2>2. /\ journal[txn].stage = "Prepared" /\ record = journal[txn]
          /\ \A l \in Logins : MustUndo(l) => l = txn
      BY <1>f, <2>1 DEF RecordFits, StagesOf, OneToUndo, MustUndo, UndoStages
    <2>3. /\ failed' = FALSE => failed = FALSE /\ aside'[txn] = Nothing
          /\ \A l \in Logins : l # txn => aside'[l] = aside[l]
          /\ \/ aside' = aside /\ target' = target
             \/ /\ aside[txn] # Nothing /\ aside'[txn] = Nothing
                /\ target' = [target EXCEPT ![Account] = aside[txn]]
      <3>1. PICK m \in Moves(aside[txn], target[Account]) :
               /\ aside' = [aside EXCEPT ![txn] = m[1]]
                  /\ target' = [target EXCEPT ![Account] = m[2]]
               /\ failed' = (failed \/ m[3])
        BY <2>1
      <3>2. CASE m[1] = Nothing /\ m[2] = aside[txn] /\ target[Account] = Nothing
                 /\ aside[txn] # Nothing
        BY <1>f, <2>1, <3>1, <3>2
      <3>3. CASE /\ m[1] = aside[txn] /\ m[2] = target[Account]
                 /\ (aside[txn] = Nothing => ~m[3]) /\ (~m[3] => aside[txn] = Nothing)
        <4>1. aside' = aside /\ target' = target
          BY <1>f, <2>1, <3>1, <3>3
        <4> QED BY <1>f, <3>1, <3>3, <4>1
      <3>4. \/ m[1] = Nothing /\ m[2] = aside[txn] /\ target[Account] = Nothing
               /\ aside[txn] # Nothing
            \/ /\ m[1] = aside[txn] /\ m[2] = target[Account]
               /\ (aside[txn] = Nothing => ~m[3]) /\ (~m[3] => aside[txn] = Nothing)
        BY PlainMove
      <3> QED BY <3>2, <3>3, <3>4
    <2>4. \A l \in Logins : journal[l].stage \notin {"OldStoreHeldAside", "NewStoreInstalled"}
      BY <2>2 DEF MustUndo, UndoStages
    <2>5. OneToUndo'
      BY <1>f, <2>1, <2>2, <2>3, <2>4 DEF OneToUndo, MustUndo, Working, Resting, Steps
    <2>6. RecordFits'
      BY <1>f, <2>1, <2>2, <2>3, <2>4 DEF RecordFits, StagesOf, Working, Resting, Steps
    <2>7. StoresFit'
      BY <1>f, <2>1, <2>2, <2>3, <2>4 DEF StoresFit, Account
    <2>8. SlotFits'
      BY <1>f, <2>1, <2>2, <2>3, <2>4 DEF SlotFits, MustUndo
    <2>9. HeldFits'
      BY <1>f, <2>1, <2>2, <2>3, <2>4 DEF HeldFits, Staged, Account
    <2>10. GivenBackFits'
      BY <1>f, <2>1, <2>2, <2>3, <2>4 DEF GivenBackFits, SessionIsBack, StoreIsBack, Staged,
         Account
    <2>11. SavedIs(s)'
      <3>1. \A l \in Logins : MustUndo(l) => l = txn
        BY <2>2
      <3>2. SessionBack(txn)' = SessionBack(txn)
        BY <1>f, <2>1, <2>2, <2>3 DEF SessionBack
      <3>3. KeysBack(txn)' = KeysBack(txn)
        BY <1>f, <2>1, <2>2, <2>3 DEF KeysBack, Account
      <3>4. StoresBack(txn)' = StoresBack(txn)
        BY <1>f, <2>1, <2>2, <2>3 DEF StoresBack, Account, OursStages
      <3>5. MustUndo(txn) /\ MustUndo(txn)' /\ \A l \in Logins : MustUndo(l)' => l = txn
        BY <1>f, <3>1, <2>1, <2>2 DEF MustUndo, UndoStages
      <3> QED BY <1>f, <2>1, <3>1, <3>2, <3>3, <3>4, <3>5 DEF SavedIs, GivenBack
    <2> QED BY <2>5, <2>6, <2>7, <2>8, <2>9, <2>10, <2>11 DEF LoginFits
  <1>4. CASE DropPending
    <2>1. /\ pc = "dropPending" /\ pc \in Working
             /\ mode \in {"adopt", "abandon", "rollback", "recover"} /\ pc' = "unwound"
          /\ failed' = FALSE => failed = FALSE
          /\ UNCHANGED <<txn, mode, journal, record, target, aside, session, storeKey,
                         superseded, displaced, todo, blocked>>
      <3>1. PICK p \in Purge(pending[txn]) : failed' = (failed \/ p[2])
        BY <1>4 DEF DropPending
      <3>2. failed' = FALSE => failed = FALSE
        BY <1>f, <3>1, PlainPurge
      <3> QED BY <1>4, <3>2 DEF DropPending, TypeInv, ModesFit, Working, Resting, Steps
    <2>2. OneToUndo'
      BY <1>f, <2>1 DEF OneToUndo, MustUndo, Working, Resting, Steps
    <2>3. RecordFits'
      BY <1>f, <2>1 DEF RecordFits, StagesOf, Working, Resting, Steps, UndoStages
    <2>4. StoresFit'
      BY <1>f, <2>1 DEF StoresFit, Account
    <2>5. SlotFits'
      BY <1>f, <2>1 DEF SlotFits, MustUndo
    <2>6. HeldFits'
      BY <1>f, <2>1 DEF HeldFits, Staged, Account
    <2>7. GivenBackFits'
      BY <1>f, <2>1 DEF GivenBackFits, SessionIsBack, StoreIsBack, Staged, Account
    <2>8. SavedIs(s)'
      BY <1>f, <2>1 DEF SavedIs, GivenBack, AsItIs, SessionBack, KeysBack, StoresBack, MustUndo
    <2> QED BY <2>2, <2>3, <2>4, <2>5, <2>6, <2>7, <2>8 DEF LoginFits
  <1>5. CASE Unwound /\ ~failed
    <2>1. /\ pc = "unwound" /\ pc \in Working
             /\ mode \in {"adopt", "abandon", "rollback", "recover"}
          /\ \/ mode \in {"adopt", "abandon"} /\ pc' = "recordRolledBack"
             \/ mode = "rollback" /\ pc' = "markRolledBack"
             \/ mode = "recover"
                /\ pc' = IF superseded.txn = txn THEN "restoreSession" ELSE "markRolledBack"
          /\ UNCHANGED <<txn, mode, journal, record, target, aside, pending, session, storeKey,
                         superseded, displaced, failed, todo, blocked>>
      BY <1>5 DEF Unwound, Staged, disk, TypeInv, ModesFit, Working, Resting, Steps
    <2>2. ~failed /\ pc' \in {"recordRolledBack", "markRolledBack", "restoreSession"}
      BY <1>5, <2>1
    <2>3. OneToUndo'
      BY <1>f, <2>1, <2>2 DEF OneToUndo, MustUndo, Working, Resting, Steps
    <2>4. RecordFits'
      BY <1>f, <2>1, <2>2 DEF RecordFits, StagesOf, Working, Resting, Steps
    <2>5. StoresFit'
      BY <1>f, <2>1, <2>2 DEF StoresFit, Account
    <2>6. SlotFits'
      BY <1>f, <2>1, <2>2 DEF SlotFits, MustUndo
    <2>7. HeldFits'
      BY <1>f, <2>1, <2>2 DEF HeldFits, Staged, Account
    <2>8. GivenBackFits'
      BY <1>f, <2>1, <2>2 DEF GivenBackFits, SessionIsBack, StoreIsBack, Staged, Account
    <2>9. SavedIs(s)'
      BY <1>f, <2>1, <2>2 DEF SavedIs, GivenBack, AsItIs, SessionBack, KeysBack, StoresBack,
         MustUndo
    <2> QED BY <2>3, <2>4, <2>5, <2>6, <2>7, <2>8, <2>9 DEF LoginFits
  <1>6. CASE Restored /\ ~failed
    <2>1. /\ pc = "restored" /\ pc \in Working /\ mode = "recover" /\ pc' = "markRolledBack"
             /\ ~failed
          /\ UNCHANGED <<txn, mode, journal, record, target, aside, pending, session, storeKey,
                         superseded, displaced, failed, todo, blocked>>
      BY <1>6 DEF Restored, disk, TypeInv, ModesFit, Working, Resting, Steps
    <2>2. OneToUndo'
      BY <1>f, <2>1 DEF OneToUndo, MustUndo, Working, Resting, Steps
    <2>3. RecordFits'
      BY <1>f, <2>1 DEF RecordFits, StagesOf, Working, Resting, Steps
    <2>4. StoresFit'
      BY <1>f, <2>1 DEF StoresFit, Account
    <2>5. SlotFits'
      BY <1>f, <2>1 DEF SlotFits, MustUndo
    <2>6. HeldFits'
      BY <1>f, <2>1 DEF HeldFits, Staged, Account
    <2>7. GivenBackFits'
      BY <1>f, <2>1 DEF GivenBackFits, SessionIsBack, StoreIsBack, Staged, Account
    <2>8. SavedIs(s)'
      BY <1>f, <2>1 DEF SavedIs, GivenBack, AsItIs, SessionBack, KeysBack, StoresBack, MustUndo
    <2> QED BY <2>2, <2>3, <2>4, <2>5, <2>6, <2>7, <2>8 DEF LoginFits
  <1>7. CASE (Unwound \/ Restored) /\ failed
    <2>1. /\ LeftOpen /\ UNCHANGED <<disk, keyring>>
          /\ pc \in {"unwound", "restored"}
      BY <1>7 DEF Unwound, Restored
    <2>2. LoginFits' /\ SavedIs(s)'
      BY <2>1, LeavingFits
    <2> QED BY <2>2
  <1> QED BY <1>1, <1>2, <1>3, <1>4, <1>5, <1>6, <1>7 DEF Unwinding

\* Steps that leave the stages as they are.
LEMMA OneStays ==
    ASSUME OneToUndo, pc \in Working, pc' \in Working, UNCHANGED <<txn, mode, todo, blocked>>,
           \A l \in Logins : MustUndo(l)' <=> MustUndo(l)
    PROVE  OneToUndo'
  BY DEF OneToUndo, Working, Resting

\* Where the steps of a login lead that is over.
LEMMA ClosedTo ==
    Closed /\ mode \in {"adopt", "abandon", "rollback", "recover", "commit"} =>
       /\ todo' = todo /\ blocked' = blocked
       /\ \/ /\ pc' = "scratch" /\ mode = "adopt"
             /\ UNCHANGED <<mode, txn, record, displaced, failed>>
          \/ /\ pc' = "idle" /\ mode \in {"abandon", "rollback"}
             /\ mode' = "none" /\ txn' = Nobody
          \/ pc' = "recover" /\ mode = "recover" /\ mode' = "none" /\ txn' = Nobody
          \/ pc' = "running" /\ mode = "commit" /\ mode' = "none" /\ txn' = txn
  <1>1. CASE mode = "adopt"
    BY <1>1 DEF Closed, Goto, Steady
  <1>2. CASE mode \in {"abandon", "rollback"}
    BY <1>2 DEF Closed, Goto, Release
  <1>3. CASE mode = "recover"
    BY <1>3 DEF Closed, Goto, Release
  <1>4. CASE mode = "commit"
    BY <1>4 DEF Closed, Goto
  <1> QED BY <1>1, <1>2, <1>3, <1>4

\* A login that is not to be undone can be forgotten.
LEMMA ClosingFits ==
    ASSUME TypeInv, AtomInv, NEW s, SavedIs(s), Closed,
           UNCHANGED <<target, aside, pending, keyring>>,
           pc \in {"settled", "clearSlot", "forget"}, journal' \in [Logins -> Record],
           journal[txn].stage \notin UndoStages, journal'[txn].stage \notin UndoStages,
           \A l \in Logins : l # txn => journal'[l] = journal[l]
    PROVE  /\ LoginFits' /\ SavedIs(s)' /\ pc' \in {"scratch", "idle", "recover", "running"}
           /\ mode' \in {"adopt", "none"}
  <1> USE DEF At, Goto, Steady, keyring
  <1>f. /\ OneToUndo /\ RecordFits /\ StoresFit /\ SlotFits /\ HeldFits /\ GivenBackFits
        /\ journal \in [Logins -> Record] /\ record \in Record
        /\ target \in [Accounts -> Stores] /\ aside \in [Logins -> Stores]
        /\ storeKey \in [Accounts -> Logins \cup {Nobody}]
        /\ superseded \in Slot /\ failed \in BOOLEAN
        /\ Logins \cap {Nobody, Corrupt, Nothing, Debris} = {}
        /\ AccountOf \in [Logins -> Accounts]
        /\ pc \in Working => txn \in Logins /\ Account \in Accounts
        /\ SavedIs(s)
    BY LoginFacts
  <1>1. /\ pc \in Working /\ mode \in {"adopt", "abandon", "rollback", "recover", "commit"}
        /\ UNCHANGED <<target, aside, pending, session, storeKey, superseded>>
    BY DEF TypeInv, ModesFit, Working, Resting, Steps
  <1>2. /\ todo' = todo /\ blocked' = blocked
        /\ \/ /\ pc' = "scratch" /\ mode = "adopt"
              /\ UNCHANGED <<mode, txn, record, displaced, failed>>
           \/ /\ pc' = "idle" /\ mode \in {"abandon", "rollback"}
              /\ mode' = "none" /\ txn' = Nobody
           \/ pc' = "recover" /\ mode = "recover" /\ mode' = "none" /\ txn' = Nobody
           \/ pc' = "running" /\ mode = "commit" /\ mode' = "none" /\ txn' = txn
    BY <1>1, ClosedTo
  <1>3. /\ pc' \in {"scratch", "idle", "recover", "running"}
        /\ \A l \in Logins : MustUndo(l)' <=> MustUndo(l)
        /\ \A l \in Logins : MustUndo(l) => l # txn /\ journal'[l] = journal[l]
    <2>1. pc' \in {"scratch", "idle", "recover", "running"}
      BY <1>2
    <2>2. ASSUME NEW l \in Logins
          PROVE  /\ MustUndo(l)' <=> MustUndo(l)
                 /\ MustUndo(l) => l # txn /\ journal'[l] = journal[l]
      BY <2>2 DEF MustUndo
    <2> QED BY <2>1, <2>2
  <1>4. OneToUndo'
    BY <1>f, <1>1, <1>2, <1>3 DEF OneToUndo, Working, Resting, Steps
  <1>5. RecordFits'
    BY <1>f, <1>1, <1>2, Kinds DEF RecordFits, StagesOf, Working, Resting, Steps
  <1>6. StoresFit'
    <2>1. \A l \in Logins : journal'[l].stage \in {"OldStoreHeldAside", "NewStoreInstalled"} =>
             journal'[l] = journal[l]
      BY <1>3 DEF MustUndo, UndoStages
    <2> QED BY <1>f, <1>1, <1>3, <2>1 DEF StoresFit
  <1>7. SlotFits'
    BY <1>f, <1>1, <1>2, <1>3 DEF SlotFits
  <1>8. HeldFits'
    BY <1>f, <1>1, <1>2, <1>3 DEF HeldFits
  <1>9. GivenBackFits'
    BY <1>f, <1>1, <1>2, <1>3 DEF GivenBackFits, SessionIsBack, StoreIsBack
  <1>10. SavedIs(s)'
    BY <1>f, <1>1, <1>3 DEF SavedIs, GivenBack, AsItIs, SessionBack, KeysBack, StoresBack
  <1> QED BY <1>1, <1>2, <1>3, <1>4, <1>5, <1>6, <1>7, <1>8, <1>9, <1>10 DEF LoginFits

\* The end of a login changes nothing of what the next start gives back: it is
\* marked undone when everything is back, and cleaned up when it stays.
LEMMA ConcludingFits ==
    ASSUME Plain, TypeInv, AtomInv, NEW s, SavedIs(s), Concluding
    PROVE  LoginFits' /\ SavedIs(s)'
  <1> USE DEF At, Goto, Steady, keyring
  <1>f. /\ OneToUndo /\ RecordFits /\ StoresFit /\ SlotFits /\ HeldFits /\ GivenBackFits
        /\ journal \in [Logins -> Record] /\ record \in Record
        /\ target \in [Accounts -> Stores] /\ aside \in [Logins -> Stores]
        /\ storeKey \in [Accounts -> Logins \cup {Nobody}]
        /\ superseded \in Slot /\ failed \in BOOLEAN
        /\ Logins \cap {Nobody, Corrupt, Nothing, Debris} = {}
        /\ AccountOf \in [Logins -> Accounts]
        /\ pc \in Working => txn \in Logins /\ Account \in Accounts
        /\ SavedIs(s)
    BY LoginFacts
  <1>1. CASE RecordRolledBack /\ ~LeftOpen
    <2>1. /\ pc = "recordRolledBack" /\ pc \in Working /\ mode \in {"adopt", "abandon"}
             /\ pc' = "forget"
          /\ record.stage \in {"Prepared", "RolledBack"}
          /\ journal' = [journal EXCEPT ![txn] = [record EXCEPT !.stage = "RolledBack"]]
          /\ UNCHANGED <<txn, mode, record, target, aside, pending, session, storeKey,
                         superseded, displaced, failed, todo, blocked>>
      BY <1>1 DEF RecordRolledBack, TypeInv, ModesFit, Working, Resting, Steps
    <2>2. /\ journal[txn].stage = "Prepared" /\ record = journal[txn]
          /\ aside[txn] = Nothing /\ superseded.txn # txn
          /\ superseded.txn = txn => session = superseded.was.session
             /\ storeKey[Account] = superseded.was.key
      BY <1>f, <2>1 DEF RecordFits, StagesOf, UndoStages, SlotFits, GivenBackFits, StoreIsBack
    <2>3. /\ \A l \in Logins : MustUndo(l) => l = txn
          /\ MustUndo(txn) /\ journal'[txn].stage = "RolledBack"
          /\ \A l \in Logins : l # txn => journal'[l] = journal[l]
      BY <1>f, <2>1, <2>2 DEF OneToUndo, MustUndo, UndoStages
    <2>4. OneToUndo'
      BY <1>f, <2>1, <2>2, <2>3 DEF OneToUndo, MustUndo, Working, Resting, Steps, UndoStages
    <2>5. RecordFits'
      BY <1>f, <2>1, <2>2, <2>3 DEF RecordFits, StagesOf, Working, Resting, Steps, Stages,
         TerminalStages, UndoStages
    <2>6. StoresFit'
      BY <1>f, <2>1, <2>2, <2>3 DEF StoresFit, Account
    <2>7. SlotFits'
      BY <1>f, <2>1, <2>2, <2>3 DEF SlotFits, MustUndo, UndoStages
    <2>8. HeldFits'
      BY <1>f, <2>1, <2>2, <2>3 DEF HeldFits, Staged, Account
    <2>9. GivenBackFits'
      BY <1>f, <2>1, <2>2, <2>3 DEF GivenBackFits, SessionIsBack, StoreIsBack, Staged, Account
    <2>10. SavedIs(s)'
      <3>1. s = GivenBack(txn) /\ \A l \in Logins : ~MustUndo(l)'
        BY <1>f, <2>1, <2>2, <2>3 DEF SavedIs, MustUndo, UndoStages
      <3>2. SessionBack(txn) = session
        BY <2>2, <2>3 DEF SessionBack
      <3>3. KeysBack(txn) = storeKey
        BY <1>f, <2>1, <2>2, <2>3 DEF KeysBack, Account
      <3>4. StoresBack(txn) = target
        BY <2>2, <2>3 DEF StoresBack, OursStages
      <3>5. GivenBack(txn) = AsItIs
        BY <3>2, <3>3, <3>4 DEF GivenBack, AsItIs
      <3>6. AsItIs' = AsItIs
        BY <2>1 DEF AsItIs
      <3> QED BY <3>1, <3>5, <3>6 DEF SavedIs
    <2> QED BY <2>4, <2>5, <2>6, <2>7, <2>8, <2>9, <2>10 DEF LoginFits
  <1>2. CASE MarkRolledBack /\ ~LeftOpen
    <2>1. /\ pc = "markRolledBack" /\ pc \in Working /\ mode \in {"rollback", "recover"}
             /\ pc' = "clearSlot"
          /\ journal[txn].stage \in {"Prepared", "RolledBack"}
          /\ journal' = [journal EXCEPT ![txn].stage = "RolledBack"]
          /\ UNCHANGED <<txn, mode, record, target, aside, pending, session, storeKey,
                         superseded, displaced, failed, todo, blocked>>
      BY <1>2 DEF MarkRolledBack, TypeInv, ModesFit, Working, Resting, Steps
    <2>2. /\ journal[txn].stage = "Prepared" /\ record = journal[txn]
          /\ aside[txn] = Nothing
          /\ superseded.txn = txn => session = superseded.was.session
             /\ storeKey[Account] = superseded.was.key
      BY <1>f, <2>1 DEF RecordFits, StagesOf, UndoStages, GivenBackFits, StoreIsBack,
         SessionIsBack, Staged
    <2>3. /\ \A l \in Logins : MustUndo(l) => l = txn
          /\ MustUndo(txn) /\ journal'[txn].stage = "RolledBack"
          /\ \A l \in Logins : l # txn => journal'[l] = journal[l]
      <3>1. MustUndo(txn) /\ \A l \in Logins : MustUndo(l) => l = txn
        BY <1>f, <2>1, <2>2 DEF OneToUndo, MustUndo, UndoStages
      <3>2. journal'[txn].stage = "RolledBack"
            /\ \A l \in Logins : l # txn => journal'[l] = journal[l]
        BY <1>f, <2>1, Kinds DEF Record
      <3> QED BY <3>1, <3>2
    <2>4. OneToUndo'
      BY <1>f, <2>1, <2>2, <2>3 DEF OneToUndo, MustUndo, Working, Resting, Steps, UndoStages
    <2>5. RecordFits'
      BY <1>f, <2>1, <2>2, <2>3 DEF RecordFits, StagesOf, Working, Resting, Steps, Stages,
         TerminalStages, UndoStages
    <2>6. StoresFit'
      BY <1>f, <2>1, <2>2, <2>3 DEF StoresFit, Account
    <2>7. SlotFits'
      BY <1>f, <2>1, <2>2, <2>3 DEF SlotFits, MustUndo, UndoStages
    <2>8. HeldFits'
      BY <1>f, <2>1, <2>2, <2>3 DEF HeldFits, Staged, Account
    <2>9. GivenBackFits'
      BY <1>f, <2>1, <2>2, <2>3 DEF GivenBackFits, SessionIsBack, StoreIsBack, Staged, Account
    <2>10. SavedIs(s)'
      <3>1. s = GivenBack(txn) /\ \A l \in Logins : ~MustUndo(l)'
        BY <1>f, <2>1, <2>2, <2>3 DEF SavedIs, MustUndo, UndoStages
      <3>2. SessionBack(txn) = session
        BY <2>2, <2>3 DEF SessionBack
      <3>3. KeysBack(txn) = storeKey
        BY <1>f, <2>1, <2>2, <2>3 DEF KeysBack, Account
      <3>4. StoresBack(txn) = target
        BY <2>2, <2>3 DEF StoresBack, OursStages
      <3>5. GivenBack(txn) = AsItIs
        BY <3>2, <3>3, <3>4 DEF GivenBack, AsItIs
      <3>6. AsItIs' = AsItIs
        BY <2>1 DEF AsItIs
      <3> QED BY <3>1, <3>5, <3>6 DEF SavedIs
    <2> QED BY <2>4, <2>5, <2>6, <2>7, <2>8, <2>9, <2>10 DEF LoginFits
  <1>3. CASE (RecordRolledBack \/ MarkRolledBack) /\ LeftOpen
    <2>1. pc \in {"recordRolledBack", "markRolledBack"}
          /\ mode \in {"adopt", "abandon", "rollback", "recover"}
      BY <1>3 DEF RecordRolledBack, MarkRolledBack, TypeInv, ModesFit
    <2>2. pc' \in {"scratch", "idle", "blocked", "recover"}
      BY <1>3, <2>1, LeftOpenTo
    <2>3. UNCHANGED <<disk, keyring>>
      BY <1>3, <2>2 DEF RecordRolledBack, MarkRolledBack, disk, Plain, Fault
    <2>4. LoginFits' /\ SavedIs(s)'
      BY <1>3, <2>1, <2>3, LeavingFits
    <2> QED BY <2>4
  <1>4. CASE ClearSlot /\ ~Closed
    <2>1. /\ pc = "clearSlot" /\ pc \in Working /\ mode \in {"rollback", "recover", "commit"}
             /\ pc' = "forget"
          /\ superseded' = IF superseded.txn \in {txn, Corrupt} THEN NoSlot ELSE superseded
          /\ UNCHANGED <<txn, mode, journal, record, target, aside, pending, session, storeKey,
                         displaced, failed, todo, blocked>>
      BY <1>4 DEF ClearSlot, disk, TypeInv, ModesFit, Working, Resting, Steps
    <2>2. /\ ~MustUndo(txn) /\ journal[txn].stage \in Stages \ UndoStages
          /\ \A l \in Logins : (superseded.txn = l <=> superseded'.txn = l) \/ ~MustUndo(l)
          /\ superseded' = superseded \/ (superseded' = NoSlot /\ superseded'.txn = Nobody)
          /\ \A l \in Logins : superseded'.txn = l => superseded' = superseded
      BY <1>f, <2>1 DEF RecordFits, StagesOf, UndoStages, NoSlot, MustUndo
    <2>3. OneToUndo'
      BY <1>f, <2>1, <2>2 DEF OneToUndo, MustUndo, Working, Resting, Steps
    <2>4. RecordFits'
      BY <1>f, <2>1, <2>2 DEF RecordFits, StagesOf, Working, Resting, Steps
    <2>5. StoresFit'
      BY <1>f, <2>1, <2>2 DEF StoresFit, Account
    <2>6. SlotFits'
      BY <1>f, <2>1, <2>2 DEF SlotFits, MustUndo
    <2>7. HeldFits'
      BY <1>f, <2>1, <2>2 DEF HeldFits, Staged, Account
    <2>8. GivenBackFits'
      BY <1>f, <2>1, <2>2 DEF GivenBackFits, SessionIsBack, StoreIsBack, Staged, Account
    <2>9. SavedIs(s)'
      BY <1>f, <2>1, <2>2 DEF SavedIs, GivenBack, AsItIs, SessionBack, KeysBack, StoresBack,
         MustUndo
    <2> QED BY <2>3, <2>4, <2>5, <2>6, <2>7, <2>8, <2>9 DEF LoginFits
  <1>5. CASE (ClearSlot \/ Settled \/ Forget) /\ Closed
    <2>1. pc \in {"settled", "clearSlot", "forget"} /\ pc \in Working
          /\ mode \in {"adopt", "abandon", "rollback", "recover", "commit"}
      BY <1>5 DEF ClearSlot, Settled, Forget, TypeInv, ModesFit, Working, Resting, Steps
    <2>2. pc' \in {"scratch", "idle", "recover", "running"}
      BY <1>5, <2>1, ClosedTo
    <2>3. journal[txn].stage \notin UndoStages
      BY <1>f, <2>1 DEF RecordFits, StagesOf, UndoStages, TerminalStages
    <2>4. /\ UNCHANGED <<target, aside, pending, keyring>>
          /\ \/ journal' = journal
             \/ journal[txn].stage \in TerminalStages
                /\ journal' = [journal EXCEPT ![txn] = NoRecord]
      BY <1>5, <2>2 DEF ClearSlot, Settled, Forget, disk
    <2>5. /\ journal' \in [Logins -> Record] /\ journal'[txn].stage \notin UndoStages
          /\ \A l \in Logins : l # txn => journal'[l] = journal[l]
      <3>1. NoRecord \in Record /\ NoRecord.stage \notin UndoStages
        BY Kinds DEF NoRecord, UndoStages
      <3>2. CASE journal' = journal
        BY <1>f, <2>3, <3>2
      <3>3. CASE journal' = [journal EXCEPT ![txn] = NoRecord]
        BY <1>f, <2>1, <3>1, <3>3
      <3> QED BY <2>4, <3>2, <3>3
    <2>6. LoginFits' /\ SavedIs(s)'
      BY <1>5, <2>1, <2>3, <2>4, <2>5, ClosingFits
    <2> QED BY <2>6
  <1>6. CASE Scratch
    <2>1. /\ pc = "scratch" /\ pc \in Working /\ pc' = "idle" /\ mode' = "none" /\ txn' = Nobody
          /\ UNCHANGED <<journal, target, aside, session, storeKey, superseded, todo, blocked>>
      BY <1>6 DEF Scratch, Release, TypeInv, ModesFit, Working, Resting, Steps
    <2>2. OneToUndo'
      BY <1>f, <2>1 DEF OneToUndo, MustUndo, Working, Resting, Steps
    <2>3. RecordFits'
      BY <1>f, <2>1 DEF RecordFits, StagesOf, Working, Resting, Steps
    <2>4. StoresFit'
      BY <1>f, <2>1 DEF StoresFit, Account
    <2>5. SlotFits'
      BY <1>f, <2>1 DEF SlotFits, MustUndo
    <2>6. HeldFits'
      BY <1>f, <2>1 DEF HeldFits, Staged, Account
    <2>7. GivenBackFits'
      BY <1>f, <2>1 DEF GivenBackFits, SessionIsBack, StoreIsBack, Staged, Account
    <2>8. SavedIs(s)'
      BY <1>f, <2>1 DEF SavedIs, GivenBack, AsItIs, SessionBack, KeysBack, StoresBack, MustUndo
    <2> QED BY <2>2, <2>3, <2>4, <2>5, <2>6, <2>7, <2>8 DEF LoginFits
  <1>7. CASE PurgeAside
    <2>1. /\ pc = "purgeAside" /\ pc \in Working /\ mode \in {"commit", "recover"}
          /\ pc' \in {"advanceCommitted", "clearSlot"}
          /\ \A l \in Logins : l # txn => aside'[l] = aside[l]
          /\ UNCHANGED <<txn, mode, journal, record, target, pending, session, storeKey,
                         superseded, displaced, todo, blocked>>
      BY <1>f, <1>7 DEF PurgeAside, TypeInv, ModesFit, Working, Resting, Steps
    <2>2. journal[txn].stage \in {"CredentialsWritten"} \cup TerminalStages /\ ~MustUndo(txn)
      BY <1>f, <2>1 DEF RecordFits, StagesOf, MustUndo, UndoStages, TerminalStages
    <2>3. OneToUndo'
      <3>1. pc' \in Working /\ \A l \in Logins : MustUndo(l)' <=> MustUndo(l)
        BY <2>1 DEF Working, Resting, Steps, MustUndo
      <3> QED BY <1>f, <2>1, <3>1, OneStays
    <2>4. RecordFits'
      BY <1>f, <2>1, <2>2 DEF RecordFits, StagesOf, Working, Resting, Steps, TerminalStages,
         OursStages, Stages, UndoStages
    <2>5. StoresFit'
      BY <1>f, <2>1, <2>2 DEF StoresFit, Account
    <2>6. SlotFits'
      BY <1>f, <2>1, <2>2 DEF SlotFits, MustUndo
    <2>7. HeldFits'
      BY <1>f, <2>1, <2>2 DEF HeldFits, Staged, Account
    <2>8. GivenBackFits'
      BY <1>f, <2>1, <2>2 DEF GivenBackFits, SessionIsBack, StoreIsBack, Staged, Account
    <2>9. SavedIs(s)'
      BY <1>f, <2>1, <2>2 DEF SavedIs, GivenBack, AsItIs, SessionBack, KeysBack, StoresBack,
         MustUndo
    <2> QED BY <2>3, <2>4, <2>5, <2>6, <2>7, <2>8, <2>9 DEF LoginFits
  <1>8. CASE AdvanceCommitted
    <2>1. /\ pc = "advanceCommitted" /\ pc \in Working /\ mode \in {"commit", "recover"}
          /\ pc' = "settled" /\ Advance("Committed", "settled", "settled")
          /\ UNCHANGED <<txn, mode, target, aside, pending, session, storeKey, superseded,
                         displaced, todo, blocked>>
      BY <1>8 DEF AdvanceCommitted, Advance, Persist, TypeInv, ModesFit, Working, Resting, Steps
    <2>2. journal[txn].stage \in {"CredentialsWritten"} \cup TerminalStages /\ record = journal[txn]
      BY <1>f, <2>1 DEF RecordFits, StagesOf
    <2>3. /\ \A l \in Logins : l # txn => journal'[l] = journal[l]
          /\ record' = journal'[txn]
             /\ journal'[txn].stage \in {"CredentialsWritten"} \cup TerminalStages
      BY <1>f, <2>1, <2>2, PlainAdvance DEF TypeInv, Stages, TerminalStages
    <2>4. /\ ~MustUndo(txn) /\ \A l \in Logins : MustUndo(l)' <=> MustUndo(l)
          /\ \A l \in Logins : MustUndo(l) => journal'[l] = journal[l]
      BY <2>1, <2>2, <2>3 DEF MustUndo, UndoStages, TerminalStages
    <2>5. OneToUndo'
      <3>1. pc' \in Working /\ \A l \in Logins : MustUndo(l)' <=> MustUndo(l)
        BY <2>1, <2>4 DEF Working, Resting, Steps, MustUndo
      <3> QED BY <1>f, <2>1, <3>1, OneStays
    <2>6. RecordFits'
      BY <1>f, <2>1, <2>2, <2>3, <2>4 DEF RecordFits, StagesOf, Working, Resting, Steps
    <2>7. StoresFit'
      BY <1>f, <2>1, <2>2, <2>3, <2>4 DEF StoresFit, Account, TerminalStages
    <2>8. SlotFits'
      BY <1>f, <2>1, <2>2, <2>3, <2>4 DEF SlotFits, MustUndo
    <2>9. HeldFits'
      BY <1>f, <2>1, <2>2, <2>3, <2>4 DEF HeldFits, Staged, Account
    <2>10. GivenBackFits'
      BY <1>f, <2>1, <2>2, <2>3, <2>4 DEF GivenBackFits, SessionIsBack, StoreIsBack, Staged,
         Account
    <2>11. SavedIs(s)'
      BY <1>f, <2>1, <2>2, <2>3, <2>4 DEF SavedIs, GivenBack, AsItIs, SessionBack, KeysBack,
         StoresBack, MustUndo
    <2> QED BY <2>5, <2>6, <2>7, <2>8, <2>9, <2>10, <2>11 DEF LoginFits
  <1>9. CASE Settled /\ ~Closed
    <2>1. /\ pc = "settled" /\ pc \in Working /\ mode \in {"commit", "recover"} /\ pc' = "clearSlot"
          /\ UNCHANGED <<txn, mode, journal, record, target, aside, pending, session, storeKey,
                         superseded, displaced, failed, todo, blocked>>
      BY <1>9 DEF Settled, disk, TypeInv, ModesFit, Working, Resting, Steps
    <2>2. journal[txn].stage \in {"CredentialsWritten"} \cup TerminalStages
      BY <1>f, <2>1 DEF RecordFits, StagesOf
    <2>3. OneToUndo'
      BY <1>f, <2>1, <2>2 DEF OneToUndo, MustUndo, Working, Resting, Steps
    <2>4. RecordFits'
      BY <1>f, <2>1, <2>2 DEF RecordFits, StagesOf, Working, Resting, Steps, TerminalStages,
         OursStages, Stages, UndoStages
    <2>5. StoresFit'
      BY <1>f, <2>1, <2>2 DEF StoresFit, Account
    <2>6. SlotFits'
      BY <1>f, <2>1, <2>2 DEF SlotFits, MustUndo
    <2>7. HeldFits'
      BY <1>f, <2>1, <2>2 DEF HeldFits, Staged, Account
    <2>8. GivenBackFits'
      BY <1>f, <2>1, <2>2 DEF GivenBackFits, SessionIsBack, StoreIsBack, Staged, Account
    <2>9. SavedIs(s)'
      BY <1>f, <2>1, <2>2 DEF SavedIs, GivenBack, AsItIs, SessionBack, KeysBack, StoresBack,
         MustUndo
    <2> QED BY <2>3, <2>4, <2>5, <2>6, <2>7, <2>8, <2>9 DEF LoginFits
  <1>10. Forget => Closed
    BY DEF Forget
  <1> QED BY <1>1, <1>2, <1>3, <1>4, <1>5, <1>6, <1>7, <1>8, <1>9, <1>10 DEF Concluding

\* What a start does changes nothing of what it will restore.
LEMMA StartingFits ==
    ASSUME Plain, TypeInv, AtomInv, NEW s, SavedIs(s), Starting
    PROVE  LoginFits' /\ SavedIs(s)'
  <1> USE DEF At, Goto, Steady, keyring
  <1>f. /\ OneToUndo /\ RecordFits /\ StoresFit /\ SlotFits /\ HeldFits /\ GivenBackFits
        /\ journal \in [Logins -> Record] /\ record \in Record
        /\ target \in [Accounts -> Stores] /\ aside \in [Logins -> Stores]
        /\ storeKey \in [Accounts -> Logins \cup {Nobody}]
        /\ session \in Logins \cup {Nobody} /\ superseded \in Slot /\ failed \in BOOLEAN
        /\ Logins \cap {Nobody, Corrupt, Nothing, Debris} = {}
        /\ AccountOf \in [Logins -> Accounts]
        /\ pc \in Working => txn \in Logins /\ Account \in Accounts
        /\ SavedIs(s)
    BY LoginFacts
  <1>1. CASE Start
    <2>1. /\ pc = "off" /\ mode = "none"
          /\ \/ pc' = "recover" /\ todo' = {l \in Logins : Open(l)}
             \/ pc' = "blocked"
          /\ UNCHANGED <<txn, mode, journal, target, aside, pending, session, storeKey, superseded>>
      BY <1>1 DEF Start, disk, TypeInv, ModesFit
    <2>2. \A l \in Logins : MustUndo(l) => Open(l)
      BY DEF MustUndo, Open, UndoStages
    <2>3. OneToUndo'
      BY <1>f, <2>1, <2>2 DEF OneToUndo, MustUndo, Working, Resting, Steps
    <2>4. RecordFits'
      BY <1>f, <2>1, <2>2 DEF RecordFits, StagesOf, Working, Resting, Steps
    <2>5. StoresFit'
      BY <1>f, <2>1, <2>2 DEF StoresFit, Account
    <2>6. SlotFits'
      BY <1>f, <2>1, <2>2 DEF SlotFits, MustUndo
    <2>7. HeldFits'
      BY <1>f, <2>1, <2>2 DEF HeldFits, Staged, Account
    <2>8. GivenBackFits'
      BY <1>f, <2>1, <2>2 DEF GivenBackFits, SessionIsBack, StoreIsBack, Staged, Account
    <2>9. SavedIs(s)'
      BY <1>f, <2>1, <2>2 DEF SavedIs, GivenBack, AsItIs, SessionBack, KeysBack, StoresBack,
         MustUndo
    <2> QED BY <2>3, <2>4, <2>5, <2>6, <2>7, <2>8, <2>9 DEF LoginFits
  <1>2. ASSUME NEW l \in Logins, Resolve(l) PROVE LoginFits' /\ SavedIs(s)'
    <2>1. /\ pc = "recover" /\ mode = "none" /\ todo' = todo \ {l}
          /\ UNCHANGED <<journal, target, aside, pending, session, storeKey, superseded>>
      BY <1>2 DEF Resolve, disk, TypeInv, ModesFit
    <2>2. \/ /\ txn' = l /\ mode' = "recover" /\ record' = journal[l] /\ blocked' = blocked
             /\ \/ pc' = "plan" /\ journal[l].stage \in UndoStages
                \/ pc' = "purgeAside" /\ journal[l].stage = "CredentialsWritten"
                \/ pc' = "clearSlot" /\ journal[l].stage \in Stages \ UndoStages
          \/ pc' = pc /\ mode' = mode /\ txn' = txn /\ blocked' = TRUE
      <3>1. CASE journal[l].stage \in UndoStages
        BY <1>2, <3>1 DEF Resolve
      <3>2. CASE journal[l].stage = "CredentialsWritten"
        BY <1>2, <3>2 DEF Resolve, UndoStages
      <3>3. CASE journal[l].stage \notin UndoStages \cup {"CredentialsWritten"}
        <4>1. journal[l].stage \in Stages
          BY <1>f, <1>2, Kinds
        <4> QED BY <1>2, <3>3, <4>1 DEF Resolve
      <3> QED BY <3>1, <3>2, <3>3
    <2>3. /\ \A k \in Logins : MustUndo(k)' <=> MustUndo(k)
          /\ pc' \in {"plan", "purgeAside", "clearSlot", "recover"}
      BY <2>1, <2>2 DEF MustUndo
    <2>4. OneToUndo'
      BY <1>f, <2>1, <2>2, <2>3 DEF OneToUndo, MustUndo, Working, Resting, Steps
    <2>5. RecordFits'
      BY <1>f, <2>1, <2>2, <2>3 DEF RecordFits, StagesOf, Working, Resting, Steps
    <2>6. StoresFit'
      BY <1>f, <2>1, <2>2, <2>3 DEF StoresFit, Account
    <2>7. SlotFits'
      BY <1>f, <2>1, <2>2, <2>3 DEF SlotFits, MustUndo
    <2>8. HeldFits'
      BY <1>f, <2>1, <2>2, <2>3 DEF HeldFits, Staged, Account
    <2>9. GivenBackFits'
      BY <1>f, <2>1, <2>2, <2>3 DEF GivenBackFits, SessionIsBack, StoreIsBack, Staged, Account
    <2>10. SavedIs(s)'
      BY <1>f, <2>1, <2>2, <2>3 DEF SavedIs, GivenBack, AsItIs, SessionBack, KeysBack,
         StoresBack, MustUndo
    <2> QED BY <2>4, <2>5, <2>6, <2>7, <2>8, <2>9, <2>10 DEF LoginFits
  <1>3. CASE Plan /\ ~LeftOpen
    <2>1. /\ pc = "plan" /\ pc \in Working /\ mode = "recover" /\ pc' = "unwind"
          /\ displaced' = IF Staged THEN superseded.was ELSE NoCredentials
          /\ UNCHANGED <<txn, mode, journal, record, target, aside, pending, session, storeKey,
                         superseded, failed, todo, blocked>>
      BY <1>3 DEF Plan, disk, TypeInv, ModesFit, Working, Resting, Steps
    <2>2. OneToUndo'
      BY <1>f, <2>1 DEF OneToUndo, MustUndo, Working, Resting, Steps
    <2>3. RecordFits'
      BY <1>f, <2>1 DEF RecordFits, StagesOf, Working, Resting, Steps
    <2>4. StoresFit'
      BY <1>f, <2>1 DEF StoresFit, Account
    <2>5. SlotFits'
      BY <1>f, <2>1 DEF SlotFits, MustUndo
    <2>6. HeldFits'
      BY <1>f, <2>1 DEF HeldFits, Staged, Account
    <2>7. GivenBackFits'
      BY <1>f, <2>1 DEF GivenBackFits, SessionIsBack, StoreIsBack, Staged, Account
    <2>8. SavedIs(s)'
      BY <1>f, <2>1 DEF SavedIs, GivenBack, AsItIs, SessionBack, KeysBack, StoresBack, MustUndo
    <2> QED BY <2>2, <2>3, <2>4, <2>5, <2>6, <2>7, <2>8 DEF LoginFits
  <1>4. CASE Plan /\ LeftOpen
    <2>1. pc = "plan" /\ UNCHANGED <<disk, keyring>>
      BY <1>4 DEF Plan
    <2>2. LoginFits' /\ SavedIs(s)'
      BY <1>4, <2>1, LeavingFits
    <2> QED BY <2>2
  <1>5. CASE Recovered
    <2>1. /\ pc = "recover" /\ mode = "none" /\ todo = {}
          /\ pc' = IF blocked THEN "blocked" ELSE "restore"
          /\ UNCHANGED <<txn, mode, journal, record, target, aside, pending, session, storeKey,
                         superseded, displaced, failed, todo, blocked>>
      BY <1>5 DEF Recovered, disk, TypeInv, ModesFit
    <2>2. pc' = "restore" => \A l \in Logins : ~MustUndo(l)
      BY <1>f, <2>1 DEF OneToUndo
    <2>3. OneToUndo'
      BY <1>f, <2>1, <2>2 DEF OneToUndo, MustUndo, Working, Resting, Steps
    <2>4. RecordFits'
      BY <1>f, <2>1, <2>2 DEF RecordFits, StagesOf, Working, Resting, Steps
    <2>5. StoresFit'
      BY <1>f, <2>1, <2>2 DEF StoresFit, Account
    <2>6. SlotFits'
      BY <1>f, <2>1, <2>2 DEF SlotFits, MustUndo
    <2>7. HeldFits'
      BY <1>f, <2>1, <2>2 DEF HeldFits, Staged, Account
    <2>8. GivenBackFits'
      BY <1>f, <2>1, <2>2 DEF GivenBackFits, SessionIsBack, StoreIsBack, Staged, Account
    <2>9. SavedIs(s)'
      BY <1>f, <2>1, <2>2 DEF SavedIs, GivenBack, AsItIs, SessionBack, KeysBack, StoresBack,
         MustUndo
    <2> QED BY <2>3, <2>4, <2>5, <2>6, <2>7, <2>8, <2>9 DEF LoginFits
  <1>6. CASE RestoreSaved
    <2>1. /\ pc = "restore" /\ mode = "none" /\ mode' = "none" /\ pc' \in {"running", "idle"}
          /\ session \in Logins
          /\ \/ target' = target /\ session' = session
             \/ /\ target[AccountOf[session]] = Nothing /\ session' \in {session, Nobody}
                /\ target' = [target EXCEPT ![AccountOf[session]] = Debris]
          /\ UNCHANGED <<journal, storeKey, superseded, todo, blocked>>
      BY <1>f, <1>6 DEF RestoreSaved, SavedKey, TypeInv, ModesFit
    <2>2. \A l \in Logins : ~MustUndo(l)
      BY <1>f, <2>1 DEF OneToUndo, Resting
    <2>3. AsItIs' = AsItIs
      <3>1. AccountOf[session] \in Accounts /\ session \notin {Nothing, Debris, Nobody}
        BY <1>f, <2>1
      <3>2. CASE target' = target /\ session' = session
        BY <2>1, <3>2 DEF AsItIs
      <3>3. CASE /\ target[AccountOf[session]] = Nothing /\ session' \in {session, Nobody}
                 /\ target' = [target EXCEPT ![AccountOf[session]] = Debris]
        BY <1>f, <2>1, <3>1, <3>3 DEF AsItIs, Restored3
      <3> QED BY <2>1, <3>2, <3>3
    <2>4. \A l \in Logins : journal[l].stage \notin {"OldStoreHeldAside", "NewStoreInstalled"}
      BY <2>2 DEF MustUndo, UndoStages
    <2>5. OneToUndo'
      BY <1>f, <2>1, <2>2, <2>3, <2>4 DEF OneToUndo, MustUndo, Working, Resting, Steps
    <2>6. RecordFits'
      BY <1>f, <2>1, <2>2, <2>3, <2>4 DEF RecordFits, StagesOf, Working, Resting, Steps
    <2>7. StoresFit'
      BY <1>f, <2>1, <2>2, <2>3, <2>4 DEF StoresFit, Account
    <2>8. SlotFits'
      BY <1>f, <2>1, <2>2, <2>3, <2>4 DEF SlotFits, MustUndo
    <2>9. HeldFits'
      BY <1>f, <2>1, <2>2, <2>3, <2>4 DEF HeldFits, Staged, Account
    <2>10. GivenBackFits'
      BY <1>f, <2>1, <2>2, <2>3, <2>4 DEF GivenBackFits, SessionIsBack, StoreIsBack, Staged,
         Account
    <2>11. SavedIs(s)'
      <3>1. \A l \in Logins : ~MustUndo(l)'
        BY <2>1, <2>2 DEF MustUndo
      <3> QED BY <1>f, <2>2, <2>3, <3>1 DEF SavedIs
    <2> QED BY <2>5, <2>6, <2>7, <2>8, <2>9, <2>10, <2>11 DEF LoginFits
  <1>7. CASE NothingSaved
    <2>1. /\ pc = "restore" /\ pc' = "idle" /\ mode = "none"
          /\ UNCHANGED <<txn, mode, journal, record, target, aside, pending, session, storeKey,
                         superseded, displaced, failed, todo, blocked>>
      BY <1>7 DEF NothingSaved, disk, TypeInv, ModesFit
    <2>2. OneToUndo'
      BY <1>f, <2>1 DEF OneToUndo, MustUndo, Working, Resting, Steps
    <2>3. RecordFits'
      BY <1>f, <2>1 DEF RecordFits, StagesOf, Working, Resting, Steps
    <2>4. StoresFit'
      BY <1>f, <2>1 DEF StoresFit, Account
    <2>5. SlotFits'
      BY <1>f, <2>1 DEF SlotFits, MustUndo
    <2>6. HeldFits'
      BY <1>f, <2>1 DEF HeldFits, Staged, Account
    <2>7. GivenBackFits'
      BY <1>f, <2>1 DEF GivenBackFits, SessionIsBack, StoreIsBack, Staged, Account
    <2>8. SavedIs(s)'
      BY <1>f, <2>1 DEF SavedIs, GivenBack, AsItIs, SessionBack, KeysBack, StoresBack, MustUndo
    <2> QED BY <2>2, <2>3, <2>4, <2>5, <2>6, <2>7, <2>8 DEF LoginFits
  <1> QED BY <1>1, <1>2, <1>3, <1>4, <1>5, <1>6, <1>7 DEF Starting

\* Only a user who asked for it loses what would be restored, at a step that
\* erases a part of it.
LEMMA ErasedIs ==
    ASSUME TypeInv, NEW s, SavedIs(s), \A l \in Logins : ~MustUndo(l),
           \A l \in Logins : ~MustUndo(l)',
           session' \in {session, Nobody}, DOMAIN storeKey' = Accounts,
           \A a \in Accounts : /\ storeKey'[a] \in {storeKey[a], Nobody}
                               /\ target'[a] \in {target[a], Nothing, Debris}
    PROVE  SavedIs(s)' \/ SavedIs(Nobody)'
  <1>1. s = AsItIs
    BY DEF SavedIs
  <1>2. AsItIs' \in {AsItIs, Nobody}
    <2>1. CASE session' = Nobody
      BY <2>1 DEF AsItIs, Restored3
    <2>2. CASE session' = session /\ session \in Logins
      <3>1. AccountOf[session] \in Accounts /\ session \notin {Nothing, Debris, Nobody}
        BY <2>2, ConstantsAssumption
      <3> QED BY <2>2, <3>1 DEF AsItIs, Restored3
    <2> QED BY <2>1, <2>2 DEF TypeInv, TypeOK
  <1>3. CASE AsItIs' = AsItIs
    BY <1>1, <1>3 DEF SavedIs
  <1>4. CASE AsItIs' = Nobody
    BY <1>4 DEF SavedIs
  <1> QED BY <1>2, <1>3, <1>4

\* Signing out: that, or what would be restored is as it was.
LEMMA ErasingFits ==
    ASSUME Plain, TypeInv, AtomInv, NEW s, SavedIs(s), Erasing
    PROVE  /\ LoginFits'
           /\ SavedIs(s)' \/ SavedIs(Nobody)'
           /\ Logout => SavedIs(s)'
  <1> USE DEF At, Goto, Steady, keyring
  <1>f. /\ OneToUndo /\ RecordFits /\ StoresFit /\ SlotFits /\ HeldFits /\ GivenBackFits
        /\ journal \in [Logins -> Record] /\ record \in Record
        /\ target \in [Accounts -> Stores] /\ aside \in [Logins -> Stores]
        /\ storeKey \in [Accounts -> Logins \cup {Nobody}]
        /\ session \in Logins \cup {Nobody} /\ superseded \in Slot /\ failed \in BOOLEAN
        /\ Logins \cap {Nobody, Corrupt, Nothing, Debris} = {}
        /\ AccountOf \in [Logins -> Accounts]
        /\ pc \in Working => txn \in Logins /\ Account \in Accounts
        /\ SavedIs(s)
    BY LoginFacts
  <1>0. /\ pc \in {"running", "eraseKey", "eraseSession", "eraseStore"}
        /\ pc' \in {"eraseKey", "eraseSession", "eraseStore", "idle"}
        /\ txn \in Logins /\ Account \in Accounts /\ mode' \in {"erase", "none"}
        /\ UNCHANGED <<journal, aside, pending, superseded, todo, blocked>>
    BY <1>f DEF Erasing, Logout, EraseKey, EraseSession, EraseStore, Release, Keep, disk, TypeInv,
       AtHand, Account, ModesFit
  <1>1. /\ \A l \in Logins : ~MustUndo(l)
        /\ \A l \in Logins : ~MustUndo(l)'
        /\ \A l \in Logins : journal[l].stage \notin {"OldStoreHeldAside", "NewStoreInstalled"}
    BY <1>f, <1>0 DEF OneToUndo, Resting, MustUndo, UndoStages
  <1>2. LoginFits'
    <2>1. OneToUndo'
      BY <1>0, <1>1 DEF OneToUndo, MustUndo, Working, Resting, Steps
    <2>2. RecordFits'
      BY <1>0 DEF RecordFits, Working, Resting
    <2>3. StoresFit'
      BY <1>0, <1>1 DEF StoresFit
    <2>4. SlotFits'
      BY <1>f, <1>0, <1>1 DEF SlotFits
    <2>5. HeldFits'
      BY <1>0 DEF HeldFits
    <2>6. GivenBackFits'
      BY <1>0 DEF GivenBackFits, SessionIsBack, StoreIsBack
    <2> QED BY <2>1, <2>2, <2>3, <2>4, <2>5, <2>6 DEF LoginFits
  <1>3. CASE Logout
    <2>1. UNCHANGED <<journal, target, aside, session, storeKey, superseded>>
      BY <1>3 DEF Logout, disk
    <2>2. SavedIs(s)'
      BY <1>f, <2>1 DEF SavedIs, GivenBack, AsItIs, SessionBack, KeysBack, StoresBack, MustUndo
    <2> QED BY <1>2, <2>2
  <1>4. CASE EraseKey \/ EraseSession \/ EraseStore
    <2>1. /\ session' \in {session, Nobody} /\ DOMAIN storeKey' = Accounts
          /\ storeKey' = storeKey \/ storeKey' = [storeKey EXCEPT ![Account] = Nobody]
      BY <1>f, <1>4 DEF EraseKey, EraseSession, EraseStore
    <2>2. \E p \in {Nothing, Debris, target[Account]} : target' = [target EXCEPT ![Account] = p]
      <3>1. CASE EraseKey \/ EraseSession
        <4>1. target' = [target EXCEPT ![Account] = target[Account]]
          BY <1>f, <1>0, <3>1 DEF EraseKey, EraseSession, Keep, disk
        <4> QED BY <4>1
      <3>2. CASE EraseStore
        BY <3>2, PlainPurge DEF EraseStore
      <3> QED BY <1>4, <3>1, <3>2
    <2>3. \A a \in Accounts : /\ storeKey'[a] \in {storeKey[a], Nobody}
                              /\ target'[a] \in {target[a], Nothing, Debris}
      BY <1>f, <1>0, <2>1, <2>2
    <2>4. SavedIs(s)' \/ SavedIs(Nobody)'
      BY <1>f, <1>1, <2>1, <2>3, ErasedIs
    <2>5. ~Logout
      BY <1>4 DEF Logout, EraseKey, EraseSession, EraseStore
    <2> QED BY <1>2, <2>4, <2>5
  <1> QED BY <1>3, <1>4 DEF Erasing

\* A process that ends, or dies in the middle of a purge, changes nothing of it.
LEMMA StoppingFits ==
    ASSUME Plain, TypeInv, AtomInv, NEW s, SavedIs(s), Stopping
    PROVE  /\ LoginFits'
           /\ SavedIs(s)' \/ (mode = "erase" /\ SavedIs(Nobody)')
  <1> USE DEF At, Goto, Steady, keyring
  <1>f. /\ OneToUndo /\ RecordFits /\ StoresFit /\ SlotFits /\ HeldFits /\ GivenBackFits
        /\ journal \in [Logins -> Record] /\ record \in Record
        /\ target \in [Accounts -> Stores] /\ aside \in [Logins -> Stores]
        /\ storeKey \in [Accounts -> Logins \cup {Nobody}]
        /\ session \in Logins \cup {Nobody} /\ superseded \in Slot /\ failed \in BOOLEAN
        /\ Logins \cap {Nobody, Corrupt, Nothing, Debris} = {}
        /\ AccountOf \in [Logins -> Accounts]
        /\ pc \in Working => txn \in Logins /\ Account \in Accounts
        /\ SavedIs(s)
    BY LoginFacts
  <1>0. /\ pc' = "off" /\ mode' = "none" /\ txn' = Nobody
        /\ UNCHANGED <<journal, session, storeKey, superseded>>
    BY DEF Stopping, Quit, Crash, CrashMidPurge, Forgotten, disk
  <1>1. \A l \in Logins : MustUndo(l)' <=> MustUndo(l)
    BY <1>0 DEF MustUndo
  <1>2. ASSUME \A l \in Logins : journal[l].stage \in {"OldStoreHeldAside", "NewStoreInstalled"} =>
                  target'[AccountOf[l]] \in {Nothing, Debris, l}
        PROVE  LoginFits'
    <2>1. OneToUndo'
      BY <1>f, <1>0, <1>1 DEF OneToUndo, Working, Resting, Steps
    <2>2. RecordFits'
      BY <1>0 DEF RecordFits, Working
    <2>3. StoresFit'
      BY <1>0, <1>2 DEF StoresFit
    <2>4. SlotFits'
      BY <1>f, <1>0, <1>1 DEF SlotFits
    <2>5. HeldFits'
      BY <1>0 DEF HeldFits
    <2>6. GivenBackFits'
      BY <1>0 DEF GivenBackFits, SessionIsBack, StoreIsBack
    <2> QED BY <2>1, <2>2, <2>3, <2>4, <2>5, <2>6 DEF LoginFits
  <1>3. CASE target' = target /\ aside' = aside
    <2>1. SavedIs(s)'
      BY <1>f, <1>0, <1>3 DEF SavedIs, GivenBack, AsItIs, SessionBack, KeysBack, StoresBack,
         MustUndo
    <2> QED BY <1>f, <1>2, <1>3, <2>1 DEF StoresFit
  <1>4. CASE /\ pc = "unwind" /\ record.stage \in OursStages
             /\ target' = [target EXCEPT ![Account] = Debris] /\ aside' = aside
    <2>1. /\ pc \in Working /\ journal[txn].stage \in UndoStages /\ record = journal[txn]
          /\ \A l \in Logins : MustUndo(l) => l = txn
      BY <1>f, <1>4 DEF RecordFits, StagesOf, OneToUndo, MustUndo, Working, Resting, Steps
    <2>2. s = GivenBack(txn)
      BY <1>f, <2>1 DEF SavedIs, MustUndo
    <2>3. ASSUME NEW u \in Logins, u = txn PROVE GivenBack(u)' = GivenBack(u)
      <3>1. SessionBack(u)' = SessionBack(u) /\ KeysBack(u)' = KeysBack(u)
        BY <1>0 DEF SessionBack, KeysBack
      <3>2. \A t : [[target EXCEPT ![Account] = Debris] EXCEPT ![Account] = t]
                     = [target EXCEPT ![Account] = t]
        BY <1>f, <2>1
      <3>3. StoresBack(u)' = StoresBack(u)
        BY <1>0, <1>4, <2>1, <2>3, <3>2 DEF StoresBack, Account
      <3> QED BY <3>1, <3>3 DEF GivenBack
    <2>4. SavedIs(s)'
      BY <1>1, <2>1, <2>2, <2>3, <1>f DEF SavedIs, MustUndo
    <2>5. \A l \in Logins : journal[l].stage \in {"OldStoreHeldAside", "NewStoreInstalled"} =>
             target'[AccountOf[l]] \in {Nothing, Debris, l}
      BY <1>f, <1>4, <2>1 DEF MustUndo, UndoStages, Account
    <2> QED BY <1>2, <2>4, <2>5
  <1>5. CASE pc = "eraseStore" /\ target' = [target EXCEPT ![Account] = Debris] /\ aside' = aside
    <2>1. \A l \in Logins : ~MustUndo(l)
      BY <1>f, <1>5 DEF OneToUndo, Resting
    <2>2. /\ txn \in Logins /\ Account \in Accounts /\ mode = "erase"
      BY <1>f, <1>5 DEF TypeInv, AtHand, Account, ModesFit
    <2>3. \A a \in Accounts : /\ storeKey'[a] \in {storeKey[a], Nobody}
                              /\ target'[a] \in {target[a], Nothing, Debris}
      BY <1>f, <1>0, <1>5, <2>2
    <2>4. SavedIs(s)' \/ SavedIs(Nobody)'
      BY <1>f, <1>0, <1>1, <2>1, <2>3, ErasedIs
    <2>5. LoginFits'
      BY <1>2, <2>1 DEF MustUndo, UndoStages
    <2> QED BY <2>2, <2>4, <2>5
  <1>6. CASE pc = "purgeAside" /\ target' = target /\ aside' = [aside EXCEPT ![txn] = Debris]
    <2>1. pc \in Working /\ journal[txn].stage \notin UndoStages
      BY <1>f, <1>6 DEF RecordFits, StagesOf, UndoStages, TerminalStages, Working, Resting, Steps
    <2>2. \A l \in Logins : MustUndo(l) => aside'[l] = aside[l]
      BY <1>f, <1>6, <2>1 DEF MustUndo
    <2>3. SavedIs(s)'
      BY <1>f, <1>0, <1>1, <1>6, <2>2 DEF SavedIs, GivenBack, AsItIs, SessionBack, KeysBack,
         StoresBack
    <2> QED BY <1>f, <1>2, <1>6, <2>3 DEF StoresFit
  <1> QED BY <1>3, <1>4, <1>5, <1>6 DEF Stopping, Quit, Crash, CrashMidPurge, disk

\* On a device where nobody, or one user, is signed in.
LEMMA AtomInit == Init => AtomInv
  <1> SUFFICES ASSUME Init PROVE AtomInv
    OBVIOUS
  <1>1. PICK l \in Logins \cup {Nobody}, stale \in {Nobody, Corrupt} :
           /\ journal = [k \in Logins |-> NoRecord] /\ aside = [k \in Logins |-> Nothing]
           /\ session = l /\ superseded = [txn |-> stale, was |-> NoCredentials]
           /\ pc = "off" /\ mode = "none" /\ displaced = NoCredentials /\ todo = {}
           /\ tried = IF l = Nobody THEN {} ELSE {l}
    BY DEF Init
  <1>2. /\ \A k \in Logins : journal[k].stage = "Closed" /\ ~MustUndo(k) /\ superseded.txn # k
        /\ superseded.was.session = Nobody /\ displaced.session = Nobody
    BY <1>1, ConstantsAssumption DEF NoRecord, NoCredentials, MustUndo, UndoStages
  <1>3. Known
    BY <1>1, <1>2 DEF Known, TriedInv, Open, Working
  <1>4. OneToUndo /\ RecordFits /\ StoresFit
    BY <1>1, <1>2 DEF OneToUndo, RecordFits, StoresFit, Working, Resting
  <1>5. SlotFits /\ HeldFits /\ GivenBackFits
    BY <1>1, <1>2, ConstantsAssumption DEF SlotFits, HeldFits, GivenBackFits, SessionIsBack,
       StoreIsBack
  <1> QED BY <1>3, <1>4, <1>5 DEF AtomInv, LoginFits

-----------------------------------------------------------------------------
(* The steps of AtomicLogin that the steps of the login take *)

\* The variables of AtomicLogin, as LoginAtomicity maps them.
Attempt == IF Making \/ Revocable THEN txn ELSE Nobody
SavedLogin == RestorableWithout(Undoable)
Fallback == IF Revocable THEN RestorableWithout(Undoable \cup {txn}) ELSE Final
Leaving == mode = "erase"

\* A step of AtomicLogin, or one that it does not see.
AtomicStep == [Atomic!Next]_(Atomic!vars)

\* At work, that is at a step where a login is being made or may be taken back.
Busy == Making \/ pc \in {"await", "rollingBack"}

\* What an established login gives back is a login, or none: not Final.
MappingFits ==
    TypeInv /\ OneToUndo =>
       /\ SavedIs(SavedLogin)
       /\ \A s : SavedIs(s) => SavedLogin = s
       /\ Revocable => /\ txn \in Logins /\ txn # Nobody /\ Fallback = GivenBack(txn)
                       /\ Fallback # Final
       /\ ~Revocable => Fallback = Final
       /\ Making => txn \in Logins /\ txn # Nobody
       /\ Busy => mode # "erase" /\ pc \in Working

\* These are the values that the mapping gives.
LEMMA MappedValues == MappingFits
  <1> SUFFICES ASSUME TypeInv, OneToUndo
               PROVE  /\ SavedIs(SavedLogin)
                      /\ \A s : SavedIs(s) => SavedLogin = s
                      /\ Revocable => /\ txn \in Logins /\ txn # Nobody /\ Fallback = GivenBack(txn)
                                      /\ Fallback # Final
                      /\ ~Revocable => Fallback = Final
                      /\ Making => txn \in Logins /\ txn # Nobody
                      /\ Busy => mode # "erase" /\ pc \in Working
    BY DEF MappingFits
  <1>1. SavedIs(SavedLogin) /\ \A s : SavedIs(s) => SavedLogin = s
    BY SavedValue DEF SavedLogin
  <1>2. Busy => mode # "erase" /\ pc \in Working
    BY DEF TypeInv, ModesFit, Busy, Making, Working, Resting, Steps
  <1>3. Busy => txn \in Logins /\ txn # Nobody
    BY ConstantsAssumption DEF TypeInv, AtHand, Busy, Making
  <1>4. ASSUME Revocable PROVE Fallback = GivenBack(txn) /\ Fallback # Final
    <2>1. pc \in Working /\ mode # "recover" /\ txn \in Logins
      BY <1>2, <1>3, <1>4 DEF TypeInv, ModesFit, Busy, Revocable
    <2>2. \A l \in Logins : MustUndo(l) => l = txn
      BY <2>1 DEF OneToUndo
    <2>3. Fallback = GivenBack(txn)
      BY <1>4, <2>1, <2>2, SavedValue DEF Fallback
    <2>4. SessionBack(txn) \in Logins \cup {Nobody}
      BY Kinds DEF SessionBack, TypeInv, TypeOK
    <2>5. GivenBack(txn) \in Logins \cup {Nobody}
      BY <2>4 DEF GivenBack, Restored3
    <2> QED BY <2>3, <2>5, FinalAssumption
  <1>5. ~Revocable => Fallback = Final
    BY DEF Fallback
  <1> QED BY <1>1, <1>2, <1>3, <1>4, <1>5 DEF Busy, Revocable

\* A step that leaves what is restored: the attempt goes on, or is given up.
LEMMA GoesOn ==
    ASSUME TypeInv, OneToUndo, tried' = tried, SavedLogin' = SavedLogin, ~Revocable, ~Revocable',
           Leaving' = Leaving, Making' => Making /\ txn' = txn
    PROVE  AtomicStep
  <1>1. Fallback = Final /\ Fallback' = Final
    BY DEF Fallback
  <1>2. Attempt' = Attempt \/ (Attempt' = Nobody /\ Attempt # Nobody)
    BY DEF Attempt
  <1>3. CASE Attempt' = Attempt
    BY <1>1, <1>3 DEF AtomicStep, Atomic!vars, Attempt, SavedLogin, Fallback, Leaving
  <1>4. CASE Attempt' = Nobody /\ Attempt # Nobody
    <2>1. Atomic!GiveUp
      BY <1>1, <1>4 DEF Atomic!GiveUp, Attempt, SavedLogin, Fallback, Leaving
    <2> QED BY <2>1 DEF AtomicStep, Atomic!Next
  <1> QED BY <1>2, <1>3, <1>4

\* An established login is confirmed when it can no longer be taken back here.
LEMMA IsConfirmed ==
    ASSUME TypeInv, OneToUndo, tried' = tried, SavedLogin' = SavedLogin, Revocable,
           ~Revocable', ~Making', Leaving' = Leaving
    PROVE  AtomicStep
  <1>1. Fallback # Final /\ Fallback' = Final /\ Attempt' = Nobody
    BY MappedValues DEF MappingFits, Fallback, Attempt
  <1>2. Atomic!Confirm
    BY <1>1 DEF Atomic!Confirm, Attempt, SavedLogin, Fallback, Leaving
  <1> QED BY <1>2 DEF AtomicStep, Atomic!Next

\* Where nothing is being made, a user asks to leave, or is through with it.
LEMMA IsLeft ==
    ASSUME tried' = tried, SavedLogin' = SavedLogin, ~Busy, ~Busy', Leaving' = ~Leaving
    PROVE  AtomicStep
  <1>1. /\ Fallback = Final /\ Fallback' = Final /\ Attempt = Nobody /\ Attempt' = Nobody
    BY DEF Fallback, Attempt, Busy, Revocable
  <1>2. Atomic!Leave
    BY <1>1 DEF Atomic!Leave, Attempt, SavedLogin, Fallback, Leaving
  <1> QED BY <1>2 DEF AtomicStep, Atomic!Next

\* And only then may the saved login be gone.
LEMMA IsSignedOut ==
    ASSUME tried' = tried, SavedLogin' = Nobody, ~Busy, ~Busy', Leaving
    PROVE  AtomicStep
  <1>1. /\ Fallback = Final /\ Fallback' = Final /\ Attempt = Nobody /\ Attempt' = Nobody
        /\ Leaving' \in BOOLEAN
    BY DEF Fallback, Attempt, Busy, Revocable, Leaving
  <1>2. Atomic!SignOut
    BY <1>1 DEF Atomic!SignOut, Attempt, SavedLogin, Fallback, Leaving
  <1> QED BY <1>2 DEF AtomicStep, Atomic!Next

\* Steps at which no login is being made.
LEMMA NobodyIsBusy ==
    TypeInv /\ (RestoreSession \/ RestoreKey \/ Unwinding \/ Concluding \/ Starting) =>
       ~Busy /\ ~Busy' /\ ~Leaving /\ ~Leaving' /\ tried' = tried
  <1> SUFFICES ASSUME TypeInv,
                      RestoreSession \/ RestoreKey \/ Unwinding \/ Concluding \/ Starting
               PROVE  ~Busy /\ ~Busy' /\ ~Leaving /\ ~Leaving' /\ tried' = tried
    OBVIOUS
  <1> USE DEF At, Goto, Steady
  <1> DEFINE Idly == ~Busy /\ ~Busy' /\ ~Leaving /\ ~Leaving' /\ tried' = tried
             Left == pc' \in {"scratch", "idle", "blocked", "recover", "running"}
                     /\ mode' \in {mode, "none"} /\ tried' = tried
  <1>1. LeftOpen /\ mode \in {"adopt", "abandon", "rollback", "recover"} => Left
    <2>1. LeftOpen /\ mode \in {"adopt", "abandon", "rollback", "recover"} => tried' = tried
      BY DEF LeftOpen, Release
    <2> QED BY <2>1, LeftOpenTo
  <1>2. Closed /\ mode \in {"adopt", "abandon", "rollback", "recover", "commit"} => Left
    <2>1. Closed /\ mode \in {"adopt", "abandon", "rollback", "recover", "commit"} => tried' = tried
      BY DEF Closed, Release
    <2> QED BY <2>1, ClosedTo
  <1>3. CASE RestoreSession \/ RestoreKey
    BY <1>3 DEF RestoreSession, RestoreKey, TypeInv, ModesFit, Busy, Making, Leaving
  <1>4. CASE Unwind \/ AdvanceUnwound \/ PutBack \/ DropPending
    BY <1>4 DEF Unwind, AdvanceUnwound, Advance, Persist, PutBack, DropPending, TypeInv, ModesFit,
       Busy, Making, Leaving
  <1>5. CASE Unwound \/ Restored
    BY <1>1, <1>5 DEF Unwound, Restored, TypeInv, ModesFit, Busy, Making, Leaving
  <1>6. CASE RecordRolledBack \/ MarkRolledBack
    BY <1>1, <1>6 DEF RecordRolledBack, MarkRolledBack, TypeInv, ModesFit, Busy, Making, Leaving
  <1>7. CASE ClearSlot \/ Forget \/ Settled
    BY <1>2, <1>7 DEF ClearSlot, Forget, Settled, TypeInv, ModesFit, Busy, Making, Leaving
  <1>8. CASE Scratch
    BY <1>8 DEF Scratch, Release, TypeInv, ModesFit, Busy, Making, Leaving
  <1>9. CASE PurgeAside \/ AdvanceCommitted
    BY <1>9 DEF PurgeAside, AdvanceCommitted, Advance, Persist, TypeInv, ModesFit, Busy, Making,
       Leaving
  <1>10. CASE Plan
    BY <1>1, <1>10 DEF Plan, TypeInv, ModesFit, Busy, Making, Leaving
  <1>11. CASE Start \/ Recovered \/ RestoreSaved \/ NothingSaved
    BY <1>11 DEF Start, Recovered, RestoreSaved, NothingSaved, environment, TypeInv, ModesFit,
       Busy, Making, Leaving
  <1>12. ASSUME NEW l \in Logins, Resolve(l) PROVE Idly
    <2>1. pc = "recover" /\ mode = "none" /\ tried' = tried
      BY <1>12 DEF Resolve, TypeInv, ModesFit
    <2>2. pc' \in {"plan", "purgeAside", "clearSlot", "recover"} /\ mode' \in {"recover", mode}
      BY <1>12, <2>1 DEF Resolve
    <2> QED BY <2>1, <2>2 DEF Busy, Making, Leaving
  <1> QED BY <1>3, <1>4, <1>5, <1>6, <1>7, <1>8, <1>9, <1>10, <1>11, <1>12
       DEF Unwinding, Concluding, Starting

\* So they are after a step too.
LEMMA MappedNext == MappingFits'
  BY MappedValues, PTL

\* Steps that make the new store or write the credentials, but for the first and
\* the last of them, are seen at most as the one that gives the attempt up.
LEMMA MakingSteps ==
    ASSUME Plain, TypeInv, AtomInv, AtomInv', TypeInv',
           \/ Adopting /\ ~\E l \in Logins : BeginLogin(l)
           \/ ReadDisplaced \/ StageDisplaced \/ MarkStaged \/ SaveKey \/ SaveSession
           \/ AdvanceWritten /\ pc' = "rollingBack" /\ journal' = journal
    PROVE  /\ tried' = tried /\ ~Revocable /\ ~Revocable' /\ ~Leaving /\ ~Leaving'
           /\ Making /\ txn' = txn
  <1> USE DEF At, Goto, Steady
  <1>f. /\ RecordFits /\ (pc \in Working => txn \in Logins)
        /\ journal \in [Logins -> Record] /\ journal' \in [Logins -> Record]
    BY LoginFacts DEF TypeInv, TypeOK
  <1>1. CASE OpenJournal \/ HoldAside \/ AdvanceHeldAside \/ Install \/ AdvanceInstalled
             \/ OpenSession
    BY <1>1 DEF OpenJournal, HoldAside, AdvanceHeldAside, Install, AdvanceInstalled, OpenSession,
       environment, Advance, Persist, TypeInv, ModesFit, Making, Revocable, Leaving
  <1>2. CASE \/ ReadDisplaced \/ StageDisplaced \/ MarkStaged \/ SaveKey \/ SaveSession
             \/ AdvanceWritten /\ pc' = "rollingBack" /\ journal' = journal
    <2>1. /\ pc \in {"readDisplaced", "stageDisplaced", "markStaged", "saveKey", "saveSession",
                     "advanceWritten"}
          /\ pc' \in {"stageDisplaced", "markStaged", "saveKey", "saveSession", "advanceWritten",
                      "rollingBack", "unwind"}
          /\ txn' = txn /\ tried' = tried /\ mode = "record" /\ mode' \in {"record", "rollback"}
      BY <1>2 DEF ReadDisplaced, StageDisplaced, MarkStaged, Persist, SaveKey, SaveSession,
         AdvanceWritten, TypeInv, ModesFit
    <2>2. pc \in Working /\ journal[txn].stage = "NewStoreInstalled" /\ record = journal[txn]
      BY <1>f, <2>1 DEF RecordFits, StagesOf, Working, Resting, Steps
    <2>3. pc' = "rollingBack" => journal'[txn].stage = "NewStoreInstalled"
      <3>1. CASE MarkStaged
        <4> DEFINE rec == [record EXCEPT !.staged = TRUE]
        <4>1. rec \in Record /\ rec.stage = record.stage
          BY Kinds DEF TypeInv, TypeOK
        <4>2. Persist(rec, "saveKey", "rollingBack")
          BY <3>1 DEF MarkStaged
        <4> HIDE DEF rec
        <4> QED BY <1>f, <2>2, <4>1, <4>2, PlainPersist DEF TypeInv
      <3>2. CASE journal' = journal
        BY <2>2, <3>2
      <3> QED BY <1>2, <3>1, <3>2 DEF ReadDisplaced, StageDisplaced, SaveKey, SaveSession, Keep,
         disk
    <2> QED BY <2>1, <2>3 DEF Making, Revocable, Leaving
  <1> QED BY <1>1, <1>2 DEF Adopting

\* A step keeps the invariant, and is a step of AtomicLogin or not seen by it.
LEMMA StepIsAtomic ==
    ASSUME Plain, TypeInv, AtomInv, TypeInv', Known', Next
    PROVE  AtomInv' /\ AtomicStep
  <1> USE DEF At, Goto, Steady
  <1>0. OneToUndo /\ (pc \in Working => txn \in Logins)
    BY LoginFacts
  <1>1. PICK s : SavedIs(s) /\ SavedLogin = s
    BY <1>0, MappedValues DEF MappingFits
  <1>2. /\ LoginFits' => AtomInv' /\ OneToUndo'
        /\ \A t : LoginFits' /\ SavedIs(t)' => SavedLogin' = t
        /\ LoginFits' /\ Revocable' => Fallback' = GivenBack(txn)'
    BY MappedNext DEF MappingFits, AtomInv, LoginFits
  <1>3. Busy => ~Leaving
    BY <1>0, MappedValues DEF MappingFits, Leaving
  <1>4. ASSUME NEW l \in Logins, BeginLogin(l) PROVE AtomInv' /\ AtomicStep
    <2>1. LoginFits' /\ SavedIs(s)'
      BY <1>1, <1>4, AdoptingFits DEF Adopting
    <2>2. /\ pc = "idle" /\ mode = "none" /\ pc' = "open" /\ mode' = "adopt" /\ txn' = l
          /\ l \notin tried /\ tried' = tried \cup {l}
      BY <1>4 DEF BeginLogin, TypeInv, ModesFit
    <2>3. /\ Attempt = Nobody /\ Attempt' = l /\ Fallback = Final /\ Fallback' = Final
          /\ ~Leaving /\ ~Leaving'
      BY <2>2 DEF Attempt, Fallback, Leaving, Making, Revocable
    <2>4. Atomic!Begin(l)
      BY <1>1, <1>2, <2>1, <2>2, <2>3 DEF Atomic!Begin, Attempt, SavedLogin, Fallback, Leaving
    <2> QED BY <1>2, <1>4, <2>1, <2>4 DEF AtomicStep, Atomic!Next
  <1>5. CASE \/ Adopting /\ ~\E l \in Logins : BeginLogin(l)
             \/ ReadDisplaced \/ StageDisplaced \/ MarkStaged \/ SaveKey \/ SaveSession
    <2>1. LoginFits' /\ SavedIs(s)'
      BY <1>1, <1>5, AdoptingFits, RecordingFits
    <2>2. /\ tried' = tried /\ ~Revocable /\ ~Revocable' /\ ~Leaving /\ ~Leaving'
          /\ Making /\ txn' = txn
      BY <1>2, <1>5, <2>1, MakingSteps
    <2>3. Leaving' = Leaving
      BY <2>2 DEF Leaving
    <2>4. SavedLogin' = SavedLogin
      BY <1>1, <1>2, <2>1
    <2> QED BY <1>0, <1>2, <2>1, <2>2, <2>3, <2>4, GoesOn
  <1>6. CASE AdvanceWritten
    <2>1. /\ LoginFits'
          /\ \/ pc' = "rollingBack" /\ journal' = journal /\ SavedIs(s)'
             \/ /\ pc' = "await" /\ journal'[txn].stage = "CredentialsWritten"
                /\ SavedIs(txn)' /\ GivenBack(txn)' = s
      BY <1>1, <1>6, WrittenFits
    <2>2. CASE pc' = "rollingBack" /\ journal' = journal /\ SavedIs(s)'
      <3>1. /\ tried' = tried /\ ~Revocable /\ ~Revocable' /\ ~Leaving /\ ~Leaving'
            /\ Making /\ txn' = txn
        BY <1>2, <1>6, <2>1, <2>2, MakingSteps
      <3>2. Leaving' = Leaving
        BY <3>1 DEF Leaving
      <3>3. SavedLogin' = SavedLogin
        BY <1>1, <1>2, <2>1, <2>2
      <3> QED BY <1>0, <1>2, <2>1, <3>1, <3>2, <3>3, GoesOn
    <2>3. CASE /\ pc' = "await" /\ journal'[txn].stage = "CredentialsWritten"
               /\ SavedIs(txn)' /\ GivenBack(txn)' = s
      <3>1. /\ pc = "advanceWritten" /\ mode = "record" /\ mode' = "record" /\ txn' = txn
            /\ tried' = tried
        BY <1>6 DEF AdvanceWritten, TypeInv, ModesFit
      <3>2. Making /\ ~Revocable /\ Revocable' /\ ~Leaving /\ ~Leaving'
        BY <2>3, <3>1 DEF Making, Revocable, Leaving
      <3>3. Attempt = txn /\ Attempt' = txn /\ Fallback = Final /\ txn # Nobody
        BY <1>0, <3>1, <3>2, MappedValues DEF MappingFits, Attempt, Fallback
      <3>4. SavedLogin' = txn
        <4>1. PICK t : t = txn
          OBVIOUS
        <4>2. SavedIs(t)'
          BY <2>3, <3>1, <4>1
        <4> QED BY <1>2, <2>1, <4>1, <4>2
      <3>5. Fallback' = s
        BY <1>2, <2>1, <2>3, <3>2
      <3>6. Atomic!Establish
        BY <1>1, <3>1, <3>2, <3>3, <3>4, <3>5 DEF Atomic!Establish, Attempt, SavedLogin, Fallback,
           Leaving
      <3> QED BY <1>2, <2>1, <3>6 DEF AtomicStep, Atomic!Next
    <2> QED BY <2>1, <2>2, <2>3
  <1>7. CASE SettleLogin
    <2>1. LoginFits' /\ SavedIs(s)'
      BY <1>1, <1>7, RecordingFits
    <2>2. SavedLogin' = SavedLogin
      BY <1>1, <1>2, <2>1
    <2>3. /\ pc = "await" /\ mode = "record" /\ txn' = txn /\ tried' = tried
          /\ \/ mode' = "commit" /\ pc' = "purgeAside"
             \/ mode' = "rollback" /\ pc' = "rollingBack"
          /\ UNCHANGED <<disk, keyring>>
      BY <1>7 DEF SettleLogin, environment, TypeInv, ModesFit
    <2>4. Revocable
      BY <1>0, <2>3, LoginFacts DEF RecordFits, StagesOf, Revocable, Working, Resting, Steps
    <2>5. CASE pc' = "purgeAside"
      <3>1. ~Revocable' /\ ~Making' /\ Leaving' = Leaving
        BY <2>3, <2>5 DEF Revocable, Making, Leaving
      <3> QED BY <1>0, <1>2, <2>1, <2>2, <2>3, <2>4, <3>1, IsConfirmed
    <2>6. CASE pc' = "rollingBack"
      <3>1. Revocable' /\ Leaving' = Leaving
        BY <2>3, <2>4, <2>6 DEF Revocable, Leaving, disk
      <3>2. Attempt' = Attempt
        BY <2>3, <2>4, <3>1 DEF Attempt
      <3>3. GivenBack(txn)' = GivenBack(txn)
        BY <2>3 DEF GivenBack, SessionBack, KeysBack, StoresBack, disk, keyring
      <3>4. Fallback' = Fallback
        BY <1>0, <1>2, <2>1, <2>4, <3>1, <3>3, MappedValues DEF MappingFits
      <3>5. AtomicStep
        BY <2>2, <2>3, <3>1, <3>2, <3>4 DEF AtomicStep, Atomic!vars, Attempt, SavedLogin, Fallback,
           Leaving
      <3> QED BY <1>2, <2>1, <3>5
    <2> QED BY <2>3, <2>5, <2>6
  <1>8. CASE RollingBack
    <2>1. /\ LoginFits' /\ pc' \in {"restoreSession", "blocked"}
          /\ \/ SavedIs(s)'
             \/ /\ journal[txn].stage = "CredentialsWritten"
                /\ \E back : back = GivenBack(txn) /\ SavedIs(back)'
      BY <1>1, <1>8, RollingBackFits
    <2>2. /\ pc = "rollingBack" /\ mode \in {"record", "rollback"} /\ mode' = "rollback"
          /\ txn' = txn /\ tried' = tried
      BY <1>8 DEF RollingBack, TypeInv, ModesFit
    <2>3. ~Making /\ ~Making' /\ ~Revocable' /\ ~Leaving /\ ~Leaving'
      BY <2>1, <2>2 DEF Making, Revocable, Leaving
    <2>4. Leaving' = Leaving
      BY <2>2 DEF Leaving
    <2>5. CASE SavedIs(s)'
      <3>1. SavedLogin' = SavedLogin
        BY <1>1, <1>2, <2>1, <2>5
      <3>2. CASE Revocable
        BY <1>0, <1>2, <2>1, <2>2, <2>3, <2>4, <3>1, <3>2, IsConfirmed
      <3>3. CASE ~Revocable
        BY <1>0, <1>2, <2>1, <2>2, <2>3, <2>4, <3>1, <3>3, GoesOn
      <3> QED BY <3>2, <3>3
    <2>6. ASSUME journal[txn].stage = "CredentialsWritten",
                 NEW back, back = GivenBack(txn), SavedIs(back)'
          PROVE  AtomInv' /\ AtomicStep
      <3>1. Revocable
        BY <2>2, <2>6 DEF Revocable
      <3>2. Fallback = back /\ Fallback # Final
        BY <1>0, <2>6, <3>1, MappedValues DEF MappingFits
      <3>3. SavedLogin' = back /\ Fallback' = Final /\ Attempt' = Nobody
        BY <1>2, <2>1, <2>3, <2>6 DEF Fallback, Attempt
      <3>4. Atomic!Undo
        BY <2>2, <2>4, <3>2, <3>3 DEF Atomic!Undo, Attempt, SavedLogin, Fallback, Leaving
      <3> QED BY <1>2, <2>1, <3>4 DEF AtomicStep, Atomic!Next
    <2> QED BY <2>1, <2>5, <2>6
  <1>9. CASE RestoreSession \/ RestoreKey \/ Unwinding \/ Concluding \/ Starting
    <2>1. LoginFits' /\ SavedIs(s)'
      BY <1>1, <1>9, RestoringFits, UnwindingFits, ConcludingFits, StartingFits
    <2>2. ~Busy /\ ~Busy' /\ ~Leaving /\ ~Leaving' /\ tried' = tried
      BY <1>9, NobodyIsBusy
    <2>3. ~Revocable /\ ~Revocable' /\ ~Making' /\ Leaving' = Leaving
      BY <2>2 DEF Busy, Revocable, Leaving
    <2>4. SavedLogin' = SavedLogin
      BY <1>1, <1>2, <2>1
    <2> QED BY <1>0, <1>2, <2>1, <2>2, <2>3, <2>4, GoesOn
  <1>10. CASE Erasing
    <2>1. /\ LoginFits'
          /\ SavedIs(s)' \/ SavedIs(Nobody)'
          /\ Logout => SavedIs(s)'
      BY <1>1, <1>10, ErasingFits
    <2>2. /\ tried' = tried /\ ~Busy /\ ~Busy'
          /\ \/ Logout /\ ~Leaving /\ Leaving'
             \/ Leaving
      BY <1>10 DEF Erasing, Logout, EraseKey, EraseSession, EraseStore, Release, environment,
         TypeInv, ModesFit, Busy, Making, Leaving
    <2>3. CASE SavedIs(s)'
      <3>1. SavedLogin' = SavedLogin
        BY <1>1, <1>2, <2>1, <2>3
      <3>2. CASE Leaving' = Leaving
        <4>1. ~Revocable /\ ~Revocable' /\ ~Making'
          BY <2>2 DEF Busy, Revocable
        <4> QED BY <1>0, <1>2, <2>1, <2>2, <3>1, <3>2, <4>1, GoesOn
      <3>3. CASE Leaving' = ~Leaving
        BY <1>2, <2>1, <2>2, <3>1, <3>3, IsLeft
      <3> QED BY <3>2, <3>3 DEF Leaving
    <2>4. CASE SavedIs(Nobody)' /\ ~Logout
      <3>1. SavedLogin' = Nobody
        BY <1>2, <2>1, <2>4
      <3> QED BY <1>2, <2>1, <2>2, <2>4, <3>1, IsSignedOut
    <2> QED BY <2>1, <2>3, <2>4
  <1>11. CASE Stopping
    <2>1. /\ LoginFits'
          /\ SavedIs(s)' \/ (mode = "erase" /\ SavedIs(Nobody)')
      BY <1>1, <1>11, StoppingFits
    <2>2. pc' = "off" /\ mode' = "none" /\ tried' = tried
      BY <1>11 DEF Stopping, Quit, Crash, CrashMidPurge, Forgotten
    <2>3. ~Busy' /\ ~Making' /\ ~Revocable' /\ ~Leaving'
      BY <2>2 DEF Busy, Making, Revocable, Leaving
    <2>4. CASE SavedIs(s)'
      <3>1. SavedLogin' = SavedLogin
        BY <1>1, <1>2, <2>1, <2>4
      <3>2. CASE Leaving
        <4>1. ~Busy /\ Leaving' = ~Leaving
          BY <1>3, <2>2, <3>2 DEF Leaving
        <4> QED BY <1>2, <2>1, <2>2, <2>3, <3>1, <4>1, IsLeft
      <3>3. CASE ~Leaving /\ Revocable
        <4>1. Leaving' = Leaving
          BY <2>2, <3>3 DEF Leaving
        <4> QED BY <1>0, <1>2, <2>1, <2>2, <2>3, <3>1, <3>3, <4>1, IsConfirmed
      <3>4. CASE ~Leaving /\ ~Revocable
        <4>1. Leaving' = Leaving
          BY <2>2, <3>4 DEF Leaving
        <4> QED BY <1>0, <1>2, <2>1, <2>2, <2>3, <3>1, <3>4, <4>1, GoesOn
      <3> QED BY <3>2, <3>3, <3>4
    <2>5. CASE mode = "erase" /\ SavedIs(Nobody)'
      <3>1. SavedLogin' = Nobody /\ Leaving /\ ~Busy
        BY <1>2, <1>3, <2>1, <2>5 DEF Leaving
      <3> QED BY <1>2, <2>1, <2>2, <2>3, <3>1, IsSignedOut
    <2> QED BY <2>1, <2>4, <2>5
  <1> QED BY <1>4, <1>5, <1>6, <1>7, <1>8, <1>9, <1>10, <1>11
       DEF Next, Step, Adopting, Recording, RollBack

\* An unseen step changes nothing.
LEMMA StutterIsAtomic ==
    ASSUME AtomInv, UNCHANGED vars
    PROVE  AtomInv' /\ AtomicStep
  <1> USE DEF vars, disk, keyring, process, environment
  <1>1. Known'
    BY DEF AtomInv, Known, TriedInv, Open, Working, Resting, Steps
  <1>2. OneToUndo' /\ RecordFits'
    BY DEF AtomInv, LoginFits, OneToUndo, RecordFits, StagesOf, MustUndo, Working, Resting, Steps
  <1>3. StoresFit' /\ SlotFits'
    BY DEF AtomInv, LoginFits, StoresFit, SlotFits, MustUndo, Account
  <1>4. HeldFits' /\ GivenBackFits'
    BY DEF AtomInv, LoginFits, HeldFits, GivenBackFits, SessionIsBack, StoreIsBack, Staged, Account
  <1>5. UNCHANGED Atomic!vars
    BY DEF Atomic!vars, Making, Revocable, RestorableWithout, Undoable, MustUndo
  <1> QED BY <1>1, <1>2, <1>3, <1>4, <1>5 DEF AtomInv, LoginFits, AtomicStep

\* Where signing in starts, nobody is attempted and what is saved is restored.
LEMMA InitIsAtomic == Init => Atomic!Init
  <1> SUFFICES ASSUME Init PROVE Atomic!Init
    OBVIOUS
  <1>1. PICK l \in Logins \cup {Nobody}, stale \in {Nobody, Corrupt} :
           /\ journal = [k \in Logins |-> NoRecord]
           /\ target = [a \in Accounts |-> IF l # Nobody /\ a = AccountOf[l] THEN l ELSE Nothing]
           /\ storeKey = [a \in Accounts |-> IF l # Nobody /\ a = AccountOf[l] THEN l ELSE Nobody]
           /\ session = l /\ pc = "off" /\ mode = "none"
           /\ tried = IF l = Nobody THEN {} ELSE {l}
    BY DEF Init
  <1>2. \A k \in Logins : ~MustUndo(k)
    BY <1>1 DEF NoRecord, MustUndo, UndoStages
  <1>3. AsItIs = l
    BY <1>1, ConstantsAssumption DEF AsItIs, Restored3
  <1>4. SavedLogin = l
    <2>1. Undoable = {}
      BY <1>2 DEF Undoable
    <2>2. TypeInv
      BY TypeInit
    <2> QED BY <1>3, <2>1, <2>2, RestorableValue DEF SavedLogin
  <1>5. Attempt = Nobody /\ Fallback = Final /\ ~Leaving
    BY <1>1 DEF Attempt, Fallback, Leaving, Making, Revocable
  <1> QED BY <1>1, <1>4, <1>5 DEF Atomic!Init, Attempt, SavedLogin, Fallback, Leaving

\* Signing in is one step, whatever fails and wherever the process dies: every
\* step of the transaction is one of AtomicLogin or changes nothing that it
\* promises, for any number of logins, accounts, failures and crashes.
THEOREM SigningInIsAtomic == Plain => (Spec => LoginIsAtomic)
  <1> SUFFICES ASSUME Plain PROVE Spec => LoginIsAtomic
    OBVIOUS
  <1>1. Init => TypeInv /\ AtomInv /\ Atomic!Init
    BY TypeInit, AtomInit, InitIsAtomic
  <1>2. TypeInv /\ AtomInv /\ [Next]_vars => TypeInv' /\ AtomInv' /\ [Atomic!Next]_(Atomic!vars)
    <2> SUFFICES ASSUME TypeInv, AtomInv, [Next]_vars
                 PROVE  TypeInv' /\ AtomInv' /\ [Atomic!Next]_(Atomic!vars)
      OBVIOUS
    <2>1. TypeInv' /\ Known'
      BY TypeNext, KnownNext DEF AtomInv
    <2>2. CASE Next
      BY <2>1, <2>2, StepIsAtomic DEF AtomicStep
    <2>3. CASE UNCHANGED vars
      BY <2>1, <2>3, StutterIsAtomic DEF AtomicStep
    <2> QED BY <2>2, <2>3
  <1> QED BY <1>1, <1>2, PTL DEF Spec, LoginIsAtomic, Atomic!Spec
=============================================================================
