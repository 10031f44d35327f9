---------------------------- MODULE LoginAtomicity ----------------------------
(* The login transaction implements AtomicLogin: the journal, the directories *)
(* and the keyring are mapped to the login the next start would restore once  *)
(* it has resolved the journals it finds.                                     *)
EXTENDS LoginTransaction

CONSTANT Final
ASSUME FinalAssumption == Final \notin Logins /\ Final # Nobody

\* The login whose session, key and store would be in place if exactly the
\* logins of "undone" were rolled back now and every other left as it is.
RestorableWithout(undone) ==
    LET holders == {l \in undone : superseded.txn = l}
        asession == IF holders = {} THEN session ELSE superseded.was.session
        key(a) == IF \E l \in holders : AccountOf[l] = a THEN superseded.was.key ELSE storeKey[a]
        store(a) == IF \E l \in undone : AccountOf[l] = a /\ aside[l] # Nothing
                      THEN aside[CHOOSE l \in undone : AccountOf[l] = a /\ aside[l] # Nothing]
                    ELSE IF \E l \in undone : AccountOf[l] = a /\ journal[l].stage \in OursStages
                      THEN Nothing
                    ELSE target[a]
    IN IF /\ asession # Nobody
          /\ key(AccountOf[asession]) = asession
          /\ store(AccountOf[asession]) = asession
       THEN asession ELSE Nobody

Undoable == {l \in Logins : MustUndo(l)}

\* A login is being made from its first step to the one that gives it up.
Making == pc \in {"open", "holdAside", "advanceHeldAside", "install", "advanceInstalled",
                  "openSession", "readDisplaced", "stageDisplaced", "markStaged",
                  "saveKey", "saveSession", "advanceWritten"}
\* It is written down but this process may still undo it.
Revocable == /\ pc \in {"await", "rollingBack"}
             /\ journal[txn].stage = "CredentialsWritten"

Atomic == INSTANCE AtomicLogin WITH
    attempt <- IF Making \/ Revocable THEN txn ELSE Nobody,
    saved <- RestorableWithout(Undoable),
    fallback <- IF Revocable THEN RestorableWithout(Undoable \cup {txn}) ELSE Final,
    leaving <- mode = "erase"

\* Signing in is one step, from the journal's point of view: whatever fails and
\* wherever the process dies, the next start restores the old login or the new
\* one, and never the old one again once the new one was taken.
LoginIsAtomic == Atomic!Spec
=============================================================================
