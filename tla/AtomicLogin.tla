----------------------------- MODULE AtomicLogin -----------------------------
(* What the login transaction promises: at every moment one login, or none,   *)
(* is the one the next start can restore. A sign-in makes the new login that  *)
(* one in a single step, or leaves the old one as it was; until the process   *)
(* that signed in takes it, it may still give the old one back.               *)
CONSTANTS Logins, Nobody, Final

VARIABLES
    tried,     \* logins ever attempted
    attempt,   \* the one being made now
    saved,     \* the one the next start restores
    fallback,  \* what undoing the attempt would give back, or Final
    leaving    \* the user asked to sign out

vars == <<tried, attempt, saved, fallback, leaving>>

Init ==
    /\ saved \in Logins \cup {Nobody}
    /\ tried = IF saved = Nobody THEN {} ELSE {saved}
    /\ attempt = Nobody /\ fallback = Final /\ leaving = FALSE

Begin(l) ==
    /\ attempt = Nobody /\ l \notin tried /\ ~leaving
    /\ attempt' = l /\ tried' = tried \cup {l}
    /\ UNCHANGED <<saved, fallback, leaving>>

\* The one step that replaces the saved login.
Establish ==
    /\ attempt # Nobody /\ fallback = Final
    /\ saved' = attempt /\ fallback' = saved
    /\ UNCHANGED <<tried, attempt, leaving>>

Confirm ==
    /\ fallback # Final
    /\ fallback' = Final /\ attempt' = Nobody
    /\ UNCHANGED <<tried, saved, leaving>>

Undo ==
    /\ fallback # Final
    /\ saved' = fallback /\ fallback' = Final /\ attempt' = Nobody
    /\ UNCHANGED <<tried, leaving>>

GiveUp ==
    /\ attempt # Nobody /\ fallback = Final
    /\ attempt' = Nobody
    /\ UNCHANGED <<tried, saved, fallback, leaving>>

Leave ==
    /\ attempt = Nobody /\ leaving' = ~leaving
    /\ UNCHANGED <<tried, attempt, saved, fallback>>

\* Only a user who asked for it loses the saved login.
SignOut ==
    /\ leaving /\ saved' = Nobody /\ leaving' \in BOOLEAN
    /\ UNCHANGED <<tried, attempt, fallback>>

Next == \/ \E l \in Logins : Begin(l)
        \/ Establish \/ Confirm \/ Undo \/ GiveUp \/ Leave \/ SignOut

Spec == Init /\ [][Next]_vars
=============================================================================
