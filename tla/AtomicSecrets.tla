---------------------------- MODULE AtomicSecrets ----------------------------
(***************************************************************************)
(* What auth.Store promises: secrets.json is a register.  Update, Save and *)
(* Clear each change it in one step, an Update from the value it finds;    *)
(* a crash of the machine brings back the current value or one that was    *)
(* replaced and not yet settled by an fsync of the directory.              *)
(***************************************************************************)
CONSTANTS
    Threads,   \* callers; a value is the set of callers whose field it holds
    Absent     \* the value of a register that does not exist

VARIABLES
    value,      \* the register
    fallback    \* what a crash may leave

vars == <<value, fallback>>

Init == value = Absent /\ fallback = {Absent}

Fields(v) == IF v = Absent THEN {} ELSE v

Set(v) == value' = v /\ fallback' = fallback \cup {v}

Settle == fallback' = {value} /\ UNCHANGED value

Crash == value' \in fallback /\ fallback' = {value'}

Next ==
    \/ \E t \in Threads : \/ Set(Fields(value) \cup {t})   \* Update
                          \/ Set({t})                      \* Save
    \/ Set(Absent)                                         \* Clear
    \/ Settle
    \/ Crash

Spec == Init /\ [][Next]_vars

=============================================================================
