------------------------------ MODULE AuditLog ------------------------------
(***************************************************************************)
(* What the audit log promises, without connections, locks, ids or hashes: *)
(* one list of entries that is only ever appended to, one entry at a time, *)
(* until somebody touches the entries behind its back.  Of a list that was *)
(* touched this says nothing (verify_audit_chain does).                    *)
(***************************************************************************)
EXTENDS Sequences

CONSTANT Body

VARIABLES
    entries, \* the contents written, in order; empty once touched
    intact   \* nobody has touched them

vars == <<entries, intact>>

Init ==
    /\ entries = <<>>
    /\ intact = TRUE

Write(b) ==
    /\ intact
    /\ entries' = Append(entries, b)
    /\ UNCHANGED intact

Touch ==
    /\ intact
    /\ entries' = <<>>
    /\ intact' = FALSE

Next == Touch \/ \E b \in Body : Write(b)

Spec == Init /\ [][Next]_vars
=============================================================================
