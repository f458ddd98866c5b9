--------------------------- MODULE UploadLifecycle ---------------------------
(***************************************************************************)
(* What the pipeline promises about uploads, without queues, workers or    *)
(* messages.  An accepted upload may fail and be tried again; once it is   *)
(* reported as completed it stays so, with a scan that was saved for this  *)
(* very upload.  A scan belongs to one upload for good, is saved for       *)
(* accepted uploads only, and once removed does not come back.             *)
(***************************************************************************)
CONSTANTS Capture, ScanId, NoScan

VARIABLES
    state,    \* capture -> "none", "accepted", "failed" or "completed"
    scan,     \* capture -> the scan it was reported with
    owner,    \* scan ever saved -> its capture
    present   \* scans that can be looked at

vars == <<state, scan, owner, present>>

Init ==
    /\ state = [c \in Capture |-> "none"]
    /\ scan = [c \in Capture |-> NoScan]
    /\ owner = [s \in {} |-> NoScan]
    /\ present = {}

Accept(c) ==
    /\ state[c] = "none"
    /\ state' = [state EXCEPT ![c] = "accepted"]
    /\ UNCHANGED <<scan, owner, present>>

Save(c, s) ==
    /\ state[c] # "none"
    /\ s \notin DOMAIN owner
    /\ owner' = [t \in DOMAIN owner \cup {s} |-> IF t = s THEN c ELSE owner[t]]
    /\ present' = present \cup {s}
    /\ UNCHANGED <<state, scan>>

\* A run may complete although another run of the same upload failed.
Complete(c, s) ==
    /\ state[c] \in {"accepted", "failed"}
    /\ s \in DOMAIN owner
    /\ owner[s] = c
    /\ state' = [state EXCEPT ![c] = "completed"]
    /\ scan' = [scan EXCEPT ![c] = s]
    /\ UNCHANGED <<owner, present>>

Fail(c) ==
    /\ state[c] = "accepted"
    /\ state' = [state EXCEPT ![c] = "failed"]
    /\ UNCHANGED <<scan, owner, present>>

Retry(c) ==
    /\ state[c] = "failed"
    /\ state' = [state EXCEPT ![c] = "accepted"]
    /\ UNCHANGED <<scan, owner, present>>

Remove(s) ==
    /\ s \in present
    /\ present' = present \ {s}
    /\ UNCHANGED <<state, scan, owner>>

Next ==
    \/ \E c \in Capture : Accept(c) \/ Fail(c) \/ Retry(c)
    \/ \E c \in Capture, s \in ScanId : Save(c, s) \/ Complete(c, s)
    \/ \E s \in ScanId : Remove(s)

Spec == Init /\ [][Next]_vars
=============================================================================
