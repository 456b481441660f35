---------------------------- MODULE AtomicDeploy ----------------------------
(***************************************************************************)
(* What a deploy promises to the rest of the system: one attempt at a time *)
(* is under way; what is on disk and what the service has loaded change    *)
(* together, to the content of the attempt, when it succeeds, and stay     *)
(* both as they are when it fails.                                         *)
(***************************************************************************)
CONSTANT NoAttempt

VARIABLES disk, loaded,   \* what the service would load, what it has loaded
          attempt         \* the content being deployed, or NoAttempt

Begin(content) ==
    /\ attempt = NoAttempt /\ content # NoAttempt
    /\ attempt' = content
    /\ UNCHANGED <<disk, loaded>>

Commit ==
    /\ attempt # NoAttempt
    /\ disk' = attempt /\ loaded' = attempt
    /\ attempt' = NoAttempt

Abort ==
    /\ attempt # NoAttempt
    /\ attempt' = NoAttempt
    /\ UNCHANGED <<disk, loaded>>

AtomicInit == attempt = NoAttempt /\ disk = loaded

AtomicNext == Begin(attempt') \/ Commit \/ Abort

AtomicSpec == AtomicInit /\ [][AtomicNext]_<<disk, loaded, attempt>>
=============================================================================
