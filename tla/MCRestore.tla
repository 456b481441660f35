------------------------------ MODULE MCRestore ------------------------------
(***************************************************************************)
(* An instance for TLC of the parts that bring files and rows in and out:  *)
(* the restore, the making and pruning of backups, uploads, and the import *)
(* of another product's configuration.  As in MCCoordinator each behaviour *)
(* runs one of them, chosen at the start, while the others rest.           *)
(***************************************************************************)
EXTENDS Restore, Backups, Uploads, Import

VARIABLE focus  \* the component this behaviour runs

mcVars == <<vars, backupsVars, uploadsVars, importVars, focus>>

MCInit ==
  /\ Init /\ BackupsInit /\ UploadsInit /\ ImportInit
  /\ focus \in {"restore", "backups", "uploads", "import"}

MCNext ==
  /\ UNCHANGED focus
  /\ \/ focus = "restore" /\ Next /\ UNCHANGED <<backupsVars, uploadsVars, importVars>>
     \/ focus = "backups" /\ BackupsNext /\ UNCHANGED <<vars, uploadsVars, importVars>>
     \/ focus = "uploads" /\ UploadsNext /\ UNCHANGED <<vars, backupsVars, importVars>>
     \/ focus = "import" /\ ImportNext /\ UNCHANGED <<vars, backupsVars, uploadsVars>>
     \* All but the restore stop at their bounds.
     \/ focus # "restore" /\ UNCHANGED <<vars, backupsVars, uploadsVars, importVars>>

\* The fairness of FairSpec, for the restore.
MCSpec ==
  /\ MCInit /\ [][MCNext]_mcVars
  /\ WF_vars(focus = "restore" /\ (Work \/ FailsBefore \/ FailsAfter))
  /\ WF_vars(focus = "restore" /\ Reap)
=============================================================================
