------------------------------- MODULE Uploads -------------------------------
(***************************************************************************)
(* Uploading a backup archive: backup_import_route of app/webapp.py with   *)
(* begin_streamed_upload, finalize_streamed_upload and                     *)
(* abort_streamed_upload of app/backup.py.  The route awaits every chunk,  *)
(* so uploads interleave.                                                  *)
(***************************************************************************)
EXTENDS Naturals

CONSTANTS Uploaders,
          UploadLimit,      \* max_upload_mib, in chunks
          MaxUploadSeconds  \* final names carry the second

ASSUME UploadsAssumption == {UploadLimit, MaxUploadSeconds} \subseteq Nat \ {0}

VARIABLES upload,   \* per upload: where it is, the chunks in its own temporary file
          imports,  \* per second: what is under the final name
          uploadSecond

uploadsVars == <<upload, imports, uploadSecond>>

NoFile == [by |-> {}, chunks |-> 0]

UploadsInit ==
    /\ upload = [u \in Uploaders |-> [at |-> "new", chunks |-> 0]]
    /\ imports = [t \in 1..MaxUploadSeconds |-> NoFile]
    /\ uploadSecond = 1

\* The name, the announced length and the free space are checked first.
BeginStreamedUpload(u) ==
    /\ upload[u].at = "new"
    /\ \E fits \in BOOLEAN : upload' = [upload EXCEPT ![u].at = IF fits THEN "stream" ELSE "refused"]
    /\ UNCHANGED <<imports, uploadSecond>>

\* A chunk over the limit is not written; the last chunk is empty.
UploadChunk(u) ==
    /\ upload[u].at = "stream"
    /\ \/ upload' = IF upload[u].chunks < UploadLimit
                    THEN [upload EXCEPT ![u].chunks = @ + 1]
                    ELSE [upload EXCEPT ![u].at = "aborted"]
       \/ upload' = [upload EXCEPT ![u].at = IF upload[u].chunks = 0 THEN "aborted" ELSE "received"]
    /\ UNCHANGED <<imports, uploadSecond>>

\* Mistake: an upload is installed as soon as something was written.
FinalizeStreamedUpload_Early(u) ==
    /\ upload[u].at \in {"stream", "received"} /\ upload[u].chunks > 0
    /\ imports' = [imports EXCEPT ![uploadSecond] = [by |-> {u}, chunks |-> upload[u].chunks]]
    /\ upload' = [upload EXCEPT ![u].at = IF @ = "stream" THEN "stream" ELSE "done"]
    /\ UNCHANGED uploadSecond

\* os.replace, over an upload of the same name in the same second.
FinalizeStreamedUpload(u) ==
    /\ upload[u].at = "received"
    /\ imports' = [imports EXCEPT ![uploadSecond] = [by |-> {u}, chunks |-> upload[u].chunks]]
    /\ upload' = [upload EXCEPT ![u].at = "done"]
    /\ UNCHANGED uploadSecond

\* Out of space, disconnected, an error while writing.
AbortStreamedUpload(u) ==
    /\ upload[u].at \in {"stream", "received"}
    /\ upload' = [upload EXCEPT ![u].at = "aborted"]
    /\ UNCHANGED <<imports, uploadSecond>>

UploadSecondPasses ==
    /\ uploadSecond < MaxUploadSeconds
    /\ uploadSecond' = uploadSecond + 1
    /\ UNCHANGED <<upload, imports>>

UploadsNext ==
    \/ \E u \in Uploaders : \/ BeginStreamedUpload(u) \/ UploadChunk(u)
                             \/ FinalizeStreamedUpload(u) \/ AbortStreamedUpload(u)
    \/ UploadSecondPasses

UploadsSpec == UploadsInit /\ [][UploadsNext]_uploadsVars

----------------------------------------------------------------------------
(***************************************************************************)
(* finalize_streamed_upload is "called only after every chunk has been     *)
(* written and the size limit has been enforced": an archive offered for   *)
(* restore is the whole of one upload, whatever other uploads do meanwhile.*)
(***************************************************************************)
ImportedIsWhole ==
    \A t \in 1..MaxUploadSeconds : \A u \in imports[t].by :
        /\ upload[u].at = "done"
        /\ imports[t].chunks = upload[u].chunks
        /\ imports[t].chunks \in 1..UploadLimit
=============================================================================
