----------------------------- MODULE CoverUploads -----------------------------
(***************************************************************************)
(* CoverFiles with a memory of what the upload endpoint has returned.  The *)
(* form that uploads a cover keeps the returned URL and sends it with the  *)
(* book when the user saves; until then nothing in the database names the  *)
(* file, and only the grace period of the cleaner protects it.             *)
(***************************************************************************)
EXTENDS CoverFiles

VARIABLE uploaded       \* history: what an upload found; "no" after its hour or save

uploadVars == <<vars, uploaded>>

\* upload_cover returns f: it starts an hour in which f is to be spared.
UploadCover(f) ==
    /\ Upload(f)
    /\ uploaded' = [uploaded EXCEPT ![f] =
                      IF file[f] = "absent" THEN "written" ELSE "found"]

\* The hour of an upload that found its file, which may be older, is over.
HourOver(f) ==
    /\ uploaded[f] = "found"
    /\ uploaded' = [uploaded EXCEPT ![f] = "no"]
    /\ UNCHANGED vars

\* Any other step.  A file that a book comes to show is saved, and the hour of
\* an upload that wrote its file ends with the file's own.
OtherStep ==
    /\ Next
    /\ uploaded' = [f \in Files |->
          IF \/ f \in Shown'
             \/ uploaded[f] = "written" /\ file[f] = "fresh" /\ file'[f] = "old"
          THEN "no" ELSE uploaded[f]]

UploadNext ==
    \/ \E f \in Files : UploadCover(f) \/ HourOver(f)
    \/ OtherStep

UploadSpec == Init /\ uploaded = [f \in Files |-> "no"] /\ [][UploadNext]_uploadVars

-----------------------------------------------------------------------------

\* What docs/guide/using-librislog/administration.md promises: within the grace
\* period the cleaner spares the file an upload has returned.
UploadsAreSpared ==
    [][\A f \in Files :
         uploaded[f] # "no" /\ CleanFile(f) => file'[f] = file[f]]_uploadVars
=============================================================================
