------------------------------ MODULE Uploads -------------------------------
(***************************************************************************)
(* A file is put into the object store and then named by a row:            *)
(* FileService (src/app/services/files.py) over src/app/repositories/      *)
(* files.py, and UserProfileService (src/app/services/users.py) over       *)
(* update_profile of src/app/repositories/users.py for avatars.  Object    *)
(* keys are fresh, so that an object is known by its upload.  The content  *)
(* checks that come first are left out.                                    *)
(***************************************************************************)
EXTENDS Nothing, Naturals, FiniteSets

CONSTANTS
  FileUploads,    \* uploads of files
  AvatarUploads   \* new avatars of one user

ASSUME UploadConstantsOK ==
  FileUploads \cap AvatarUploads = {} /\ None \notin FileUploads \cup AvatarUploads

VARIABLES
  objects,   \* the objects in the store
  late,      \* puts the client gave up and the store may still complete
  files,     \* file_uploads
  avatar,    \* image_url of the user
  upload     \* where each upload stands

uploads == <<objects, late, files, avatar, upload>>
UploadIds == FileUploads \cup AvatarUploads

UploadsInit ==
  /\ objects = {} /\ late = {} /\ files = {} /\ avatar = None
  /\ upload = [u \in UploadIds |-> "new"]

UploadTo(u, pc) == upload' = [upload EXCEPT ![u] = pc]

\* The store confirms the object.
PutObject(u) ==
  /\ upload[u] = "new" /\ UploadTo(u, "write")
  /\ objects' = objects \cup {u}
  /\ UNCHANGED <<late, files, avatar>>

\* It does not, and has the object, will have it, or will not.  Of a file the object is deleted;
\* of an avatar nothing more is done.
FailPut(u) ==
  /\ upload[u] = "new" /\ UploadTo(u, IF u \in FileUploads THEN "delete" ELSE "failed")
  /\ \/ UNCHANGED <<objects, late>>
     \/ objects' = objects \cup {u} /\ UNCHANGED late
     \/ late' = late \cup {u} /\ UNCHANGED objects
  /\ UNCHANGED <<files, avatar>>

LatePut(u) ==
  /\ u \in late /\ late' = late \ {u}
  /\ objects' = objects \cup {u}
  /\ UNCHANGED <<files, avatar, upload>>

\* What the statement changes when it is committed.
Written(u) ==
  IF u \in FileUploads THEN files' = files \cup {u} /\ UNCHANGED avatar
  ELSE avatar' = u /\ UNCHANGED files

WriteRow(u) ==
  /\ upload[u] = "write" /\ UploadTo(u, "done")
  /\ Written(u)
  /\ UNCHANGED <<objects, late>>

LoseAndDelete(u, kept) ==
  /\ upload[u] = "write" /\ UploadTo(u, "delete")
  /\ IF kept THEN Written(u) ELSE UNCHANGED <<files, avatar>>
  /\ UNCHANGED <<objects, late>>

\* The connection to PostgreSQL fails, and nobody knows whether the statement was committed: the
\* object of a file is kept, that of an avatar deleted.
LoseRow(u, kept) ==
  /\ upload[u] = "write" /\ UploadTo(u, IF u \in FileUploads THEN "failed" ELSE "delete")
  /\ IF kept THEN Written(u) ELSE UNCHANGED <<files, avatar>>
  /\ UNCHANGED <<objects, late>>

\* Any other error, or there is no such user.
RefuseRow(u) ==
  /\ upload[u] = "write" /\ UploadTo(u, "delete")
  /\ UNCHANGED <<objects, late, files, avatar>>

\* The store deletes the object, or fails to, which is only logged.
DeleteObject(u) ==
  /\ upload[u] = "delete" /\ UploadTo(u, "failed")
  /\ objects' = objects \ {u} \/ UNCHANGED objects
  /\ UNCHANGED <<late, files, avatar>>

\* The process stops, or an avatar's request is cancelled while its put or its statement is under way.
StopUpload(u, kept) ==
  /\ upload[u] \notin {"done", "failed"} /\ UploadTo(u, "failed")
  /\ \/ upload[u] = "new" /\ late' = late \cup {u} /\ UNCHANGED <<files, avatar>>
     \/ upload[u] # "new" /\ UNCHANGED <<files, avatar, late>>
     \/ upload[u] = "write" /\ kept /\ Written(u) /\ UNCHANGED late
  /\ UNCHANGED objects

UploadsNext ==
  \E u \in UploadIds :
    \/ PutObject(u) \/ FailPut(u) \/ LatePut(u) \/ WriteRow(u) \/ RefuseRow(u) \/ DeleteObject(u)
    \/ \E kept \in BOOLEAN : StopUpload(u, kept) \/ LoseRow(u, kept)

UploadsSpec == UploadsInit /\ [][UploadsNext]_uploads

-----------------------------------------------------------------------------
(* Properties. *)

\* Whatever a file's row names is there, also after a commit whose answer was lost (files.py:150).
FilesExist == files \subseteq objects

\* So is the user's avatar, unless its own request was answered with an error: its UPDATE may have
\* been committed although the answer was lost, and the object is deleted then (users.py:200).
AvatarExists == avatar # None => avatar \in objects \/ upload[avatar] = "failed"

=============================================================================
