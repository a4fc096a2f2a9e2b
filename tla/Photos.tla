------------------------------- MODULE Photos -------------------------------
(***************************************************************************)
(* Files on the server's disk and the rows that name them: the photos of   *)
(* a user (user-photo.service.ts) and the one profile picture              *)
(* (profile-picture.service.ts).                                           *)
(*                                                                         *)
(* Disk and database share no transaction.  Every `unlink', `writeFile'    *)
(* and query is a step, and a handler that fails between two of them       *)
(* leaves what it has done.  The history variable `abandoned' collects     *)
(* the files that something else than the normal course of one handler     *)
(* left alone; the properties compare disk and rows up to these.           *)
(***************************************************************************)
EXTENDS Integers, FiniteSets

CONSTANTS
  Users,         \* rows of table users; the row stays when the account is deleted
  Photos,        \* rows of table user_photos that may ever be created
  Files,         \* names of files; a name has a fresh random UUID in it
  Descriptions,  \* descriptions of photos
  Requests,      \* handlers the server may be executing
  None,          \* no row, no file
  MaxInFlight    \* bound: handlers between their first and their last step

ASSUME PhotosAssumption ==
  /\ None \notin Users \cup Photos \cup Files \cup Descriptions
  /\ MaxInFlight \in Nat \ {0}

VARIABLES
  files,      \* the two upload directories
  photos,     \* table user_photos
  pictures,   \* users.profile_picture_url
  inflight,   \* what each handler holds in its local variables
  abandoned   \* history: files somebody was to remove or to record, and nobody will

vars == <<files, photos, pictures, inflight, abandoned>>

PhotoRow == [status : {"unborn", "live", "deleted"}, user : Users \cup {None},
             file : Files \cup {None}, description : Descriptions \cup {None}]

NoPhoto == [status |-> "unborn", user |-> None, file |-> None, description |-> None]

\* The next step of a handler: still to remove a file, or past that, while the row
\* names the file.
Unlinking == {"unlinkReplaced", "unlinkPicture", "unlinkPhoto"}
PastUnlinking == {"writePicture", "setPicture", "clearPicture", "deletePhoto"}
Writing == {"writePhoto", "writePicture"}
Ops == Unlinking \cup PastUnlinking \cup Writing \cup {"createPhoto", "editPhoto"}

\* `old' is the file that the handler removes, `new' the one that it has written.
Request == [op : Ops \cup {"idle"}, user : Users \cup {None}, photo : Photos \cup {None},
            description : Descriptions \cup {None},
            old : Files \cup {None}, new : Files \cup {None}]

Idle == [op |-> "idle", user |-> None, photo |-> None, description |-> None,
         old |-> None, new |-> None]

\* Shape of the disk, the rows and the handlers' locals.
PhotosTypeOK ==
  /\ files \in [Files -> {"unnamed", "stored", "gone"}]
  /\ photos \in [Photos -> PhotoRow]
  /\ pictures \in [Users -> Files \cup {None}]
  /\ inflight \in [Requests -> Request]
  /\ abandoned \subseteq Files

Init ==
  /\ files = [f \in Files |-> "unnamed"]
  /\ photos = [p \in Photos |-> NoPhoto]
  /\ pictures = [u \in Users |-> None]
  /\ inflight = [r \in Requests |-> Idle]
  /\ abandoned = {}

-----------------------------------------------------------------------------
Load == Cardinality({r \in Requests : inflight[r] # Idle})

\* A handler's first read.
Begin(r, q) ==
  /\ inflight[r] = Idle
  /\ Load < MaxInFlight
  /\ inflight' = [inflight EXCEPT ![r] = q]
  /\ UNCHANGED <<files, photos, pictures, abandoned>>

Finish(r) == inflight' = [inflight EXCEPT ![r] = Idle]

Abandon(F) == abandoned' = abandoned \cup (F \ {None})

\* What a handler that ends now has removed without clearing the row, and has
\* written without recording it.
LeftBehind(r) ==
  {inflight[r].new} \cup (IF inflight[r].op \in PastUnlinking THEN {inflight[r].old} ELSE {})

\* An error of the database or of writeFile, a row that is gone, a crash.
\* (A file that was written in part is one that was written, then this.)
Abort(r) ==
  /\ inflight[r] # Idle
  /\ Abandon(LeftBehind(r))
  /\ Finish(r)
  /\ UNCHANGED <<files, photos, pictures>>

-----------------------------------------------------------------------------
(***************************************************************************)
(* The disk.                                                               *)
(***************************************************************************)
\* unlink; its errors are caught and logged, and the handler goes on.
Unlink(r, from, to) ==
  /\ inflight[r].op = from
  /\ \/ /\ files' = [files EXCEPT ![inflight[r].old] = "gone"]
        /\ UNCHANGED abandoned
     \/ /\ files[inflight[r].old] = "stored"
        /\ Abandon({inflight[r].old})
        /\ UNCHANGED files
  /\ inflight' = [inflight EXCEPT ![r].op = to]
  /\ UNCHANGED <<photos, pictures>>

\* Slip: the name is made of the user's id alone, or of the time.
WriteAnyName(r, from, to) ==
  /\ inflight[r].op = from
  /\ \E f \in Files :
       /\ files' = [files EXCEPT ![f] = "stored"]
       /\ inflight' = [inflight EXCEPT ![r].op = to, ![r].new = f]
  /\ UNCHANGED <<photos, pictures, abandoned>>

WriteFile(r, from, to) ==
  /\ inflight[r].op = from
  /\ \E f \in Files :
       /\ files[f] = "unnamed"
       /\ files' = [files EXCEPT ![f] = "stored"]
       /\ inflight' = [inflight EXCEPT ![r].op = to, ![r].new = f]
  /\ UNCHANGED <<photos, pictures, abandoned>>

-----------------------------------------------------------------------------
(***************************************************************************)
(* Photos of a user.  The checks of type, size and description answer      *)
(* before anything is written.                                             *)
(***************************************************************************)
AddPhotoRead(r, u, d) ==
  Begin(r, [Idle EXCEPT !.op = "writePhoto", !.user = u, !.description = d])

WritePhoto(r) == WriteFile(r, "writePhoto", "createPhoto")

CreatePhoto(r) ==
  /\ inflight[r].op = "createPhoto"
  /\ \E p \in Photos :
       /\ photos[p].status = "unborn"
       /\ photos' = [photos EXCEPT ![p] =
            [status |-> "live", user |-> inflight[r].user, file |-> inflight[r].new,
             description |-> inflight[r].description]]
  /\ Finish(r)
  /\ UNCHANGED <<files, pictures, abandoned>>

OwnPhoto(u, p) == photos[p].status = "live" /\ photos[p].user = u

EditPhotoRead(r, u, p, d) ==
  /\ OwnPhoto(u, p)
  /\ Begin(r, [Idle EXCEPT !.op = "editPhoto", !.user = u, !.photo = p, !.description = d])

\* `update' and `delete' throw when the row is not there.
EditPhotoCommit(r) ==
  /\ inflight[r].op = "editPhoto"
  /\ photos[inflight[r].photo].status = "live"
  /\ photos' = [photos EXCEPT ![inflight[r].photo].description = inflight[r].description]
  /\ Finish(r)
  /\ UNCHANGED <<files, pictures, abandoned>>

\* Slip: the file is not removed.
DeletePhotoKeepFile(r, u, p) ==
  /\ OwnPhoto(u, p)
  /\ Begin(r, [Idle EXCEPT !.op = "deletePhoto", !.user = u, !.photo = p,
                           !.old = photos[p].file])

DeletePhotoRead(r, u, p) ==
  /\ OwnPhoto(u, p)
  /\ Begin(r, [Idle EXCEPT !.op = "unlinkPhoto", !.user = u, !.photo = p,
                           !.old = photos[p].file])

UnlinkPhoto(r) == Unlink(r, "unlinkPhoto", "deletePhoto")

DeletePhotoCommit(r) ==
  /\ inflight[r].op = "deletePhoto"
  /\ photos[inflight[r].photo].status = "live"
  /\ photos' = [photos EXCEPT ![inflight[r].photo].status = "deleted"]
  /\ Finish(r)
  /\ UNCHANGED <<files, pictures, abandoned>>

-----------------------------------------------------------------------------
(***************************************************************************)
(* The profile picture.  A new one is written after the old one is gone.   *)
(***************************************************************************)
UploadPictureRead(r, u) ==
  Begin(r, [Idle EXCEPT !.op = IF pictures[u] = None THEN "writePicture" ELSE "unlinkReplaced",
                        !.user = u, !.old = pictures[u]])

UnlinkReplaced(r) == Unlink(r, "unlinkReplaced", "writePicture")

WritePicture(r) == WriteFile(r, "writePicture", "setPicture")

DeletePictureRead(r, u) ==
  /\ pictures[u] # None
  /\ Begin(r, [Idle EXCEPT !.op = "unlinkPicture", !.user = u, !.old = pictures[u]])

UnlinkPicture(r) == Unlink(r, "unlinkPicture", "clearPicture")

\* The update is by id alone: if the URL is no longer the one that was read, the file
\* it names now is forgotten.
SetUrl(r, from, url) ==
  LET u == inflight[r].user IN
  /\ inflight[r].op = from
  /\ pictures' = [pictures EXCEPT ![u] = url]
  /\ Abandon({pictures[u]} \ {inflight[r].old})
  /\ Finish(r)
  /\ UNCHANGED <<files, photos>>

SetPicture(r) == SetUrl(r, "setPicture", inflight[r].new)

\* Slip: the URL becomes an empty string.
ClearPictureEmpty(r) == SetUrl(r, "clearPicture", "")

ClearPicture(r) == SetUrl(r, "clearPicture", None)

\* deleteUser and deleteAdmin clear the URL and leave the file.
DeleteAccount(u) ==
  /\ Load < MaxInFlight
  /\ pictures' = [pictures EXCEPT ![u] = None]
  /\ Abandon({pictures[u]})
  /\ UNCHANGED <<files, photos, inflight>>

-----------------------------------------------------------------------------
PhotoStep(r) ==
  \/ \E u \in Users, d \in Descriptions : AddPhotoRead(r, u, d)
  \/ WritePhoto(r)
  \/ CreatePhoto(r)
  \/ \E u \in Users, p \in Photos, d \in Descriptions : EditPhotoRead(r, u, p, d)
  \/ EditPhotoCommit(r)
  \/ \E u \in Users, p \in Photos : DeletePhotoRead(r, u, p)
  \/ UnlinkPhoto(r)
  \/ DeletePhotoCommit(r)

PictureStep(r) ==
  \/ \E u \in Users : UploadPictureRead(r, u)
  \/ UnlinkReplaced(r)
  \/ WritePicture(r)
  \/ SetPicture(r)
  \/ \E u \in Users : DeletePictureRead(r, u)
  \/ UnlinkPicture(r)
  \/ ClearPicture(r)

Next ==
  \/ \E r \in Requests : PhotoStep(r) \/ PictureStep(r) \/ Abort(r)
  \/ \E u \in Users : DeleteAccount(u)

Spec == Init /\ [][Next]_vars

-----------------------------------------------------------------------------
Named(f) == \/ \E p \in Photos : photos[p].status = "live" /\ photos[p].file = f
            \/ \E u \in Users : pictures[u] = f

\* No user sees a broken picture for good: where a row names a file that is not on the
\* disk, some handler that removed the file is about to change the row, or was cut
\* short before it could.  However uploads, replacements and deletions race, none
\* removes a file that another one has just recorded.  (addPhoto, deletePhoto,
\* uploadProfilePicture, deleteProfilePicture.)
NoBrokenLinks ==
  \A f \in Files :
    Named(f) /\ files[f] # "stored" =>
      \/ f \in abandoned
      \/ \E r \in Requests : inflight[r].op \in PastUnlinking /\ inflight[r].old = f

\* A file that no row names will be recorded by the handler that wrote it, or was left
\* by a handler cut short, by an unlink that failed, by the deletion of the account, or
\* under a URL that another handler overwrote.  Photos leak in no other way, pictures
\* by races only.
NoStrayFiles ==
  \A f \in Files :
    files[f] = "stored" /\ ~ Named(f) =>
      \/ f \in abandoned
      \/ \E r \in Requests : inflight[r].new = f
=============================================================================
