---------------------------- MODULE PhotosProofs ----------------------------
(***************************************************************************)
(* What Photos promises, for any users, photos, files and handlers.        *)
(*                                                                         *)
(* A file that is named once belongs to one place for good: to the handler *)
(* that wrote it, then to one row.  Whoever is to remove it has read it    *)
(* from that row, so removing it can break no other row.                   *)
(***************************************************************************)
EXTENDS Photos, TLAPS

\* A name that was not yet given to a file is nowhere.
Fresh ==
  \A f \in Files : files[f] = "unnamed" =>
    /\ \A p \in Photos : photos[p].file # f
    /\ \A u \in Users : pictures[u] # f
    /\ \A r \in Requests : inflight[r].old # f /\ inflight[r].new # f

\* Two rows never name one file.
OneOwner ==
  /\ \A p, v \in Photos : photos[p].file = photos[v].file /\ photos[p].file # None => p = v
  /\ \A u, v \in Users : pictures[u] = pictures[v] /\ pictures[u] # None => u = v
  /\ \A p \in Photos, u \in Users : photos[p].file = pictures[u] => pictures[u] = None

\* What a handler has written is on the disk, and nobody else knows of it.
Unrecorded(r) ==
  /\ inflight[r].new # None => inflight[r].op \in {"createPhoto", "setPicture"}
  /\ inflight[r].op \in {"createPhoto", "setPicture"} =>
       /\ files[inflight[r].new] = "stored" /\ inflight[r].new # None
       /\ \A p \in Photos : photos[p].file # inflight[r].new
       /\ \A u \in Users : pictures[u] # inflight[r].new
       /\ \A v \in Requests : inflight[v].old # inflight[r].new
       /\ \A v \in Requests : inflight[v].new = inflight[r].new => v = r

OnPhoto   == {"unlinkPhoto", "deletePhoto"}
OnPicture == {"unlinkReplaced", "writePicture", "setPicture", "unlinkPicture", "clearPicture"}

\* What a handler is to remove can be named by the row alone from which it was read.
Removable(r) ==
  /\ inflight[r].op \in Unlinking => inflight[r].old # None
  /\ inflight[r].old # None => inflight[r].op \in OnPhoto \cup OnPicture
  /\ inflight[r].op \in OnPhoto =>
       /\ inflight[r].photo # None
       /\ photos[inflight[r].photo].file = inflight[r].old
       /\ inflight[r].old # None
       /\ \A u \in Users : pictures[u] # inflight[r].old
  /\ inflight[r].op \in OnPicture =>
       /\ inflight[r].user # None
       /\ inflight[r].old # None =>
            /\ \A p \in Photos : photos[p].file # inflight[r].old
            /\ \A u \in Users : pictures[u] = inflight[r].old => u = inflight[r].user

\* Past unlink, the file is gone or unlink has failed.
Removed(r) ==
  inflight[r].op \in PastUnlinking /\ inflight[r].old # None =>
    files[inflight[r].old] = "gone" \/ inflight[r].old \in abandoned

\* A row that was created names a file.
RowsFilled == \A p \in Photos : photos[p].status = "unborn" <=> photos[p].file = None

IInv ==
  /\ PhotosTypeOK /\ RowsFilled /\ Fresh /\ OneOwner
  /\ \A r \in Requests : Unrecorded(r) /\ Removable(r) /\ Removed(r)
  /\ NoBrokenLinks /\ NoStrayFiles

\* What a step of one handler leaves of the others.
OthersKept(r) == \A v \in Requests : v # r => inflight'[v] = inflight[v]

-----------------------------------------------------------------------------
\* The disk is empty and nothing is recorded.
LEMMA InitIInv == Init => IInv
<1> SUFFICES ASSUME Init PROVE IInv
  OBVIOUS
<1>1. PhotosTypeOK
  BY DEF Init, PhotosTypeOK, PhotoRow, NoPhoto, Request, Idle
<1>2. \A r \in Requests : inflight[r].op = "idle" /\ inflight[r].old = None /\ inflight[r].new = None
  BY DEF Init, Idle
<1>3. /\ \A p \in Photos : photos[p].status = "unborn" /\ photos[p].file = None
      /\ \A u \in Users : pictures[u] = None
      /\ \A f \in Files : files[f] = "unnamed" /\ f # None
  BY PhotosAssumption DEF Init, NoPhoto
<1>4. RowsFilled /\ Fresh /\ OneOwner
  BY <1>2, <1>3 DEF RowsFilled, Fresh, OneOwner
<1>5. ASSUME NEW r \in Requests PROVE Unrecorded(r) /\ Removable(r) /\ Removed(r)
  BY <1>2 DEF Unrecorded, Removable, Removed, Unlinking, OnPhoto, OnPicture
<1>6. NoBrokenLinks /\ NoStrayFiles
  BY <1>3 DEF NoBrokenLinks, NoStrayFiles, Named
<1> QED BY <1>1, <1>4, <1>5, <1>6 DEF IInv

\* A URL that is empty names no file.
LEMMA NoneIsNoFile == None \notin Files
BY PhotosAssumption

-----------------------------------------------------------------------------
\* A handler that begins removes only what one row names, and has written nothing.
LEMMA BeginIInv ==
  ASSUME IInv, NEW r \in Requests, NEW q \in Request, Begin(r, q), q.new = None,
         q.op \notin {"createPhoto", "setPicture"},
         q.op \in Unlinking => q.old # None,
         q.old # None => q.op \in {"unlinkPhoto", "unlinkPicture", "unlinkReplaced"},
         q.op \in OnPhoto =>
           /\ q.op = "unlinkPhoto"
           /\ q.photo # None /\ photos[q.photo].status # "unborn"
           /\ q.old = photos[q.photo].file,
         q.op \in OnPicture => q.user # None /\ q.old = pictures[q.user]
  PROVE  IInv'
<1>1. /\ inflight[r] = Idle /\ inflight'[r] = q /\ OthersKept(r)
      /\ files' = files /\ photos' = photos /\ pictures' = pictures /\ abandoned' = abandoned
  BY DEF Begin, IInv, PhotosTypeOK, OthersKept
<1>2. PhotosTypeOK'
  BY DEF Begin, IInv, PhotosTypeOK
<1>3. RowsFilled' /\ OneOwner'
  BY <1>1 DEF IInv, RowsFilled, OneOwner
<1>4. q.old # None =>
        /\ q.old \in Files
        /\ \/ \E p \in Photos : q.old = photos[p].file
           \/ \E u \in Users : q.old = pictures[u]
  BY DEF IInv, PhotosTypeOK, Request, OnPhoto, OnPicture
<1>5. Fresh'
  BY <1>1, <1>4, NoneIsNoFile DEF IInv, Fresh, OthersKept
<1>6. ASSUME NEW v \in Requests PROVE Unrecorded(v)'
  <2>1. CASE v = r
    BY <2>1, <1>1 DEF Unrecorded
  <2>2. CASE v # r
    BY <2>2, <1>1, <1>4 DEF IInv, Unrecorded, OthersKept
  <2> QED BY <2>1, <2>2
<1>7. ASSUME NEW v \in Requests PROVE Removable(v)'
  <2>1. CASE v # r
    BY <2>1, <1>1 DEF IInv, Removable, OthersKept
  <2>2. CASE v = r /\ q.op \in OnPhoto
    BY <2>2, <1>1 DEF IInv, PhotosTypeOK, RowsFilled, OneOwner, Removable, OnPhoto, OnPicture, Request
  <2>3. CASE v = r /\ q.op \in OnPicture
    BY <2>3, <1>1 DEF IInv, OneOwner, Removable, OnPhoto, OnPicture, Request
  <2>4. CASE v = r /\ q.op \notin OnPhoto \cup OnPicture
    BY <2>4, <1>1 DEF Removable, OnPhoto, OnPicture
  <2> QED BY <2>1, <2>2, <2>3, <2>4
<1>8. ASSUME NEW v \in Requests PROVE Removed(v)'
  <2>1. CASE v # r
    BY <2>1, <1>1 DEF IInv, Removed, OthersKept
  <2>2. CASE v = r
    BY <2>2, <1>1 DEF Removed, PastUnlinking
  <2> QED BY <2>1, <2>2
<1>9. NoBrokenLinks'
  BY <1>1 DEF IInv, NoBrokenLinks, Named, OthersKept, Idle, PastUnlinking
<1>10. NoStrayFiles'
  BY <1>1, NoneIsNoFile DEF IInv, NoStrayFiles, Named, OthersKept, Idle
<1> QED BY <1>2, <1>3, <1>5, <1>6, <1>7, <1>8, <1>9, <1>10 DEF IInv

\* An upload and an edit of a photo begin with a lookup.
LEMMA PhotoReadsIInv ==
  ASSUME IInv, NEW r \in Requests, NEW u \in Users, NEW d \in Descriptions,
         AddPhotoRead(r, u, d) \/ \E p \in Photos : EditPhotoRead(r, u, p, d)
  PROVE  IInv'
<1>1. CASE AddPhotoRead(r, u, d)
  <2> DEFINE q == [Idle EXCEPT !.op = "writePhoto", !.user = u, !.description = d]
  <2>1. /\ q \in Request /\ q.new = None /\ q.old = None /\ q.op = "writePhoto"
    BY DEF Request, Idle, Ops, Writing
  <2>2. Begin(r, q)
    BY <1>1 DEF AddPhotoRead
  <2> HIDE DEF q
  <2> QED BY <2>1, <2>2, BeginIInv DEF Unlinking, OnPhoto, OnPicture
<1>2. ASSUME NEW p \in Photos, EditPhotoRead(r, u, p, d) PROVE IInv'
  <2> DEFINE q == [Idle EXCEPT !.op = "editPhoto", !.user = u, !.photo = p, !.description = d]
  <2>1. /\ q \in Request /\ q.new = None /\ q.old = None /\ q.op = "editPhoto"
    BY DEF Request, Idle, Ops
  <2>2. Begin(r, q)
    BY <1>2 DEF EditPhotoRead
  <2> HIDE DEF q
  <2> QED BY <2>1, <2>2, BeginIInv DEF Unlinking, OnPhoto, OnPicture
<1> QED BY <1>1, <1>2

\* A deletion knows the file of the row it found.
LEMMA DeletePhotoReadIInv ==
  ASSUME IInv, NEW r \in Requests, NEW u \in Users, NEW p \in Photos, DeletePhotoRead(r, u, p)
  PROVE  IInv'
<1> DEFINE q == [Idle EXCEPT !.op = "unlinkPhoto", !.user = u, !.photo = p, !.old = photos[p].file]
<1>1. photos[p].file \in Files /\ photos[p].file # None /\ photos[p].status = "live" /\ p # None
  BY PhotosAssumption DEF IInv, PhotosTypeOK, PhotoRow, RowsFilled, DeletePhotoRead, OwnPhoto
<1>2. /\ q \in Request /\ q.new = None /\ q.old = photos[p].file /\ q.op = "unlinkPhoto"
      /\ q.photo = p
  BY <1>1 DEF Request, Idle, Ops, Unlinking
<1>3. Begin(r, q)
  BY DEF DeletePhotoRead
<1> HIDE DEF q
<1> QED BY <1>1, <1>2, <1>3, BeginIInv DEF Unlinking, OnPhoto, OnPicture

\* Uploads and deletions of a profile picture begin with a lookup.
LEMMA PictureReadsIInv ==
  ASSUME IInv, NEW r \in Requests, NEW u \in Users,
         UploadPictureRead(r, u) \/ DeletePictureRead(r, u)
  PROVE  IInv'
<1>1. u # None /\ pictures[u] \in Files \cup {None}
  BY PhotosAssumption DEF IInv, PhotosTypeOK
<1>2. PICK op \in {"writePicture", "unlinkReplaced", "unlinkPicture"} :
        /\ op \in Unlinking <=> pictures[u] # None
        /\ Begin(r, [Idle EXCEPT !.op = op, !.user = u, !.old = pictures[u]])
  BY DEF UploadPictureRead, DeletePictureRead, Unlinking
<1> DEFINE q == [Idle EXCEPT !.op = op, !.user = u, !.old = pictures[u]]
<1>3. /\ q \in Request /\ q.new = None /\ q.old = pictures[u] /\ q.op = op /\ q.user = u
  BY <1>1 DEF Request, Idle, Ops, Unlinking, PastUnlinking
<1>4. Begin(r, q)
  BY <1>2
<1> HIDE DEF q
<1> QED BY <1>1, <1>2, <1>3, <1>4, BeginIInv DEF Unlinking, OnPhoto, OnPicture

-----------------------------------------------------------------------------
\* A failed unlink is abandoned; a successful one, and one that finds the file gone,
\* leave no file.  No other row or handler counts on it: it was read from one row.
LEMMA UnlinkIInv ==
  ASSUME IInv, NEW r \in Requests, NEW from \in Unlinking,
         NEW to \in {"writePicture", "clearPicture", "deletePhoto"},
         from = "unlinkPhoto" <=> to = "deletePhoto",
         Unlink(r, from, to)
  PROVE  IInv'
<1> DEFINE g == inflight[r].old
<1>1. /\ OthersKept(r) /\ photos' = photos /\ pictures' = pictures
      /\ inflight'[r] = [inflight[r] EXCEPT !.op = to]
      /\ inflight[r].op = from /\ inflight[r] \in Request
  BY DEF Unlink, OthersKept, IInv, PhotosTypeOK
<1>2. /\ inflight'[r].op = to /\ inflight'[r].old = g /\ inflight'[r].new = inflight[r].new
      /\ inflight'[r].user = inflight[r].user /\ inflight'[r].photo = inflight[r].photo
      /\ inflight'[r] \in Request
  BY <1>1 DEF Request, Ops, PastUnlinking
<1>3. g \in Files /\ inflight[r].new = None
  BY <1>1, NoneIsNoFile DEF IInv, Removable, Unrecorded, Request, Unlinking
<1>4. /\ \A f \in Files : f # g => files'[f] = files[f]
      /\ files'[g] = "gone" \/ (files'[g] = files[g] /\ g \in abandoned')
      /\ abandoned \subseteq abandoned'
      /\ files[g] # "unnamed"
  BY <1>1, <1>3, NoneIsNoFile DEF Unlink, Abandon, IInv, PhotosTypeOK, Fresh
<1>5. PhotosTypeOK'
  <2>1. files' \in [Files -> {"unnamed", "stored", "gone"}] /\ abandoned' \subseteq Files
    BY <1>3 DEF Unlink, Abandon, IInv, PhotosTypeOK
  <2>2. inflight' \in [Requests -> Request]
    BY <1>1, <1>2 DEF Unlink, IInv, PhotosTypeOK
  <2> QED BY <1>1, <2>1, <2>2 DEF IInv, PhotosTypeOK
<1>6. RowsFilled' /\ OneOwner'
  BY <1>1 DEF IInv, RowsFilled, OneOwner
<1> HIDE DEF g
<1>8. \A v \in Requests : inflight'[v].old = inflight[v].old /\ inflight'[v].new = inflight[v].new
                          /\ (v # r => inflight'[v] = inflight[v])
  BY <1>1, <1>2 DEF OthersKept, g
<1>7. Fresh'
  <2>1. \A f \in Files : files'[f] = "unnamed" => files[f] = "unnamed"
    BY <1>4
  <2> QED BY <2>1, <1>1, <1>8 DEF IInv, Fresh
<1>9. ASSUME NEW v \in Requests PROVE Unrecorded(v)'
  <2>1. CASE v = r
    BY <2>1, <1>2, <1>3 DEF Unrecorded
  <2>2. CASE v # r
    <3>1. inflight[v].op \in {"createPhoto", "setPicture"} =>
            inflight[v].new # g /\ inflight[v].new \in Files
      BY <2>2, <1>3, NoneIsNoFile DEF IInv, PhotosTypeOK, Request, Unrecorded, g
    <3> QED BY <2>2, <1>1, <1>4, <1>8, <3>1 DEF IInv, Unrecorded
  <2> QED BY <2>1, <2>2
<1>10. ASSUME NEW v \in Requests PROVE Removable(v)'
  <2>1. CASE v = r
    BY <2>1, <1>1, <1>2 DEF IInv, Removable, Unlinking, OnPhoto, OnPicture, g
  <2>2. CASE v # r
    BY <2>2, <1>1, <1>8 DEF IInv, Removable
  <2> QED BY <2>1, <2>2
<1>11. ASSUME NEW v \in Requests PROVE Removed(v)'
  <2>1. CASE v = r
    BY <2>1, <1>2, <1>3, <1>4 DEF Removed, IInv, PhotosTypeOK, g, Unlink, Abandon
  <2>2. CASE v # r
    <3>1. inflight[v].old # None => inflight[v].old \in Files
      BY DEF IInv, PhotosTypeOK, Request
    <3> QED BY <2>2, <3>1, <1>4, <1>8 DEF IInv, Removed
  <2> QED BY <2>1, <2>2
<1>12. NoBrokenLinks'
  <2> SUFFICES ASSUME NEW f \in Files, Named(f)', files'[f] # "stored", f \notin abandoned'
               PROVE  \E v \in Requests : inflight'[v].op \in PastUnlinking /\ inflight'[v].old = f
    BY DEF NoBrokenLinks
  <2>1. CASE f = g
    BY <2>1, <1>2 DEF PastUnlinking, g
  <2>2. CASE f # g
    <3>1. PICK v \in Requests : inflight[v].op \in PastUnlinking /\ inflight[v].old = f
      BY <2>2, <1>1, <1>4 DEF IInv, NoBrokenLinks, Named
    <3>2. v # r
      BY <3>1, <2>2 DEF g
    <3> QED BY <3>1, <3>2, <1>8
  <2> QED BY <2>1, <2>2
<1>13. NoStrayFiles'
  BY <1>1, <1>4, <1>8 DEF IInv, NoStrayFiles, Named
<1> QED BY <1>5, <1>6, <1>7, <1>9, <1>10, <1>11, <1>12, <1>13 DEF IInv

\* What is written gets a name nobody has seen.
LEMMA WriteFileIInv ==
  ASSUME IInv, NEW r \in Requests, NEW from, NEW to,
         \/ from = "writePhoto" /\ to = "createPhoto"
         \/ from = "writePicture" /\ to = "setPicture",
         WriteFile(r, from, to)
  PROVE  IInv'
<1>1. PICK g \in Files :
        /\ files[g] = "unnamed"
        /\ files' = [files EXCEPT ![g] = "stored"]
        /\ inflight' = [inflight EXCEPT ![r].op = to, ![r].new = g]
  BY DEF WriteFile
<1>2. /\ OthersKept(r) /\ photos' = photos /\ pictures' = pictures /\ abandoned' = abandoned
      /\ inflight'[r] = [inflight[r] EXCEPT !.op = to, !.new = g]
      /\ inflight[r].op = from /\ inflight[r] \in Request /\ g # None
  BY <1>1, NoneIsNoFile DEF WriteFile, OthersKept, IInv, PhotosTypeOK
<1>3. /\ inflight'[r].op = to /\ inflight'[r].old = inflight[r].old /\ inflight'[r].new = g
      /\ inflight'[r].user = inflight[r].user /\ inflight'[r].photo = inflight[r].photo
      /\ inflight'[r] \in Request
  BY <1>2 DEF Request, Ops, PastUnlinking
<1>4. /\ \A p \in Photos : photos[p].file # g
      /\ \A u \in Users : pictures[u] # g
      /\ \A v \in Requests : inflight[v].old # g /\ inflight[v].new # g
  BY <1>1 DEF IInv, Fresh
<1>5. /\ files'[g] = "stored"
      /\ \A f \in Files : f # g => files'[f] = files[f]
  BY <1>1 DEF IInv, PhotosTypeOK
<1>6. PhotosTypeOK'
  <2>1. files' \in [Files -> {"unnamed", "stored", "gone"}]
    BY <1>1 DEF IInv, PhotosTypeOK
  <2>2. inflight' \in [Requests -> Request]
    BY <1>1, <1>2, <1>3 DEF IInv, PhotosTypeOK
  <2> QED BY <1>2, <2>1, <2>2 DEF IInv, PhotosTypeOK
<1>7. RowsFilled' /\ OneOwner'
  BY <1>2 DEF IInv, RowsFilled, OneOwner
<1>8. \A v \in Requests : /\ inflight'[v].old = inflight[v].old
                          /\ v # r => inflight'[v] = inflight[v]
  BY <1>2, <1>3 DEF OthersKept
<1>9. Fresh'
  <2> SUFFICES ASSUME NEW f \in Files, files'[f] = "unnamed"
               PROVE  /\ \A p \in Photos : photos'[p].file # f
                      /\ \A u \in Users : pictures'[u] # f
                      /\ \A v \in Requests : inflight'[v].old # f /\ inflight'[v].new # f
    BY DEF Fresh
  <2>1. f # g /\ files[f] = "unnamed"
    BY <1>5
  <2>2. \A v \in Requests : inflight'[v].new \in {g, inflight[v].new}
    BY <1>3, <1>8
  <2> QED BY <2>1, <2>2, <1>2, <1>8 DEF IInv, Fresh
<1>10. ASSUME NEW v \in Requests PROVE Unrecorded(v)'
  <2>1. CASE v = r
    BY <2>1, <1>2, <1>3, <1>4, <1>5, <1>8 DEF Unrecorded
  <2>2. CASE v # r
    <3>1. inflight[v].op \in {"createPhoto", "setPicture"} =>
            inflight[v].new # g /\ inflight[v].new \in Files
      BY <1>4, NoneIsNoFile DEF IInv, PhotosTypeOK, Request, Unrecorded
    <3>2. \A w \in Requests : inflight'[w].new \in {g, inflight[w].new}
      BY <1>3, <1>8
    <3>3. inflight'[v] = inflight[v]
      BY <2>2, <1>8
    <3> HIDE DEF IInv
    <3>4. Unrecorded(v)
      BY DEF IInv
    <3>5. inflight[v].op \in {"createPhoto", "setPicture"} =>
            /\ files'[inflight[v].new] = "stored"
            /\ \A w \in Requests : inflight'[w].new = inflight[v].new => w = v
      BY <1>5, <3>1, <3>2, <3>4 DEF Unrecorded
    <3> QED BY <3>3, <3>4, <3>5, <1>2, <1>8 DEF Unrecorded
  <2> QED BY <2>1, <2>2
<1>11. ASSUME NEW v \in Requests PROVE Removable(v)'
  <2>1. CASE v = r
    BY <2>1, <1>2, <1>3 DEF IInv, Removable, Unlinking, OnPhoto, OnPicture
  <2>2. CASE v # r
    BY <2>2, <1>2, <1>8 DEF IInv, Removable
  <2> QED BY <2>1, <2>2
<1>12. ASSUME NEW v \in Requests PROVE Removed(v)'
  <2>1. inflight[v].old # None => inflight[v].old \in Files /\ inflight[v].old # g
    BY <1>4 DEF IInv, PhotosTypeOK, Request
  <2>2. inflight'[v].op \in PastUnlinking /\ inflight[v].old # None =>
          inflight[v].op \in PastUnlinking
    <3>1. CASE v = r
      BY <3>1, <1>2, <1>3 DEF IInv, Removable, OnPhoto, OnPicture, PastUnlinking
    <3>2. CASE v # r
      BY <3>2, <1>8
    <3> QED BY <3>1, <3>2
  <2> QED BY <2>1, <2>2, <1>2, <1>5, <1>8 DEF IInv, Removed
<1>13. NoBrokenLinks'
  <2> SUFFICES ASSUME NEW f \in Files, Named(f)', files'[f] # "stored", f \notin abandoned'
               PROVE  \E v \in Requests : inflight'[v].op \in PastUnlinking /\ inflight'[v].old = f
    BY DEF NoBrokenLinks
  <2>1. PICK v \in Requests : inflight[v].op \in PastUnlinking /\ inflight[v].old = f
    BY <1>2, <1>5 DEF IInv, NoBrokenLinks, Named
  <2>2. v = r => inflight'[v].op \in PastUnlinking
    BY <2>1, <1>2, <1>3 DEF PastUnlinking
  <2> QED BY <2>1, <2>2, <1>8
<1>14. NoStrayFiles'
  <2> SUFFICES ASSUME NEW f \in Files, files'[f] = "stored", ~ Named(f)', f \notin abandoned'
               PROVE  \E v \in Requests : inflight'[v].new = f
    BY DEF NoStrayFiles
  <2>1. CASE f = g
    BY <2>1, <1>3
  <2>2. CASE f # g
    <3>1. PICK v \in Requests : inflight[v].new = f
      BY <2>2, <1>2, <1>5 DEF IInv, NoStrayFiles, Named
    <3>2. v # r
      BY <3>1, <1>2, NoneIsNoFile DEF IInv, Unrecorded
    <3> QED BY <3>1, <3>2, <1>8
  <2> QED BY <2>1, <2>2
<1> QED BY <1>6, <1>7, <1>9, <1>10, <1>11, <1>12, <1>13, <1>14 DEF IInv

-----------------------------------------------------------------------------
\* A handler that ends holds no file.
LEMMA Ended ==
  ASSUME IInv, NEW r \in Requests, Finish(r)
  PROVE  /\ inflight' \in [Requests -> Request]
         /\ \A v \in Requests : v # r => inflight'[v] = inflight[v]
         /\ \A v \in Requests : /\ inflight'[v].old \in {inflight[v].old, None}
                                /\ inflight'[v].new \in {inflight[v].new, None}
         /\ inflight'[r].op = "idle" /\ inflight'[r].old = None /\ inflight'[r].new = None
         /\ Unrecorded(r)' /\ Removable(r)' /\ Removed(r)'
<1>1. /\ inflight'[r] = Idle /\ Idle \in Request
      /\ \A v \in Requests : v # r => inflight'[v] = inflight[v]
  BY DEF Finish, IInv, PhotosTypeOK, Idle, Request
<1>2. inflight' \in [Requests -> Request]
  BY <1>1 DEF Finish, IInv, PhotosTypeOK
<1>3. inflight'[r].op = "idle" /\ inflight'[r].old = None /\ inflight'[r].new = None
  BY <1>1 DEF Idle
<1>4. \A v \in Requests : /\ inflight'[v].old \in {inflight[v].old, None}
                          /\ inflight'[v].new \in {inflight[v].new, None}
  BY <1>1, <1>3
<1>5. Unrecorded(r)' /\ Removable(r)' /\ Removed(r)'
  BY <1>3 DEF Unrecorded, Removable, Removed, Unlinking, OnPhoto, OnPicture
<1> QED BY <1>1, <1>2, <1>3, <1>4, <1>5

\* What a handler in flight has written and will remove are files.
LEMMA HeldFiles ==
  ASSUME IInv, NEW v \in Requests
  PROVE  /\ inflight[v].op \in {"createPhoto", "setPicture"} => inflight[v].new \in Files
         /\ inflight[v].old # None => inflight[v].old \in Files
BY DEF IInv, PhotosTypeOK, Request, Unrecorded

\* A handler that fails or dies leaves disk and rows as they are.
LEMMA AbortIInv ==
  ASSUME IInv, NEW r \in Requests, Abort(r)
  PROVE  IInv'
<1>1. Finish(r) /\ files' = files /\ photos' = photos /\ pictures' = pictures
  BY DEF Abort
<1>2. /\ abandoned' = abandoned \cup (LeftBehind(r) \ {None})
      /\ LeftBehind(r) \subseteq Files \cup {None}
  BY DEF Abort, Abandon, LeftBehind, IInv, PhotosTypeOK, Request
<1>3. PhotosTypeOK'
  BY <1>1, <1>2, Ended DEF IInv, PhotosTypeOK
<1>4. RowsFilled' /\ OneOwner'
  BY <1>1 DEF IInv, RowsFilled, OneOwner
<1>5. Fresh'
  BY <1>1, Ended, NoneIsNoFile DEF IInv, Fresh
<1>6. ASSUME NEW v \in Requests, v # r PROVE Unrecorded(v)' /\ Removable(v)' /\ Removed(v)'
  <2>1. inflight'[v] = inflight[v] /\ Unrecorded(v) /\ Removable(v) /\ Removed(v)
    BY <1>1, <1>6, Ended DEF IInv
  <2>2. Unrecorded(v)'
    BY <2>1, <1>1, Ended DEF Unrecorded
  <2>3. Removable(v)' /\ Removed(v)'
    BY <2>1, <1>1, <1>2 DEF Removable, Removed
  <2> QED BY <2>2, <2>3
<1>7. NoBrokenLinks'
  <2> SUFFICES ASSUME NEW f \in Files, Named(f)', files'[f] # "stored", f \notin abandoned'
               PROVE  \E v \in Requests : inflight'[v].op \in PastUnlinking /\ inflight'[v].old = f
    BY DEF NoBrokenLinks
  <2>1. PICK v \in Requests : inflight[v].op \in PastUnlinking /\ inflight[v].old = f
    BY <1>1, <1>2 DEF IInv, NoBrokenLinks, Named
  <2>2. v # r
    BY <2>1, <1>2, NoneIsNoFile DEF LeftBehind
  <2> QED BY <2>1, <2>2, <1>1, Ended
<1>8. NoStrayFiles'
  <2> SUFFICES ASSUME NEW f \in Files, files'[f] = "stored", ~ Named(f)', f \notin abandoned'
               PROVE  \E v \in Requests : inflight'[v].new = f
    BY DEF NoStrayFiles
  <2>1. PICK v \in Requests : inflight[v].new = f
    BY <1>1, <1>2 DEF IInv, NoStrayFiles, Named
  <2>2. v # r
    BY <2>1, <1>2, NoneIsNoFile DEF LeftBehind
  <2> QED BY <2>1, <2>2, <1>1, Ended
<1> QED BY <1>1, <1>3, <1>4, <1>5, <1>6, <1>7, <1>8, Ended DEF IInv

\* The file passes from the handler that wrote it to the new row.
LEMMA CreatePhotoIInv ==
  ASSUME IInv, NEW r \in Requests, CreatePhoto(r)
  PROVE  IInv'
<1> DEFINE g == inflight[r].new
<1>1. PICK p \in Photos :
        /\ photos[p].status = "unborn"
        /\ photos' = [photos EXCEPT ![p] =
             [status |-> "live", user |-> inflight[r].user, file |-> g,
              description |-> inflight[r].description]]
  BY DEF CreatePhoto
<1>2. /\ Finish(r) /\ files' = files /\ pictures' = pictures /\ abandoned' = abandoned
      /\ inflight[r].op = "createPhoto" /\ inflight[r] \in Request
  BY DEF CreatePhoto, IInv, PhotosTypeOK
<1>3. /\ files[g] = "stored" /\ g \in Files /\ g # None
      /\ \A v \in Photos : photos[v].file # g
      /\ \A u \in Users : pictures[u] # g
      /\ \A v \in Requests : inflight[v].old # g
      /\ \A v \in Requests : inflight[v].new = g => v = r
  BY <1>2, HeldFiles DEF IInv, Unrecorded
<1>4. /\ photos'[p].file = g /\ photos'[p].status = "live"
      /\ \A v \in Photos : v # p => photos'[v] = photos[v]
      /\ photos[p].file = None
  BY <1>1 DEF IInv, PhotosTypeOK, RowsFilled
<1>5. PhotosTypeOK'
  <2>1. photos' \in [Photos -> PhotoRow]
    BY <1>1, <1>2, <1>3 DEF IInv, PhotosTypeOK, PhotoRow, Request
  <2> QED BY <2>1, <1>2, Ended DEF IInv, PhotosTypeOK
<1> HIDE DEF g
<1>6. RowsFilled'
  BY <1>3, <1>4 DEF IInv, RowsFilled
<1>7. OneOwner'
  BY <1>2, <1>3, <1>4 DEF IInv, OneOwner
<1>8. Fresh'
  BY <1>2, <1>3, <1>4, Ended, NoneIsNoFile DEF IInv, Fresh
<1>9. ASSUME NEW v \in Requests, v # r PROVE Unrecorded(v)' /\ Removable(v)' /\ Removed(v)'
  <2>1. inflight'[v] = inflight[v] /\ Unrecorded(v) /\ Removable(v) /\ Removed(v)
    BY <1>2, <1>9, Ended DEF IInv
  <2>2. inflight[v].op \in {"createPhoto", "setPicture"} => inflight[v].new # g
    BY <1>3, <1>9
  <2>3. Unrecorded(v)'
    BY <2>1, <2>2, <1>2, <1>4, Ended DEF Unrecorded
  <2>4. inflight[v].op \in OnPhoto => inflight[v].photo # p /\ inflight[v].photo \in Photos
    BY <2>1, <1>4 DEF IInv, PhotosTypeOK, Request, Removable
  <2>5. Removable(v)'
    BY <2>1, <2>4, <1>2, <1>3, <1>4 DEF Removable
  <2>6. Removed(v)'
    BY <2>1, <1>2 DEF Removed
  <2> QED BY <2>3, <2>5, <2>6
<1>10. NoBrokenLinks'
  <2> SUFFICES ASSUME NEW f \in Files, Named(f)', files'[f] # "stored", f \notin abandoned'
               PROVE  \E v \in Requests : inflight'[v].op \in PastUnlinking /\ inflight'[v].old = f
    BY DEF NoBrokenLinks
  <2>1. Named(f)
    BY <1>2, <1>3, <1>4 DEF Named
  <2>2. PICK v \in Requests : inflight[v].op \in PastUnlinking /\ inflight[v].old = f
    BY <2>1, <1>2 DEF IInv, NoBrokenLinks
  <2>3. v # r
    BY <2>2, <1>2 DEF PastUnlinking
  <2> QED BY <2>2, <2>3, <1>2, Ended
<1>11. NoStrayFiles'
  <2> SUFFICES ASSUME NEW f \in Files, files'[f] = "stored", ~ Named(f)', f \notin abandoned'
               PROVE  \E v \in Requests : inflight'[v].new = f
    BY DEF NoStrayFiles
  <2>1. ~ Named(f) /\ f # g
    BY <1>1, <1>2, <1>3, <1>4 DEF Named
  <2>2. PICK v \in Requests : inflight[v].new = f
    BY <2>1, <1>2 DEF IInv, NoStrayFiles
  <2> QED BY <2>1, <2>2, <1>2, Ended DEF g
<1> QED BY <1>2, <1>5, <1>6, <1>7, <1>8, <1>9, <1>10, <1>11, Ended DEF IInv

\* Changing the description, or deleting the row after its file, touches one row, whose
\* file stays the same.
LEMMA PhotoCommitIInv ==
  ASSUME IInv, NEW r \in Requests, EditPhotoCommit(r) \/ DeletePhotoCommit(r)
  PROVE  IInv'
<1> DEFINE q == inflight[r]
<1>1. /\ Finish(r) /\ files' = files /\ pictures' = pictures /\ abandoned' = abandoned
      /\ q.op \in {"editPhoto", "deletePhoto"} /\ q \in Request
  BY DEF EditPhotoCommit, DeletePhotoCommit, IInv, PhotosTypeOK
<1>2. PICK p \in Photos \cup {None} :
        /\ p = q.photo
        /\ \/ /\ q.op = "editPhoto"
              /\ photos' = [photos EXCEPT ![p].description = q.description]
           \/ /\ q.op = "deletePhoto"
              /\ photos' = [photos EXCEPT ![p].status = "deleted"]
        /\ photos[p].status = "live"
  BY <1>1 DEF EditPhotoCommit, DeletePhotoCommit, Request
<1>3. /\ photos' \in [Photos -> PhotoRow]
      /\ \A v \in Photos : /\ photos'[v].file = photos[v].file
                           /\ photos'[v].status = "unborn" <=> photos[v].status = "unborn"
      /\ \A v \in Photos : photos'[v].status = "live" => photos[v].status = "live"
      /\ q.op = "deletePhoto" =>
           /\ \A v \in Photos : v = q.photo => photos'[v].status = "deleted"
           /\ \A v \in Photos : v # q.photo => photos'[v] = photos[v]
      /\ q.op = "editPhoto" => \A v \in Photos : photos'[v].status = photos[v].status
  <2>1. q.description \in Descriptions \cup {None}
    BY <1>1 DEF Request
  <2>2. CASE q.op = "editPhoto"
    BY <1>2, <2>1, <2>2 DEF IInv, PhotosTypeOK, PhotoRow
  <2>3. CASE q.op = "deletePhoto"
    BY <1>2, <2>3 DEF IInv, PhotosTypeOK, PhotoRow
  <2> QED BY <1>1, <2>2, <2>3
<1>4. PhotosTypeOK' /\ RowsFilled' /\ OneOwner'
  BY <1>1, <1>3, Ended DEF IInv, PhotosTypeOK, RowsFilled, OneOwner
<1>5. Fresh'
  BY <1>1, <1>3, Ended, NoneIsNoFile DEF IInv, Fresh
<1>6. ASSUME NEW v \in Requests, v # r PROVE Unrecorded(v)' /\ Removable(v)' /\ Removed(v)'
  <2>1. inflight'[v] = inflight[v] /\ Unrecorded(v) /\ Removable(v) /\ Removed(v)
    BY <1>1, <1>6, Ended DEF IInv
  <2>2. Unrecorded(v)'
    BY <2>1, <1>1, <1>3, Ended DEF Unrecorded
  <2>3. inflight[v].photo # None => inflight[v].photo \in Photos
    BY DEF IInv, PhotosTypeOK, Request
  <2>4. Removable(v)'
    BY <2>1, <2>3, <1>1, <1>3 DEF Removable
  <2>5. Removed(v)'
    BY <2>1, <1>1 DEF Removed
  <2> QED BY <2>2, <2>4, <2>5
<1>7. NoBrokenLinks'
  <2> SUFFICES ASSUME NEW f \in Files, Named(f)', files'[f] # "stored", f \notin abandoned'
               PROVE  \E v \in Requests : inflight'[v].op \in PastUnlinking /\ inflight'[v].old = f
    BY DEF NoBrokenLinks
  <2>1. Named(f)
    BY <1>1, <1>3 DEF Named
  <2>2. PICK v \in Requests : inflight[v].op \in PastUnlinking /\ inflight[v].old = f
    BY <2>1, <1>1 DEF IInv, NoBrokenLinks
  <2>3. ASSUME v = r PROVE FALSE
    <3>1. q.op = "deletePhoto" /\ q.old = f /\ Removable(r)
      BY <2>2, <2>3, <1>1 DEF PastUnlinking, IInv
    <3>2. /\ photos[q.photo].file = f /\ q.photo \in Photos
          /\ \A u \in Users : pictures[u] # f
      BY <3>1, <1>1 DEF Removable, OnPhoto, Request
    <3>3. photos'[q.photo].status # "live"
      BY <3>1, <3>2, <1>3
    <3>4. \A w \in Photos : photos'[w].file = f => w = q.photo
      BY <3>2, <1>3, NoneIsNoFile DEF IInv, OneOwner
    <3> QED BY <3>2, <3>3, <3>4, <1>1 DEF Named
  <2> QED BY <2>2, <2>3, <1>1, Ended
<1>8. NoStrayFiles'
  <2> SUFFICES ASSUME NEW f \in Files, files'[f] = "stored", ~ Named(f)', f \notin abandoned'
               PROVE  \E v \in Requests : inflight'[v].new = f
    BY DEF NoStrayFiles
  <2>1. ~ Named(f)
    <3>1. CASE q.op = "editPhoto"
      BY <3>1, <1>1, <1>3 DEF Named
    <3>2. CASE q.op = "deletePhoto"
      <4>1. q.old # f
        <5>1. Removable(r) /\ Removed(r)
          BY DEF IInv
        <5> QED BY <5>1, <3>2, <1>1 DEF Removable, Removed, OnPhoto, PastUnlinking
      <4>2. \A v \in Photos : v = q.photo => photos[v].file # f
        BY <4>1, <3>2 DEF IInv, Removable, OnPhoto
      <4> QED BY <4>2, <3>2, <1>1, <1>3 DEF Named
    <3> QED BY <3>1, <3>2, <1>1
  <2>2. PICK v \in Requests : inflight[v].new = f
    BY <2>1, <1>1 DEF IInv, NoStrayFiles
  <2>3. v # r
    BY <2>2, <1>1, NoneIsNoFile DEF IInv, Unrecorded
  <2> QED BY <2>2, <2>3, <1>1, Ended
<1> QED BY <1>1, <1>4, <1>5, <1>6, <1>7, <1>8, Ended DEF IInv

\* Setting or clearing the URL: what it named was removed by this handler, or is
\* abandoned now.
LEMMA SetUrlIInv ==
  ASSUME IInv, NEW r \in Requests, SetPicture(r) \/ ClearPicture(r)
  PROVE  IInv'
<1> DEFINE q == inflight[r]
<1>1. PICK url \in {q.new, None} :
        /\ \/ q.op = "setPicture" /\ url = q.new
           \/ q.op = "clearPicture" /\ url = None
        /\ pictures' = [pictures EXCEPT ![q.user] = url]
        /\ abandoned' = abandoned \cup (({pictures[q.user]} \ {q.old}) \ {None})
  <2>1. CASE SetUrl(r, "setPicture", q.new)
    BY <2>1, Zenon DEF SetUrl, Abandon
  <2>2. CASE SetUrl(r, "clearPicture", None)
    BY <2>2, Zenon DEF SetUrl, Abandon
  <2> QED BY <2>1, <2>2 DEF SetPicture, ClearPicture
<1>2. /\ Finish(r) /\ files' = files /\ photos' = photos /\ q \in Request
  BY DEF SetPicture, ClearPicture, SetUrl, IInv, PhotosTypeOK
<1>3. Unrecorded(r) /\ Removable(r) /\ Removed(r)
  BY DEF IInv
<1>4. PICK u \in Users : u = q.user
  BY <1>1, <1>2, <1>3 DEF Removable, OnPicture, Request
<1>5. url # None =>
        /\ url = q.new /\ url \in Files /\ files[url] = "stored"
        /\ \A p \in Photos : photos[p].file # url
        /\ \A v \in Users : pictures[v] # url
        /\ \A v \in Requests : inflight[v].old # url
        /\ \A v \in Requests : inflight[v].new = url => v = r
  BY <1>1, <1>3, HeldFiles DEF Unrecorded
<1>6. /\ pictures'[u] = url
      /\ \A v \in Users : v # u => pictures'[v] = pictures[v]
      /\ pictures' \in [Users -> Files \cup {None}]
  BY <1>1, <1>4, <1>5 DEF IInv, PhotosTypeOK
<1>7. /\ abandoned \subseteq abandoned' /\ abandoned' \subseteq Files
      /\ pictures[u] \in {q.old, None} \cup abandoned'
  BY <1>1, <1>4 DEF IInv, PhotosTypeOK
<1> HIDE DEF q
<1>8. PhotosTypeOK' /\ RowsFilled'
  BY <1>2, <1>6, <1>7, Ended DEF IInv, PhotosTypeOK, RowsFilled
<1>9. OneOwner'
  BY <1>2, <1>5, <1>6 DEF IInv, OneOwner
<1>10. Fresh'
  <2> SUFFICES ASSUME NEW f \in Files, files'[f] = "unnamed"
               PROVE  /\ \A p \in Photos : photos'[p].file # f
                      /\ \A v \in Users : pictures'[v] # f
                      /\ \A v \in Requests : inflight'[v].old # f /\ inflight'[v].new # f
    BY DEF Fresh
  <2>1. f # url
    BY <1>2, <1>5, NoneIsNoFile
  <2> QED BY <2>1, <1>2, <1>6, Ended, NoneIsNoFile DEF IInv, Fresh
<1>11. ASSUME NEW v \in Requests, v # r PROVE Unrecorded(v)' /\ Removable(v)' /\ Removed(v)'
  <2>1. inflight'[v] = inflight[v] /\ Unrecorded(v) /\ Removable(v) /\ Removed(v)
    BY <1>2, <1>11, Ended DEF IInv
  <2>2. inflight[v].op \in {"createPhoto", "setPicture"} => inflight[v].new # url
    BY <1>5, <1>11, <2>1 DEF Unrecorded
  <2>3. Unrecorded(v)'
    BY <2>1, <2>2, <1>2, <1>6, Ended DEF Unrecorded
  <2>4. inflight[v].old # None => inflight[v].old # url
    BY <1>5
  <2>5. Removable(v)'
    BY <2>1, <2>4, <1>2, <1>6, HeldFiles DEF Removable, OnPhoto
  <2>6. Removed(v)'
    BY <2>1, <1>2, <1>7 DEF Removed
  <2> QED BY <2>3, <2>5, <2>6
<1>12. NoBrokenLinks'
  <2> SUFFICES ASSUME NEW f \in Files, Named(f)', files'[f] # "stored", f \notin abandoned'
               PROVE  \E v \in Requests : inflight'[v].op \in PastUnlinking /\ inflight'[v].old = f
    BY DEF NoBrokenLinks
  <2>1. f # url
    BY <1>2, <1>5, NoneIsNoFile
  <2>2. Named(f)
    BY <2>1, <1>2, <1>6 DEF Named
  <2>3. PICK v \in Requests : inflight[v].op \in PastUnlinking /\ inflight[v].old = f
    BY <2>2, <1>2, <1>7 DEF IInv, NoBrokenLinks
  <2>4. ASSUME v = r PROVE FALSE
    <3>1. q.old = f /\ q.op \in OnPicture
      BY <2>3, <2>4, <1>1 DEF OnPicture, q
    <3>2. /\ \A p \in Photos : photos[p].file # f
          /\ \A w \in Users : pictures[w] = f => w = u
      BY <3>1, <1>3, <1>4, NoneIsNoFile DEF Removable, q
    <3> QED BY <2>1, <3>2, <1>2, <1>6 DEF Named
  <2> QED BY <2>3, <2>4, <1>2, Ended
<1>13. NoStrayFiles'
  <2> SUFFICES ASSUME NEW f \in Files, files'[f] = "stored", ~ Named(f)', f \notin abandoned'
               PROVE  \E v \in Requests : inflight'[v].new = f
    BY DEF NoStrayFiles
  <2>1. f # q.old
    BY <1>1, <1>2, <1>3, <1>7, NoneIsNoFile DEF Removed, PastUnlinking, q
  <2>2. f # url
    BY <1>6 DEF Named
  <2>3. ~ Named(f)
    BY <2>1, <1>2, <1>6, <1>7, NoneIsNoFile DEF Named
  <2>4. PICK v \in Requests : inflight[v].new = f
    BY <2>3, <1>2, <1>7 DEF IInv, NoStrayFiles
  <2>5. v # r
    BY <2>2, <2>4, <1>1, <1>3, NoneIsNoFile DEF Unrecorded, q
  <2> QED BY <2>4, <2>5, <1>2, Ended
<1> QED BY <1>2, <1>8, <1>9, <1>10, <1>11, <1>12, <1>13, Ended DEF IInv

\* Deleting an account clears the picture's URL and leaves the file.
LEMMA DeleteAccountIInv ==
  ASSUME IInv, NEW u \in Users, DeleteAccount(u)
  PROVE  IInv'
<1>1. /\ files' = files /\ photos' = photos /\ inflight' = inflight
      /\ pictures'[u] = None
      /\ \A v \in Users : v # u => pictures'[v] = pictures[v]
      /\ pictures' \in [Users -> Files \cup {None}]
      /\ abandoned \subseteq abandoned' /\ abandoned' \subseteq Files
      /\ pictures[u] \in {None} \cup abandoned'
  BY DEF DeleteAccount, Abandon, IInv, PhotosTypeOK
<1>2. PhotosTypeOK' /\ RowsFilled'
  BY <1>1 DEF IInv, PhotosTypeOK, RowsFilled
<1>3. Fresh' /\ OneOwner'
  BY <1>1, NoneIsNoFile DEF IInv, Fresh, OneOwner
<1>4. ASSUME NEW v \in Requests PROVE Unrecorded(v)' /\ Removable(v)' /\ Removed(v)'
  <2>1. Unrecorded(v) /\ Removable(v) /\ Removed(v)
    BY DEF IInv
  <2>2. Unrecorded(v)'
    BY <2>1, <1>1 DEF Unrecorded
  <2>3. Removable(v)' /\ Removed(v)'
    BY <2>1, <1>1 DEF Removable, Removed, OnPhoto
  <2> QED BY <2>2, <2>3
<1>5. NoBrokenLinks'
  BY <1>1, NoneIsNoFile DEF IInv, NoBrokenLinks, Named
<1>6. NoStrayFiles'
  BY <1>1, NoneIsNoFile DEF IInv, NoStrayFiles, Named
<1> QED BY <1>2, <1>3, <1>4, <1>5, <1>6 DEF IInv

-----------------------------------------------------------------------------
\* IInv is inductive.
LEMMA NextIInv == IInv /\ [Next]_vars => IInv'
<1> SUFFICES ASSUME IInv, [Next]_vars PROVE IInv'
  OBVIOUS
<1>1. ASSUME NEW r \in Requests, PhotoStep(r) PROVE IInv'
  <2>1. CASE \E u \in Users, d \in Descriptions : AddPhotoRead(r, u, d)
    BY <2>1, PhotoReadsIInv
  <2>2. CASE WritePhoto(r)
    BY <2>2, WriteFileIInv DEF WritePhoto
  <2>3. CASE CreatePhoto(r)
    BY <2>3, CreatePhotoIInv
  <2>4. CASE \E u \in Users, p \in Photos, d \in Descriptions : EditPhotoRead(r, u, p, d)
    BY <2>4, PhotoReadsIInv
  <2>5. CASE EditPhotoCommit(r) \/ DeletePhotoCommit(r)
    BY <2>5, PhotoCommitIInv
  <2>6. CASE \E u \in Users, p \in Photos : DeletePhotoRead(r, u, p)
    BY <2>6, DeletePhotoReadIInv
  <2>7. CASE UnlinkPhoto(r)
    BY <2>7, UnlinkIInv DEF UnlinkPhoto, Unlinking
  <2> QED BY <1>1, <2>1, <2>2, <2>3, <2>4, <2>5, <2>6, <2>7 DEF PhotoStep
<1>2. ASSUME NEW r \in Requests, PictureStep(r) PROVE IInv'
  <2>1. CASE UnlinkReplaced(r) \/ UnlinkPicture(r)
    BY <2>1, UnlinkIInv DEF UnlinkReplaced, UnlinkPicture, Unlinking
  <2>2. CASE WritePicture(r)
    BY <2>2, WriteFileIInv DEF WritePicture
  <2>3. CASE SetPicture(r) \/ ClearPicture(r)
    BY <2>3, SetUrlIInv
  <2>4. CASE \E u \in Users : UploadPictureRead(r, u) \/ DeletePictureRead(r, u)
    BY <2>4, PictureReadsIInv
  <2> QED BY <1>2, <2>1, <2>2, <2>3, <2>4 DEF PictureStep
<1>3. CASE UNCHANGED vars
  BY <1>3 DEF vars, IInv, PhotosTypeOK, RowsFilled, Fresh, OneOwner, Unrecorded, Removable,
              Removed, NoBrokenLinks, NoStrayFiles, Named
<1> QED BY <1>1, <1>2, <1>3, AbortIInv, DeleteAccountIInv DEF Next

\* Disk, rows and handlers agree in every interleaving, whoever stops where.
THEOREM Invariance == Spec => []IInv
BY InitIInv, NextIInv, PTL DEF Spec

\* The rows, the disk and the handlers keep their shape.
THEOREM PhotosTypeCorrect == Spec => []PhotosTypeOK
<1>1. IInv => PhotosTypeOK
  BY DEF IInv
<1> QED BY <1>1, Invariance, PTL

\* No race breaks a link: only a handler cut short between the disk and the row does.
THEOREM LinksStayWhole == Spec => []NoBrokenLinks
<1>1. IInv => NoBrokenLinks
  BY DEF IInv
<1> QED BY <1>1, Invariance, PTL

\* Every file that nobody names is in some handler's hands or was abandoned.
THEOREM FilesAreAccountedFor == Spec => []NoStrayFiles
<1>1. IInv => NoStrayFiles
  BY DEF IInv
<1> QED BY <1>1, Invariance, PTL
=============================================================================
