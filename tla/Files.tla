-------------------------------- MODULE Files --------------------------------
(***************************************************************************)
(* Uploaded files: the objects in the object storage, their rows in the    *)
(* attachments table, the thumbnails that are made of images, the avatar   *)
(* of one user, and the requests that write them, each a sequence of calls *)
(* of the storage and of statements with nothing holding them together but *)
(* a last write that may not come.                                         *)
(*                                                                         *)
(* An attachment is <<file, 0>>, or <<file, n>> for the thumbnail made of  *)
(* the file by the n-th try; its object and its row have the same name.    *)
(* Attachments expire, which only changes an answer and is left out.       *)
(***************************************************************************)
EXTENDS Naturals

CONSTANTS
    Handlers,       \* what handles requests, one after the other
    MaxFiles,       \* bound on the files
    RetryCount,     \* thumbRetryCount
    MaxFilesFaults  \* bound on calls and statements that fail, and crashes

ASSUME FilesAssumption ==
    MaxFiles \in Nat \ {0} /\ RetryCount \in Nat \ {0} /\ MaxFilesFaults \in Nat

VARIABLES
    objects,     \* the attachments that have an object
    records,     \* the attachments that have a row
    kind,        \* file -> "none", "file", "image" (a generated one) or "avatar"
    thumb,       \* file -> thumb_attachment_id of its row: a try, 0 for none
    multi,       \* file -> its multipart upload in the storage
    avatar,      \* avatar_attachment_id of the user, 0 for none
    up,          \* handler -> what it does next, with what
    excused,     \* history: attachments whose handler failed or died on the way
    lostSwaps,   \* history: files that became the avatar without an answer
    filesFaults

stored == <<objects, records, thumb>>
histories == <<excused, lostSwaps>>
filesVars == <<stored, kind, multi, avatar, up, histories, filesFaults>>

FileIds == 1..MaxFiles
Ids == FileIds \X (0..RetryCount)
FileKinds == {"file", "image", "avatar"}
UploadPhases == {"idle", "check", "row", "thumb", "thumbRow", "link", "lock", "swap", "sweep",
           "undoThumb", "undoThumbRow", "undo", "undoRow"}
Idle == [phase |-> "idle", file |-> 1, try |-> 1, saw |-> 0, keys |-> {}]

FilesTypeOK ==
    /\ objects \subseteq Ids /\ records \subseteq Ids
    /\ kind \in [FileIds -> FileKinds \cup {"none"}]
    /\ thumb \in [FileIds -> 0..RetryCount]
    /\ multi \in [FileIds -> {"none", "open", "parts", "closed"}]
    /\ avatar \in 0..MaxFiles
    /\ up \in [Handlers -> [phase : UploadPhases, file : FileIds, try : 1..RetryCount,
                            saw : 0..MaxFiles, keys : SUBSET Ids]]
    /\ excused \subseteq Ids /\ lostSwaps \subseteq FileIds
    /\ filesFaults \in 0..MaxFilesFaults

FilesInit ==
    /\ objects = {} /\ records = {}
    /\ kind = [f \in FileIds |-> "none"]
    /\ thumb = [f \in FileIds |-> 0]
    /\ multi = [f \in FileIds |-> "none"]
    /\ avatar = 0
    /\ up = [u \in Handlers |-> Idle]
    /\ excused = {} /\ lostSwaps = {}
    /\ filesFaults = 0

FilesFault == filesFaults < MaxFilesFaults /\ filesFaults' = filesFaults + 1

Proceed(u, from, to) ==
    /\ up[u].phase = from
    /\ up' = [up EXCEPT ![u] = IF to = "idle" THEN Idle ELSE [@ EXCEPT !.phase = to]]

\* A fresh file. Names are random; here they are drawn in order.
Draw(f, k) ==
    /\ kind[f] = "none" /\ \A g \in 1..f - 1 : kind[g] # "none"
    /\ kind' = [kind EXCEPT ![f] = k]

Main(u) == <<up[u].file, 0>>
Thumb(u) == <<up[u].file, up[u].try>>

-----------------------------------------------------------------------------
(* The object. *)

PutObject(u, f, k) ==
    /\ up[u].phase = "idle"
    /\ Draw(f, k)
    /\ \/ /\ objects' = objects \cup {<<f, 0>>}
          /\ up' = [up EXCEPT ![u] = [Idle EXCEPT !.phase = "check", !.file = f]]
          /\ UNCHANGED <<excused, filesFaults>>
       \/ /\ FilesFault
          /\ objects' \in {objects, objects \cup {<<f, 0>>}}
          /\ excused' = excused \cup {<<f, 0>>}
          /\ UNCHANGED up
    /\ UNCHANGED <<records, thumb, multi, avatar, lostSwaps>>

Upload(u, f) == PutObject(u, f, "file")
UploadAvatar(u, f) == PutObject(u, f, "avatar")
SaveAIGCImageFromURL(u, f) == PutObject(u, f, "image")

\* The server keeps nothing of a multipart upload: the client has its name.
StartMultipartUpload(f) ==
    /\ Draw(f, "file")
    /\ multi' = [multi EXCEPT ![f] = "open"]
    /\ UNCHANGED <<stored, avatar, up, histories, filesFaults>>

UploadPart(f) ==
    /\ multi[f] \in {"open", "parts"}
    /\ multi' = [multi EXCEPT ![f] = "parts"]
    /\ UNCHANGED <<stored, kind, avatar, up, histories, filesFaults>>

AbortMultipartUpload(f) ==
    /\ multi[f] \in {"open", "parts"}
    /\ multi' = [multi EXCEPT ![f] = "closed"]
    /\ UNCHANGED <<stored, kind, avatar, up, histories, filesFaults>>

\* ListUploadedParts and then completion, which the storage grants once: one
\* that comes second fails and writes nothing. Its answer may be lost.
CompleteMultipartUpload(u, f) ==
    /\ up[u].phase = "idle" /\ multi[f] = "parts"
    /\ multi' = [multi EXCEPT ![f] = "closed"]
    /\ objects' = objects \cup {<<f, 0>>}
    /\ \/ /\ up' = [up EXCEPT ![u] = [Idle EXCEPT !.phase = "check", !.file = f]]
          /\ UNCHANGED <<excused, filesFaults>>
       \/ /\ FilesFault
          /\ excused' = excused \cup {<<f, 0>>}
          /\ UNCHANGED up
    /\ UNCHANGED <<records, kind, thumb, avatar, lostSwaps>>

\* Mutant of Check: an object that is refused is not removed.
CheckOnly(u) ==
    /\ Proceed(u, "check", "row") \/ Proceed(u, "check", "idle")
    /\ UNCHANGED <<stored, kind, multi, avatar, histories, filesFaults>>

\* StatObject, and for a multipart upload the checksum: an object that is empty
\* or not the expected one is removed, an error of that being ignored.
Check(u) ==
    /\ \/ /\ Proceed(u, "check", "row")
          /\ UNCHANGED <<objects, excused, filesFaults>>
       \/ /\ Proceed(u, "check", "idle")
          /\ objects' = objects \ {Main(u)}
          /\ UNCHANGED <<excused, filesFaults>>
       \/ /\ Proceed(u, "check", "idle")
          /\ FilesFault
          /\ excused' = excused \cup {Main(u)}
          /\ UNCHANGED objects
    /\ UNCHANGED <<records, kind, thumb, multi, avatar, lostSwaps>>

\* The row. If the insert fails, be it only that its answer is lost, the request
\* ends and the object stays.
InsertRow(u) ==
    /\ \/ /\ Proceed(u, "row", "thumb")
          /\ records' = records \cup {Main(u)}
          /\ UNCHANGED <<excused, filesFaults>>
       \/ /\ Proceed(u, "row", "idle")
          /\ FilesFault
          /\ records' \in {records, records \cup {Main(u)}}
          /\ excused' = excused \cup {Main(u)}
    /\ UNCHANGED <<objects, kind, thumb, multi, avatar, lostSwaps>>

-----------------------------------------------------------------------------
(* The thumbnail: tryCreateThumbnail, each try under a name of its own.        *)

\* What comes after the thumbnail.
After(u) == IF kind[up[u].file] = "avatar" THEN "lock" ELSE "idle"

\* A try has failed.
NextTry(u) ==
    LET next == up[u].try + 1 IN
    up' = [up EXCEPT ![u] =
              IF next <= RetryCount THEN [@ EXCEPT !.phase = "thumb", !.try = next]
              ELSE IF After(u) = "lock" THEN [@ EXCEPT !.phase = "lock", !.try = 1]
              ELSE Idle]

\* Not an image, too large, or it cannot be decoded, however often.
NoThumb(u) ==
    /\ Proceed(u, "thumb", After(u))
    /\ UNCHANGED <<stored, kind, multi, avatar, histories, filesFaults>>

PutThumb(u) ==
    /\ up[u].phase = "thumb"
    /\ \/ /\ Proceed(u, "thumb", "thumbRow")
          /\ objects' = objects \cup {Thumb(u)}
          /\ UNCHANGED <<excused, filesFaults>>
       \/ /\ FilesFault
          /\ NextTry(u)
          /\ objects' \in {objects, objects \cup {Thumb(u)}}
          /\ excused' = excused \cup {Thumb(u)}
    /\ UNCHANGED <<records, kind, thumb, multi, avatar, lostSwaps>>

InsertThumb(u) ==
    /\ up[u].phase = "thumbRow"
    /\ \/ /\ Proceed(u, "thumbRow", "link")
          /\ records' = records \cup {Thumb(u)}
          /\ UNCHANGED <<excused, filesFaults>>
       \/ /\ FilesFault
          /\ NextTry(u)
          /\ records' \in {records, records \cup {Thumb(u)}}
          /\ excused' = excused \cup {Thumb(u)}
    /\ UNCHANGED <<objects, kind, thumb, multi, avatar, lostSwaps>>

\* The file's row is told of its thumbnail; an error is ignored.
Link(u) ==
    /\ Proceed(u, "link", After(u))
    /\ \/ /\ thumb' = [thumb EXCEPT ![up[u].file] = up[u].try]
          /\ UNCHANGED <<excused, filesFaults>>
       \/ /\ FilesFault
          /\ excused' = excused \cup {Thumb(u)}
          /\ UNCHANGED thumb
    /\ UNCHANGED <<objects, records, kind, multi, avatar, lostSwaps>>

-----------------------------------------------------------------------------
(* UserHandler.UploadAvatar after the upload. *)

\* Mutant of Lock: the user's row is read without FOR UPDATE.
LockNothing(u) ==
    /\ up[u].phase = "lock"
    /\ up' = [up EXCEPT ![u].phase = "swap", ![u].saw = avatar]
    /\ UNCHANGED <<stored, kind, multi, avatar, histories, filesFaults>>

\* The transaction begins: the user's row is locked and read.
Lock(u) ==
    /\ up[u].phase = "lock"
    /\ \A v \in Handlers : up[v].phase # "swap"
    /\ up' = [up EXCEPT ![u].phase = "swap", ![u].saw = avatar]
    /\ UNCHANGED <<stored, kind, multi, avatar, histories, filesFaults>>

\* Mutant of Replaced: the rows of the avatar that is new.
ReplacedNew(u) == {id \in records : id[1] = up[u].file}

\* DeleteAttachmentRecordsTx: the rows of the avatar that was there.
Replaced(u) ==
    LET f == up[u].saw IN
    IF <<f, 0>> \notin records THEN {}
    ELSE IF thumb[f] = 0 THEN {<<f, 0>>}
    ELSE {<<f, 0>>, <<f, thumb[f]>>} \cap records

\* It commits, or it fails and has no effect, or its answer is lost: after an
\* error the new attachment is deleted.
Swap(u) ==
    /\ up[u].phase = "swap"
    /\ \/ /\ avatar' = up[u].file
          /\ records' = records \ Replaced(u)
          /\ up' = [up EXCEPT ![u].phase = "sweep", ![u].keys = Replaced(u)]
          /\ UNCHANGED <<histories, filesFaults>>
       \/ /\ FilesFault
          /\ Proceed(u, "swap", "undoThumb")
          /\ UNCHANGED <<avatar, records, histories>>
       \/ /\ FilesFault
          /\ Proceed(u, "swap", "undoThumb")
          /\ avatar' = up[u].file
          /\ records' = records \ Replaced(u)
          /\ excused' = excused \cup Replaced(u)
          /\ lostSwaps' = lostSwaps \cup {up[u].file}
    /\ UNCHANGED <<objects, kind, thumb, multi>>

\* The replaced objects are removed; errors are ignored.
Sweep(u) ==
    /\ up[u].phase = "sweep"
    /\ IF up[u].keys = {}
       THEN Proceed(u, "sweep", "idle") /\ UNCHANGED <<objects, excused, filesFaults>>
       ELSE \E id \in up[u].keys :
               /\ up' = [up EXCEPT ![u].keys = @ \ {id}]
               /\ \/ objects' = objects \ {id} /\ UNCHANGED <<excused, filesFaults>>
                  \/ FilesFault /\ excused' = excused \cup {id} /\ UNCHANGED objects
    /\ UNCHANGED <<records, kind, thumb, multi, avatar, lostSwaps>>

\* DeleteAttachment: the thumbnail's object and row, the object and the row, an
\* error on the way being ignored.
Undo(u) ==
    LET f == up[u].file
        id == IF up[u].phase \in {"undoThumb", "undoThumbRow"} THEN <<f, thumb[f]>> ELSE <<f, 0>>
        hasThumb == thumb[f] # 0 /\ <<f, thumb[f]>> \in records IN
    /\ \/ /\ up[u].phase = "undoThumb" /\ ~hasThumb
          /\ Proceed(u, "undoThumb", "undo")
          /\ UNCHANGED <<objects, records, excused, filesFaults>>
       \/ /\ Proceed(u, "undoThumb", "undoThumbRow") \/ Proceed(u, "undo", "undoRow")
          /\ up[u].phase = "undoThumb" => hasThumb
          /\ UNCHANGED records
          /\ \/ objects' = objects \ {id} /\ UNCHANGED <<excused, filesFaults>>
             \/ FilesFault /\ excused' = excused \cup {id} /\ UNCHANGED objects
       \/ /\ Proceed(u, "undoThumbRow", "undo") \/ Proceed(u, "undoRow", "idle")
          /\ UNCHANGED objects
          /\ \/ records' = records \ {id} /\ UNCHANGED <<excused, filesFaults>>
             \/ FilesFault /\ excused' = excused \cup {id} /\ UNCHANGED records
    /\ UNCHANGED <<kind, thumb, multi, avatar, lostSwaps>>

\* The row cannot be read: DeleteAttachment does nothing.
UndoFails(u) ==
    /\ FilesFault
    /\ Proceed(u, "undoThumb", "idle")
    /\ excused' = excused \cup {<<up[u].file, n>> : n \in 0..RetryCount}
    /\ UNCHANGED <<stored, kind, multi, avatar, lostSwaps>>

-----------------------------------------------------------------------------
\* What a handler is about to settle.
InHand(u) ==
    IF up[u].phase = "idle" THEN {}
    ELSE {<<up[u].file, n>> : n \in 0..RetryCount} \cup up[u].keys

AllInHand == UNION {InHand(u) : u \in Handlers}

\* The process dies. A transaction that was open has no effect.
Crash ==
    /\ FilesFault
    /\ up' = [u \in Handlers |-> Idle]
    /\ excused' = excused \cup AllInHand
    /\ UNCHANGED <<stored, kind, multi, avatar, lostSwaps>>

Handler(u) ==
    \/ \E f \in FileIds :
          \/ Upload(u, f) \/ UploadAvatar(u, f) \/ SaveAIGCImageFromURL(u, f)
          \/ CompleteMultipartUpload(u, f)
    \/ Check(u) \/ InsertRow(u)
    \/ NoThumb(u) \/ PutThumb(u) \/ InsertThumb(u) \/ Link(u)
    \/ Lock(u) \/ Swap(u) \/ Sweep(u) \/ Undo(u) \/ UndoFails(u)

FilesNext ==
    \/ \E u \in Handlers : Handler(u)
    \/ \E f \in FileIds : StartMultipartUpload(f) \/ UploadPart(f) \/ AbortMultipartUpload(f)
    \/ Crash

FilesSpec == FilesInit /\ [][FilesNext]_filesVars

-----------------------------------------------------------------------------
\* PresignDownload: a URL for whatever has a row.
PresignDownload(id) == IF id \in records THEN "url" ELSE "not found"

\* The attachment GetAvatarThumbURL hands out: the thumbnail, or else the file.
AvatarThumb == IF thumb[avatar] # 0 THEN <<avatar, thumb[avatar]>> ELSE <<avatar, 0>>

\* Every object has its row and every row its object, unless a handler works on
\* the file, or failed or died while it did (the storage and the table are
\* written one after the other by every request).
ObjectsMatchRows ==
    \A id \in Ids : (id \in objects) # (id \in records) => id \in excused \cup AllInHand

\* The URLs of a user's avatar lead to an object, unless the request that set it
\* was told that it failed and deleted what had become the avatar.
AvatarIsThere ==
    avatar # 0 =>
        \/ \A id \in {<<avatar, 0>>, AvatarThumb} : PresignDownload(id) = "url" /\ id \in objects
        \/ avatar \in lostSwaps

\* A user has one avatar: the row of every other is deleted by the request that
\* replaces it, however the requests of the user interleave.
OneAvatar ==
    \A f \in FileIds :
        (kind[f] = "avatar" /\ <<f, 0>> \in records) =>
            \/ f = avatar
            \/ <<f, 0>> \in excused \cup AllInHand
=============================================================================
