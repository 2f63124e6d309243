------------------------------- MODULE Media -------------------------------
(***************************************************************************)
(* The photos and videos of posts at the node that authors them: the rows  *)
(* of media_attachments and media_chunks, the thumbnails in the content    *)
(* store, and the three activities that write them:                        *)
(*   - PostService::create, which inserts the row of the post and then     *)
(*     stores file after file, chunk after chunk, one statement each       *)
(*   - PostService::delete                                                 *)
(*   - the sweep, which removes the media of the posts it has selected     *)
(* All three, and the handlers that serve media, hold the mutex of         *)
(* metadata_db throughout, so they do not interleave; but no transaction   *)
(* spans two statements, and an error or a crash leaves what was written.  *)
(* The author is one that create's reputation check lets attach media, as  *)
(* in tests/media_pipeline.rs.                                             *)
(***************************************************************************)
EXTENDS Integers, Sequences, FiniteSets

CONSTANTS
    MediaPosts,   \* posts with media
    Files,        \* files, one for each processed content
    Mp4,          \* those that start with an ftyp box
    ValidFiles,   \* those that pass validate_video or validate_media
    Bytes,        \* Bytes[f]: the processed bytes as their sequence of chunks
    Dims,         \* Dims[f]: width and height of a video
    MaxFiles,     \* bound: files of a post
    MaxMishaps,   \* bound: failed statements and crashes
    NoPost

\* No file that passes is empty: validation wants at least the magic bytes.
ASSUME MediaAssumption == \A f \in Files : Len(Bytes[f]) \in Nat \ {0}

VARIABLES
    postRow,      \* posts.is_tombstone: none, live or tomb
    attached,     \* rows of media_attachments
    chunkRows,    \* rows of media_chunks
    thumbs,       \* thumbnails in the content store
    storing,      \* create between two statements
    clearing,     \* the sweep between two statements
    expiredPosts, \* posts whose expires_at has passed
    answeredOk,   \* posts whose create answered Ok
    filesOf,      \* history: the files create was called with
    careless,     \* history: posts swept with a failed statement
    swept,        \* history: posts the sweep has marked
    mishaps

mediaRows == <<attached, chunkRows, thumbs>>
mediaHistory == <<answeredOk, filesOf, careless, swept>>
mediaVars == <<postRow, mediaRows, storing, clearing, expiredPosts,
               mediaHistory, mishaps>>

----------------------------------------------------------------------------
\* The pipeline: what becomes of a file.

\* A video gets a grey placeholder that depends on its dimensions alone.
ProcessVideo(f) == [ok |-> f \in ValidFiles, thumb |-> <<"placeholder", Dims[f]>>]

ProcessImage(f) == [ok |-> f \in ValidFiles, thumb |-> <<"scaled", f>>]

ProcessAuto(f) == IF f \in Mp4 THEN ProcessVideo(f) ELSE ProcessImage(f)

\* "{content_hash}-{attachment_index}"
MediaId(f, i) == <<f, i>>

Attachment(p, f, i) ==
    [id |-> MediaId(f, i), post |-> p, thumb |-> ProcessAuto(f).thumb,
     chunk_count |-> Len(Bytes[f])]

----------------------------------------------------------------------------
\* Queries.

GetAttachment(id) == {a \in attached : a.id = id}

ListForPost(p) == {a \in attached : a.post = p}

\* ORDER BY chunk_index
ListChunks(id) ==
    LET own == {c \in chunkRows : c.media_id = id}
    IN  CHOOSE s \in [1 .. Cardinality(own) -> own] :
          \A i, j \in DOMAIN s : i < j => s[i].chunk_index < s[j].chunk_index

\* The bytes serve_media answers with, without a look at chunk_count.
ServeMedia(id) ==
    LET rows == ListChunks(id) IN [i \in DOMAIN rows |-> rows[i].chunk_hash]

ServeThumbnail(id) == \E a \in GetAttachment(id) : a.thumb \in thumbs

----------------------------------------------------------------------------
NotStoring == [post |-> NoPost, file |-> 1, chunk |-> 1, pc |-> "idle"]
NotClearing == [pc |-> "idle", batch |-> {}, todo |-> {}, at |-> NoPost]

MediaInit ==
    /\ postRow = [p \in MediaPosts |-> "none"]
    /\ attached = {} /\ chunkRows = {} /\ thumbs = {}
    /\ storing = NotStoring /\ clearing = NotClearing
    /\ expiredPosts = {} /\ answeredOk = {}
    /\ filesOf = [p \in MediaPosts |-> <<>>]
    /\ careless = {} /\ swept = {}
    /\ mishaps = 0

MutexFree == storing.pc = "idle" /\ clearing.pc = "idle"

\* The file and the chunk at which create is.
File == filesOf[storing.post][storing.file]
Id == MediaId(File, storing.file)

\* create processes every file before it writes: one that is refused ends it.
CreateWithMedia(p, fs) ==
    /\ MutexFree /\ postRow[p] = "none" /\ filesOf[p] = <<>>
    /\ \A i \in DOMAIN fs : ProcessAuto(fs[i]).ok
    /\ postRow' = [postRow EXCEPT ![p] = "live"]
    /\ filesOf' = [filesOf EXCEPT ![p] = fs]
    /\ storing' = [NotStoring EXCEPT !.post = p, !.pc = "thumbnail"]
    /\ UNCHANGED <<mediaRows, clearing, expiredPosts, answeredOk, careless, swept,
                   mishaps>>

PutThumbnail ==
    /\ storing.pc = "thumbnail"
    /\ thumbs' = thumbs \cup {ProcessAuto(File).thumb}
    /\ storing' = [storing EXCEPT !.pc = "row"]
    /\ UNCHANGED <<postRow, attached, chunkRows, clearing, expiredPosts,
                   mediaHistory, mishaps>>

\* id is the primary key: the statement fails when the row exists.
InsertAttachment ==
    /\ storing.pc = "row"
    /\ IF GetAttachment(Id) = {}
       THEN /\ attached' = attached \cup {Attachment(storing.post, File, storing.file)}
            /\ storing' = [storing EXCEPT !.pc = "chunk"]
       ELSE storing' = NotStoring /\ UNCHANGED attached
    /\ UNCHANGED <<postRow, chunkRows, thumbs, clearing, expiredPosts,
                   mediaHistory, mishaps>>

\* After the last chunk the next file, after the last file Ok.
StoredOne ==
    CASE storing.chunk < Len(Bytes[File]) ->
           /\ storing' = [storing EXCEPT !.chunk = @ + 1] /\ UNCHANGED answeredOk
      [] storing.chunk = Len(Bytes[File]) /\ storing.file < Len(filesOf[storing.post]) ->
           /\ storing' = [storing EXCEPT !.file = @ + 1, !.chunk = 1, !.pc = "thumbnail"]
           /\ UNCHANGED answeredOk
      [] OTHER ->
           storing' = NotStoring /\ answeredOk' = answeredOk \cup {storing.post}

ChunkRow ==
    [chunk_hash |-> Bytes[File][storing.chunk], media_id |-> Id,
     chunk_index |-> storing.chunk - 1]

\* Mutant: INSERT OR IGNORE.
MutInsertChunk ==
    /\ storing.pc = "chunk"
    /\ chunkRows' = IF \E c \in chunkRows : c.chunk_hash = ChunkRow.chunk_hash
                    THEN chunkRows ELSE chunkRows \cup {ChunkRow}
    /\ StoredOne
    /\ UNCHANGED <<postRow, attached, thumbs, clearing, expiredPosts, filesOf,
                   careless, swept, mishaps>>

\* chunk_hash alone is the primary key.
InsertChunk ==
    /\ storing.pc = "chunk"
    /\ IF \E c \in chunkRows : c.chunk_hash = ChunkRow.chunk_hash
       THEN storing' = NotStoring /\ UNCHANGED <<chunkRows, answeredOk>>
       ELSE chunkRows' = chunkRows \cup {ChunkRow} /\ StoredOne
    /\ UNCHANGED <<postRow, attached, thumbs, clearing, expiredPosts, filesOf,
                   careless, swept, mishaps>>

\* A put or a statement fails: create answers with the error.
StoreFails ==
    /\ storing.pc # "idle" /\ mishaps < MaxMishaps
    /\ storing' = NotStoring
    /\ mishaps' = mishaps + 1
    /\ UNCHANGED <<postRow, mediaRows, clearing, expiredPosts, mediaHistory>>

DeletePost(p) ==
    /\ MutexFree /\ postRow[p] = "live"
    /\ postRow' = [postRow EXCEPT ![p] = "tomb"]
    /\ UNCHANGED <<mediaRows, storing, clearing, expiredPosts, mediaHistory, mishaps>>

Expire(p) ==
    /\ postRow[p] = "live" /\ p \notin expiredPosts
    /\ expiredPosts' = expiredPosts \cup {p}
    /\ UNCHANGED <<postRow, mediaRows, storing, clearing, mediaHistory, mishaps>>

----------------------------------------------------------------------------
\* Phase 1 of the sweep.

SelectExpired ==
    LET due == {p \in expiredPosts : postRow[p] = "live"} IN
    /\ MutexFree /\ due # {}
    /\ clearing' = [pc |-> "next", batch |-> due, todo |-> due, at |-> NoPost]
    /\ UNCHANGED <<postRow, mediaRows, storing, expiredPosts, mediaHistory, mishaps>>

\* The results of the three statements are ignored: each may change nothing.
Ignoring(works) ==
    \/ works /\ UNCHANGED <<careless, mishaps>>
    \/ /\ mishaps < MaxMishaps /\ mishaps' = mishaps + 1
       /\ careless' = careless \cup {clearing'.at}
       /\ UNCHANGED mediaRows

DeleteChunks(p) ==
    /\ clearing.pc = "next" /\ p \in clearing.todo
    /\ clearing' = [clearing EXCEPT !.pc = "thumbs", !.at = p, !.todo = @ \ {p}]
    /\ Ignoring(/\ chunkRows' = {c \in chunkRows :
                                   c.media_id \notin {a.id : a \in ListForPost(p)}}
                /\ UNCHANGED <<attached, thumbs>>)
    /\ UNCHANGED <<postRow, storing, expiredPosts, answeredOk, filesOf, swept>>

DeleteThumbs ==
    /\ clearing.pc = "thumbs"
    /\ clearing' = [clearing EXCEPT !.pc = "rows"]
    /\ Ignoring(/\ thumbs' = thumbs \ {a.thumb : a \in ListForPost(clearing.at)}
                /\ UNCHANGED <<attached, chunkRows>>)
    /\ UNCHANGED <<postRow, storing, expiredPosts, answeredOk, filesOf, swept>>

\* Mutant: the schema without ON DELETE CASCADE.
MutDeleteAttachments ==
    /\ clearing.pc = "rows"
    /\ clearing' = [clearing EXCEPT !.pc = "next"]
    /\ Ignoring(/\ attached' = attached \ ListForPost(clearing.at)
                /\ UNCHANGED <<chunkRows, thumbs>>)
    /\ UNCHANGED <<postRow, storing, expiredPosts, answeredOk, filesOf, swept>>

\* media_chunks.media_id is ON DELETE CASCADE, and foreign_keys is ON.
DeleteAttachments ==
    /\ clearing.pc = "rows"
    /\ clearing' = [clearing EXCEPT !.pc = "next"]
    /\ Ignoring(/\ attached' = attached \ ListForPost(clearing.at)
                /\ chunkRows' = {c \in chunkRows : \E a \in attached' : a.id = c.media_id}
                /\ UNCHANGED thumbs)
    /\ UNCHANGED <<postRow, storing, expiredPosts, answeredOk, filesOf, swept>>

MarkBatch ==
    /\ clearing.pc = "next" /\ clearing.todo = {}
    /\ postRow' = [p \in MediaPosts |-> IF p \in clearing.batch THEN "tomb" ELSE postRow[p]]
    /\ swept' = swept \cup clearing.batch
    /\ clearing' = NotClearing
    /\ UNCHANGED <<mediaRows, storing, expiredPosts, answeredOk, filesOf, careless, mishaps>>

\* The process ends between two statements; nothing is rolled back.
NodeCrash ==
    /\ ~MutexFree /\ mishaps < MaxMishaps
    /\ storing' = NotStoring /\ clearing' = NotClearing
    /\ mishaps' = mishaps + 1
    /\ UNCHANGED <<postRow, mediaRows, expiredPosts, mediaHistory>>

FileLists == UNION {[1 .. n -> Files] : n \in 1 .. MaxFiles}

MediaNext ==
    \/ \E p \in MediaPosts : \E fs \in FileLists : CreateWithMedia(p, fs)
    \/ PutThumbnail \/ InsertAttachment \/ InsertChunk \/ StoreFails
    \/ \E p \in MediaPosts : DeletePost(p) \/ Expire(p) \/ DeleteChunks(p)
    \/ SelectExpired \/ DeleteThumbs \/ DeleteAttachments \/ MarkBatch
    \/ NodeCrash

MediaSpec == MediaInit /\ [][MediaNext]_mediaVars

----------------------------------------------------------------------------
\* A post whose create answered Ok, neither deleted nor expired.
OnShow == {p \in answeredOk : postRow[p] = "live" /\ p \notin expiredPosts}

\* What create accepted is what serve_media answers: as long as the post is
\* neither deleted nor expired, every file of it comes back whole and in
\* order, whatever else was stored, failed, swept or interrupted, and although
\* equal chunks of two files share one primary key.
StoredIsWhole ==
    \A p \in OnShow : \A i \in DOMAIN filesOf[p] :
       /\ \E a \in GetAttachment(MediaId(filesOf[p][i], i)) : a.post = p
       /\ ServeMedia(MediaId(filesOf[p][i], i)) = Bytes[filesOf[p][i]]

\* serve_thumbnail finds the thumbnail of every such file, unless another post
\* has media with the same thumbnail: blobs are not counted, so the sweep of one
\* post takes the thumbnail from the other.
ThumbnailKept ==
    \A p \in OnShow : \A i \in DOMAIN filesOf[p] :
       \/ ServeThumbnail(MediaId(filesOf[p][i], i))
       \/ \E q \in MediaPosts \ {p} : \E j \in DOMAIN filesOf[q] :
             ProcessAuto(filesOf[q][j]).thumb = ProcessAuto(filesOf[p][i]).thumb

\* The sweep leaves nothing of the media of a post that it has marked, also when
\* an earlier sweep was cut short, unless one of its statements failed: no later
\* sweep comes back to a marked post.
SweptMediaGone ==
    \A p \in swept \ careless :
       /\ ListForPost(p) = {}
       /\ \A c \in chunkRows : \E a \in attached : a.id = c.media_id /\ a.post # p

\* No chunk outlives its attachment, also when the statement that deletes the
\* chunks of a post failed and the next one went through.
ChunksHaveOwner == \A c \in chunkRows : GetAttachment(c.media_id) # {}
=============================================================================
