------------------------------ MODULE MCContent ------------------------------
(* The content of posts at one node, for TLC: the rows and blobs of posts,     *)
(* their media, the chunks of media under way, the files of the content store, *)
(* the checks that let a post in, the text filter, or the reports on posts.    *)
(* The initial state chooses; the parts share no state.                        *)
EXTENDS PostStore, Media, Chunker, BlobStore, Admission, TextFilter, Moderation

CONSTANTS l1, r1, photo, clip, film

VARIABLE part

MCTtl == [p \in Posts |-> 2]
MCClocks == 0 .. 2

\* Bound: one post at a time is in play.
OnePost == Cardinality(published \cup blobs \cup everTomb) <= 1

\* photo and film share a chunk, film has it twice; the videos share a thumbnail.
MCBytes == [f \in Files |-> CASE f = photo -> <<"A", "B">>
                              [] f = clip -> <<"C">>
                              [] OTHER -> <<"B", "B">>]
MCDims == [f \in Files |-> "wide"]

\* Two texts of the same words and one apart.
MCBodies == [b \in {"ab", "ba", "other"} |->
               CASE b = "ab" -> <<"a", "b">> [] b = "ba" -> <<"b", "a", "a">>
                 [] OTHER -> <<"c">>]
MCTokenBits == [w \in {"a", "b", "c"} |->
                  CASE w = "a" -> {1, 2} [] w = "b" -> {1, 3} [] OTHER -> {2, 3, 4}]
MCWidth == [ch \in Characters |-> IF ch \in Other THEN 2 ELSE 1]

ContentParts ==
    {"posts", "media", "chunks", "blobs", "admission", "text", "reports"}

otherVars == <<mediaVars, chunkerVars, storeVars, admissionVars, text, moderationVars>>

ContentInit ==
    /\ part \in ContentParts
    /\ Init /\ MediaInit /\ ChunkerInit /\ StoreInit /\ AdmissionInit /\ TextInit
    /\ ModerationInit
    /\ part # "chunks" => content = <<>> /\ chunkSize = 1

Posts1 == part = "posts" /\ Next /\ UNCHANGED <<part, otherVars>>
Media1 == part = "media" /\ MediaNext
          /\ UNCHANGED <<part, vars, chunkerVars, storeVars, admissionVars, text,
                         moderationVars>>
Chunks1 == part = "chunks" /\ ChunkerNext
           /\ UNCHANGED <<part, vars, mediaVars, storeVars, admissionVars, text,
                          moderationVars>>
Blobs1 == part = "blobs" /\ StoreNext
          /\ UNCHANGED <<part, vars, mediaVars, chunkerVars, admissionVars, text,
                         moderationVars>>
Admission1 == part = "admission" /\ AdmissionNext
              /\ UNCHANGED <<part, vars, mediaVars, chunkerVars, storeVars, text,
                             moderationVars>>
Text1 == part = "text" /\ TextNext
         /\ UNCHANGED <<part, vars, mediaVars, chunkerVars, storeVars, admissionVars,
                        moderationVars>>
Reports1 == part = "reports" /\ ModerationNext
            /\ UNCHANGED <<part, vars, mediaVars, chunkerVars, storeVars,
                           admissionVars, text>>

ContentSpec ==
    /\ ContentInit
    /\ [][Posts1 \/ Media1 \/ Chunks1 \/ Blobs1 \/ Admission1 \/ Text1 \/ Reports1]_<<part,
            vars, otherVars>>
==============================================================================
