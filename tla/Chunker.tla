------------------------------ MODULE Chunker ------------------------------
(***************************************************************************)
(* ContentChunker: content cut into chunks with a hash each, a manifest of *)
(* them, and the two ways to put chunks together again after they have     *)
(* been in other hands.  Bytes are members of a small set; the hash of     *)
(* some data is the data, marked as a hash.                                *)
(***************************************************************************)
EXTENDS Integers, Sequences

CONSTANTS
    Octets,     \* byte values
    MaxLength,  \* bound: length of the content
    ChunkSizes, \* chunk sizes, DEFAULT_CHUNK_SIZE in the code
    MaxHandling \* bound: changes to the chunks under way

VARIABLES
    content,    \* the content as it was chunked
    chunkSize,
    received,   \* the chunks that arrive
    handled,    \* number of changes made to them
    resealed    \* history: some change was made by who can compute hashes

chunkerVars == <<content, chunkSize, received, handled, resealed>>

Hash(data) == [hash_of |-> data]

----------------------------------------------------------------------------
\* data.chunks(cs): pieces of cs bytes, the last one with the remainder.
ChunkWithSize(data, cs) ==
    LET count == (Len(data) + cs - 1) \div cs
        Piece(i) == SubSeq(data, (i - 1) * cs + 1,
                           IF i * cs < Len(data) THEN i * cs ELSE Len(data))
    IN  [i \in 1 .. count |->
           [index |-> i - 1, hash |-> Hash(Piece(i)), data |-> Piece(i)]]

ManifestWithSize(data, cs) ==
    LET chunks == ChunkWithSize(data, cs)
    IN  [content_hash |-> Hash(data), total_size |-> Len(data),
         chunk_count |-> Len(chunks), chunk_size |-> cs]

Joined(chunks) ==
    LET F[i \in 0 .. Len(chunks)] ==
          IF i = 0 THEN <<>> ELSE F[i - 1] \o chunks[i].data
    IN  F[Len(chunks)]

Refused == [ok |-> FALSE, data |-> <<>>]

Reassemble(chunks) ==
    IF \A i \in DOMAIN chunks :
         chunks[i].index = i - 1 /\ chunks[i].hash = Hash(chunks[i].data)
    THEN [ok |-> TRUE, data |-> Joined(chunks)]
    ELSE Refused

\* Mutant: the chunks are checked against the manifest's count alone.
MutReassembleWithManifest(chunks, manifest) ==
    IF Len(chunks) # manifest.chunk_count THEN Refused ELSE Reassemble(chunks)

ReassembleWithManifest(chunks, manifest) ==
    LET whole == Reassemble(chunks) IN
    IF Len(chunks) = manifest.chunk_count /\ whole.ok
         /\ Hash(whole.data) = manifest.content_hash
    THEN whole
    ELSE Refused

----------------------------------------------------------------------------
ChunkerInit ==
    /\ content \in UNION {[1 .. n -> Octets] : n \in 0 .. MaxLength}
    /\ chunkSize \in ChunkSizes
    /\ received = ChunkWithSize(content, chunkSize)
    /\ handled = 0 /\ resealed = FALSE

Handle(chunks, knowingly) ==
    /\ handled < MaxHandling
    /\ handled' = handled + 1
    /\ received' = chunks
    /\ resealed' = (resealed \/ knowingly)
    /\ UNCHANGED <<content, chunkSize>>

Lose(i) ==
    Handle([j \in 1 .. Len(received) - 1 |->
              IF j < i THEN received[j] ELSE received[j + 1]], FALSE)

Repeat(i) == Handle(SubSeq(received, 1, i) \o SubSeq(received, i, Len(received)), FALSE)

Swap(i, j) ==
    Handle([received EXCEPT ![i] = received[j], ![j] = received[i]], FALSE)

Corrupt(i, k, o) == Handle([received EXCEPT ![i].data[k] = o], FALSE)

Renumber(i, n) == Handle([received EXCEPT ![i].index = n], TRUE)

\* Other data under a hash that fits it.
Reseal(i, k, o) ==
    LET other == [received[i].data EXCEPT ![k] = o]
    IN  Handle([received EXCEPT ![i].data = other, ![i].hash = Hash(other)], TRUE)

ChunkerNext ==
    \/ \E i \in DOMAIN received : Lose(i) \/ Repeat(i)
    \/ \E i, j \in DOMAIN received : i < j /\ Swap(i, j)
    \/ \E i \in DOMAIN received : \E k \in DOMAIN received[i].data : \E o \in Octets :
          Corrupt(i, k, o) \/ Reseal(i, k, o)
    \/ \E i \in DOMAIN received : \E n \in 0 .. MaxLength : Renumber(i, n)

----------------------------------------------------------------------------
\* With the manifest, whatever is put together is the content, whoever changed
\* the chunks and however; and untouched chunks are accepted.
AcceptedIsContent ==
    LET r == ReassembleWithManifest(received, ManifestWithSize(content, chunkSize))
    IN  /\ r.ok => r.data = content
        /\ handled = 0 => r.ok

=============================================================================
