-------------------------------- MODULE RagIndex --------------------------------
(* The RAG index of one source: "logmcp rag index" that drops and re-adds the       *)
(* chunks of the source (indexer.go, store.go, cmd/rag.go), which Chunker makes of  *)
(* its files, and queries of the server at the same time (query.go, store.go).      *)
(*                                                                                 *)
(* Redis runs each command of a pipeline by itself, and the indexer may be killed   *)
(* or lose the connection between any two.                                         *)
(* One index runs at a time; keys do not live to see their 30 days end.             *)
EXTENDS Chunker, FiniteSets

CONSTANTS
    Files,       \* the indexable files of the source
    Documents,   \* what a file may hold: sequences of sections
    Sections,    \* the sections that the splitter alone is checked on
    TopK,        \* the number of hits asked for
    MaxEdits,    \* bound: changes of the files
    MaxRuns,     \* bound: runs of the index command
    MaxRefused   \* bound: commands that Redis refuses in one run

ASSUME Assumptions ==
    /\ Documents \subseteq Seq(Seq(Nat)) /\ Sections \subseteq Seq(Nat)
    /\ TopK \in Nat \ {0}
    /\ MaxEdits \in Nat /\ MaxRuns \in Nat /\ MaxRefused \in Nat

--------------------------------------------------------------------------------
PiecesOf == [document \in Documents |-> Pieces(document)]

Text(document, i) == TextOf(document, PiecesOf[document][i])

Absent == {}

\* ChunkMarkdown: the numbers of the chunks, blank pieces left out.
Chunks(document) == {i \in DOMAIN PiecesOf[document] : Text(document, i) # Absent}

Ids == UNION {{<<f, i>> : f \in Files, i \in Chunks(d)} : d \in Documents}

VARIABLES
    docs,      \* docs[f]: what file f holds
    edits,     \* changes so far
    ix,        \* the index command: pc, the files still to walk, the chunk IDs that its
               \* pipeline has yet to delete or to add, the one it is adding, what it
               \* has read from each file, how many commands were refused
    runs,      \* runs of the index command so far
    torn,      \* whether one was interrupted while it dropped the source, or a command
               \* refused on which it depends that metadata can be found
    redis,     \* the vector set, the set of chunk IDs, the metadata by chunk ID
    search     \* a query: pc, hits to look up, results, whether no index ran meanwhile,
               \* whether every hit's metadata could be read

vars == <<docs, edits, ix, runs, torn, redis, search>>

NoId == <<>>

Init ==
    /\ docs \in [Files -> Documents]
    /\ edits = 0
    /\ ix = [pc |-> "idle", todo |-> {}, ids |-> {}, id |-> NoId,
             read |-> [f \in Files |-> <<>>], refused |-> 0]
    /\ runs = 0 /\ torn = FALSE
    /\ redis = [vs |-> {}, idx |-> {}, meta |-> [id \in Ids |-> Absent]]
    /\ search = [pc |-> "idle", hits |-> {}, results |-> {}, quiet |-> FALSE,
                 whole |-> TRUE]

Edit(f, document) ==
    /\ edits < MaxEdits /\ docs[f] # document
    /\ docs' = [docs EXCEPT ![f] = document]
    /\ edits' = edits + 1
    /\ UNCHANGED <<ix, runs, torn, redis, search>>

--------------------------------------------------------------------------------
(* logmcp rag index *)

\* Ollama and Redis have answered.
Start ==
    /\ ix.pc \in {"idle", "done"} /\ runs < MaxRuns
    /\ ix' = [ix EXCEPT !.pc = "drop", !.todo = Files, !.read = [f \in Files |-> <<>>],
                        !.refused = 0]
    /\ runs' = runs + 1
    /\ search' = [search EXCEPT !.quiet = FALSE]
    /\ UNCHANGED <<docs, edits, torn, redis>>

\* SMEMBERS: the pipeline deletes the metadata of what it names.
Drop ==
    /\ ix.pc = "drop"
    /\ ix' = [ix EXCEPT !.pc = "DEL vs", !.ids = redis.idx]
    /\ UNCHANGED <<docs, edits, runs, torn, redis, search>>

Dropping == ix.pc \in {"DEL vs", "DEL idx", "DEL meta"}

\* Mutant of DeleteVectors: the vectors are kept.
KeepVectors ==
    /\ ix.pc = "DEL vs"
    /\ ix' = [ix EXCEPT !.pc = "DEL idx"]
    /\ UNCHANGED <<docs, edits, runs, torn, redis, search>>

DeleteVectors ==
    /\ ix.pc = "DEL vs"
    /\ redis' = [redis EXCEPT !.vs = {}]
    /\ ix' = [ix EXCEPT !.pc = "DEL idx"]
    /\ UNCHANGED <<docs, edits, runs, torn, search>>

\* Mutant of DeleteIds: the set of chunk IDs is kept.
KeepIds ==
    /\ ix.pc = "DEL idx"
    /\ ix' = [ix EXCEPT !.pc = "DEL meta"]
    /\ UNCHANGED <<docs, edits, runs, torn, redis, search>>

DeleteIds ==
    /\ ix.pc = "DEL idx"
    /\ redis' = [redis EXCEPT !.idx = {}]
    /\ ix' = [ix EXCEPT !.pc = "DEL meta"]
    /\ UNCHANGED <<docs, edits, runs, torn, search>>

\* Mutant of DeleteMetadata: the metadata is kept.
KeepMetadata(id) ==
    /\ ix.pc = "DEL meta" /\ id \in ix.ids
    /\ ix' = [ix EXCEPT !.ids = @ \ {id}]
    /\ UNCHANGED <<docs, edits, runs, torn, redis, search>>

\* In the order in which Redis lists the members of the set, which is any.
DeleteMetadata(id) ==
    /\ ix.pc = "DEL meta" /\ id \in ix.ids
    /\ redis' = [redis EXCEPT !.meta[id] = Absent]
    /\ ix' = [ix EXCEPT !.ids = @ \ {id}]
    /\ UNCHANGED <<docs, edits, runs, torn, search>>

ChunkIds(f, document) == {<<f, i>> : i \in Chunks(document)}

\* The next file is read, chunked and embedded, and the pipeline of Add made.
IndexFile(f) ==
    /\ ix.pc = "walk" /\ f \in ix.todo
    /\ ix' = [ix EXCEPT !.pc = "VADD", !.todo = @ \ {f}, !.read[f] = docs[f],
                        !.ids = ChunkIds(f, docs[f])]
    /\ UNCHANGED <<docs, edits, runs, torn, redis, search>>

\* The chunks are added in their order.
ToAdd(id) ==
    /\ ix.pc = "VADD" /\ id \in ix.ids
    /\ \A other \in ix.ids : id[2] <= other[2]

AddVector(id) ==
    /\ ToAdd(id)
    /\ redis' = [redis EXCEPT !.vs = @ \cup {id}]
    /\ ix' = [ix EXCEPT !.pc = "SADD", !.id = id]
    /\ UNCHANGED <<docs, edits, runs, torn, search>>

AddId ==
    /\ ix.pc = "SADD"
    /\ redis' = [redis EXCEPT !.idx = @ \cup {ix.id}]
    /\ ix' = [ix EXCEPT !.pc = "HSET"]
    /\ UNCHANGED <<docs, edits, runs, torn, search>>

AddMetadata ==
    /\ ix.pc = "HSET"
    /\ redis' = [redis EXCEPT !.meta[ix.id] = Text(ix.read[ix.id[1]], ix.id[2])]
    /\ ix' = [ix EXCEPT !.pc = "VADD", !.ids = @ \ {ix.id}, !.id = NoId]
    /\ UNCHANGED <<docs, edits, runs, torn, search>>

Skip(next) == ix' = [next EXCEPT !.refused = @ + 1]

\* Redis refuses a command by itself (no memory, read-only, wrong type): those behind it
\* in the pipeline are carried out, and the run ends with the pipeline's error.
Refuse(id) ==
    /\ ix.refused < MaxRefused
    /\ \/ ix.pc = "DEL vs" /\ Skip([ix EXCEPT !.pc = "DEL idx"])
       \/ ix.pc = "DEL idx" /\ Skip([ix EXCEPT !.pc = "DEL meta"])
       \/ ix.pc = "DEL meta" /\ id \in ix.ids /\ Skip([ix EXCEPT !.ids = @ \ {id}])
       \/ ToAdd(id) /\ Skip([ix EXCEPT !.pc = "SADD", !.id = id])
       \/ ix.pc = "SADD" /\ Skip([ix EXCEPT !.pc = "HSET"])
       \/ ix.pc = "HSET"
             /\ Skip([ix EXCEPT !.pc = "VADD", !.ids = @ \ {ix.id}, !.id = NoId])
    /\ torn' = (torn \/ ix.pc \in {"DEL meta", "SADD"})
    /\ UNCHANGED <<docs, edits, runs, redis, search>>

\* The pipeline has been answered, without an error.
Continue ==
    /\ ix.pc \in {"DEL meta", "VADD"} /\ ix.ids = {} /\ ix.refused = 0
    /\ ix' = [ix EXCEPT !.pc = IF ix.todo = {} THEN "done" ELSE "walk"]
    /\ UNCHANGED <<docs, edits, runs, torn, redis, search>>

\* Redis, Ollama or the file system fails, or the command is killed.
Abort ==
    /\ ix.pc \notin {"idle", "done"}
    /\ torn' = (torn \/ Dropping)
    /\ ix' = [ix EXCEPT !.pc = "idle", !.todo = {}, !.ids = {}, !.id = NoId]
    /\ UNCHANGED <<docs, edits, runs, redis, search>>

--------------------------------------------------------------------------------
(* Store.Search *)

\* VSIM finds the topK nearest chunks: which ones these are depends on the vectors.
Query ==
    /\ search.pc \in {"idle", "done"}
    /\ \E hits \in SUBSET redis.vs :
          /\ Cardinality(hits) <= TopK
          /\ Cardinality(hits) = TopK \/ hits = redis.vs
          /\ search' = [pc |-> "looking", hits |-> hits, results |-> {},
                        quiet |-> ix.pc = "done", whole |-> TRUE]
    /\ UNCHANGED <<docs, edits, ix, runs, torn, redis>>

Result(id) == [id |-> id, text |-> redis.meta[id]]

\* HGETALL's answer: an empty one is no result.
Found(id) == {r \in {Result(id)} : r.text # Absent}

LookUp(id) ==
    /\ search.pc = "looking" /\ id \in search.hits
    /\ search' = [search EXCEPT !.hits = @ \ {id}, !.results = @ \cup Found(id)]
    /\ UNCHANGED <<docs, edits, ix, runs, torn, redis>>

\* HGETALL fails (Redis has gone, or the request has ended): the hit is left out, and
\* the query goes on, without an error in the end.
LookUpFails(id) ==
    /\ search.pc = "looking" /\ id \in search.hits
    /\ search' = [search EXCEPT !.hits = @ \ {id}, !.whole = FALSE]
    /\ UNCHANGED <<docs, edits, ix, runs, torn, redis>>

Answer ==
    /\ search.pc = "looking" /\ search.hits = {}
    /\ search' = [search EXCEPT !.pc = "done"]
    /\ UNCHANGED <<docs, edits, ix, runs, torn, redis>>

--------------------------------------------------------------------------------
Next ==
    \/ \E f \in Files : (\E document \in Documents : Edit(f, document)) \/ IndexFile(f)
    \/ \E id \in Ids : DeleteMetadata(id) \/ AddVector(id) \/ Refuse(id)
    \/ \E id \in Ids : LookUp(id) \/ LookUpFails(id)
    \/ Start \/ Drop \/ DeleteVectors \/ DeleteIds \/ AddId \/ AddMetadata
    \/ Continue \/ Abort
    \/ Query \/ Answer

Spec == Init /\ [][Next]_vars

--------------------------------------------------------------------------------
\* What an index of the documents it has read consists of.
Expected == UNION {ChunkIds(f, ix.read[f]) : f \in Files}

\* After a complete "rag index" the three keys hold the chunks of the documents it read,
\* all of them and nothing from before, however many runs failed before it and wherever.
\* And metadata is never without the ID by which the next Drop finds it, unless a Drop
\* was interrupted, or Redis refused to delete that metadata or to add the ID.
Replaced ==
    /\ ix.pc = "done" =>
          /\ redis.vs = Expected
          /\ redis.idx = Expected
          /\ \A id \in Expected : redis.meta[id] = Text(ix.read[id[1]], id[2])
    /\ (~torn /\ ~Dropping) =>
          \A id \in Ids : redis.meta[id] # Absent => id \in redis.idx

\* A query that no index overlaps, after a complete one, shows chunks of the documents
\* with their current text; it gets topK of them, or all there are, if the metadata of
\* every hit could be read: then none is dropped for want of metadata.
QuietSearchExact ==
    (search.pc = "done" /\ search.quiet) =>
        /\ \A r \in search.results :
              r.id \in Expected /\ r.text = Text(ix.read[r.id[1]], r.id[2])
        /\ search.whole =>
              Cardinality(search.results)
                  = IF Cardinality(Expected) < TopK THEN Cardinality(Expected) ELSE TopK

SectionsExact == \A section \in Sections : SplitExact(section)

\* No text is lost on the way into chunks and none comes twice: within a section, and
\* over a document, every paragraph of which is in its chunks, in the order of the
\* document; one that is no longer than a chunk is whole in one of them.
NothingLost ==
    /\ SectionsExact
    /\ \A f \in Files :
          LET document == docs[f]
          IN  /\ \A s \in DOMAIN document : \A p \in Written(document[s]) :
                    \E i \in Chunks(document) : \E para \in Text(document, i) :
                        /\ para[1] = s /\ para[2] = p
                        /\ ~Oversized(document[s], p) => para[3] = document[s][p]
              /\ \A i, j \in Chunks(document) : i < j =>
                    \A para \in Text(document, i), other \in Text(document, j) :
                        Before(para, other)

--------------------------------------------------------------------------------
(* What the documents and comments of the repository say, and the code does not do *)

\* chunk.go: maxChunkRunes is the maximum size of a chunk sent to the embedding model.
ChunksBounded ==
    ix.pc = "VADD" =>
        \A id \in ix.ids :
            LET document == ix.read[id[1]]
                piece == PiecesOf[document][id[2]]
            IN  Length(TextOfPiece(document[piece.section], piece.paras)) <= MaxChunk

\* query.go: Search returns the topK most relevant chunks (or an error).
TopKReturned ==
    (search.pc = "done" /\ search.quiet) =>
        \/ Cardinality(search.results) = TopK
        \/ {r.id : r \in search.results} = Expected
================================================================================
