----------------------------- MODULE RagIndexProofs -----------------------------
(* Theorems about RagIndex: for all files, documents and numbers of hits, a        *)
(* complete index replaces whatever failed ones left behind; a query that none      *)
(* overlaps shows what was indexed, and loses no hit for want of metadata; and the   *)
(* chunks of a file are its text.                                                   *)
EXTENDS RagIndex, FiniteSetTheorems, SequenceTheorems, WellFoundedInduction, TLAPS

Texts == {Absent} \cup UNION {{Text(d, i) : i \in Chunks(d)} : d \in Documents}

Pcs == {"idle", "drop", "DEL vs", "DEL idx", "DEL meta", "walk", "VADD", "SADD", "HSET", "done"}

Index == [pc : Pcs, todo : SUBSET Files, ids : SUBSET Ids, id : Ids \cup {NoId},
          read : [Files -> Documents \cup {<<>>}], refused : Nat]

Store == [vs : SUBSET Ids, idx : SUBSET Ids, meta : [Ids -> Texts]]

\* The types of the files, of the index run and of the keys.
TypeOK ==
    /\ docs \in [Files -> Documents]
    /\ ix \in Index
    /\ redis \in Store

--------------------------------------------------------------------------------
(* What an index run has done so far *)

Walking == ix.pc \in {"walk", "VADD", "SADD", "HSET", "done"}

Walked == Files \ ix.todo

\* The chunks of the files read so far, less those that the pipeline has yet to add.
Added(id) ==
    /\ \E f \in Walked : id \in ChunkIds(f, ix.read[f])
    /\ id \notin ix.ids

\* While one chunk is added it may be among the vectors, and the IDs, already.
InVectors(id) == Added(id) \/ (ix.pc \in {"SADD", "HSET"} /\ id = ix.id)

InIds(id) == Added(id) \/ (ix.pc = "HSET" /\ id = ix.id)

CurrentText(id) == Text(ix.read[id[1]], id[2])

Reading ==
    /\ \A f \in Walked : Walking => ix.read[f] \in Documents
    /\ Walking => \A id \in ix.ids : \E f \in Walked : id \in ChunkIds(f, ix.read[f])
    /\ ix.pc \in {"SADD", "HSET"} => ix.id \in ix.ids
    /\ ix.pc \in {"idle", "drop", "walk", "done"} => ix.ids = {}
    /\ ix.pc \in {"drop", "DEL vs", "DEL idx", "DEL meta"} => ix.todo = Files
    /\ ix.pc = "done" => ix.todo = {}
    /\ ix.pc \in {"drop", "walk", "done"} => ix.refused = 0

\* While Redis has refused no command of the run, the three keys hold what has been
\* added in it, and nothing else.
Content ==
    ix.refused = 0 =>
        /\ Walking =>
              \A id \in Ids :
                  /\ id \in redis.vs <=> InVectors(id)
                  /\ id \in redis.idx <=> InIds(id)
                  /\ Added(id) => redis.meta[id] = CurrentText(id)
        /\ ix.pc \in {"DEL idx", "DEL meta"} => redis.vs = {}
        /\ ix.pc = "DEL meta" => redis.idx = {}

\* Metadata can be found by its ID, by the Drop that has read the IDs or by the next one.
Reachable ==
    ~torn =>
        /\ \A id \in Ids :
              redis.meta[id] # Absent => id \in (IF Dropping THEN ix.ids ELSE redis.idx)
        /\ ix.pc = "HSET" => ix.id \in redis.idx

IInv == TypeOK /\ Reading /\ Content /\ Reachable

--------------------------------------------------------------------------------
\* The IDs of a document's chunks are IDs.
LEMMA IdsOfChunks ==
    ASSUME NEW f \in Files, NEW d \in Documents
    PROVE  ChunkIds(f, d) \subseteq Ids
  BY DEF ChunkIds, Ids

\* Chunks have a text: blank pieces are left out.
LEMMA ChunksHaveText ==
    ASSUME NEW d \in Documents, NEW i \in Chunks(d)
    PROVE  Text(d, i) \in Texts /\ Text(d, i) # Absent
<1>1. Text(d, i) # Absent
  BY DEF Chunks, Text, Absent
<1>2. Text(d, i) \in Texts
  BY DEF Texts
<1> QED
  BY <1>1, <1>2

\* The text of a chunk that an index has read is the one of its document.
LEMMA ReadChunk ==
    ASSUME TypeOK, Reading, Walking,
           NEW f \in Walked, NEW id \in ChunkIds(f, ix.read[f])
    PROVE  CurrentText(id) \in Texts /\ CurrentText(id) # Absent /\ id \in Ids
<1>1. PICK i \in Chunks(ix.read[f]) : id = <<f, i>>
  BY DEF ChunkIds
<1>2. id[1] = f /\ id[2] = i
  BY <1>1
<1>3. ix.read[f] \in Documents /\ f \in Files
  BY DEF Reading, Walked
<1> QED
  BY <1>1, <1>2, <1>3, ChunksHaveText, IdsOfChunks DEF CurrentText

\* The empty keys are in step with no run.
LEMMA InitIndex == ASSUME Init PROVE IInv
<1>1. ix \in Index
  BY DEF Init, Index, Pcs
<1>2. redis \in Store
  BY DEF Init, Store, Texts
<1>3. Reading /\ Content
  BY DEF Init, Reading, Content, Walking
<1>4. Reachable
  BY DEF Init, Reachable
<1> QED
  BY <1>1, <1>2, <1>3, <1>4 DEF Init, TypeOK, IInv

\* One more is not none.
LEMMA SuccessorIsPositive == \A k \in Nat : k + 1 \in Nat /\ k + 1 # 0
  OBVIOUS

\* What a refused command does: the run goes on behind it, and the keys stay.
LEMMA RefuseSteps ==
    ASSUME TypeOK, NEW id \in Ids, Refuse(id)
    PROVE  /\ ix'.refused # 0 /\ ix'.todo = ix.todo /\ ix'.read = ix.read
           /\ redis' = redis /\ docs' = docs /\ search' = search
           /\ torn' = (torn \/ ix.pc \in {"DEL meta", "SADD"})
           /\ ix' \in Index
           /\ \/ ix.pc = "DEL vs" /\ ix'.pc = "DEL idx" /\ ix'.ids = ix.ids /\ ix'.id = ix.id
              \/ ix.pc = "DEL idx" /\ ix'.pc = "DEL meta" /\ ix'.ids = ix.ids /\ ix'.id = ix.id
              \/ ix.pc = "DEL meta" /\ ix'.pc = "DEL meta" /\ ix'.ids = ix.ids \ {id}
                    /\ ix'.id = ix.id
              \/ ix.pc = "VADD" /\ ix'.pc = "SADD" /\ ix'.ids = ix.ids /\ ix'.id = id
                    /\ id \in ix.ids
              \/ ix.pc = "SADD" /\ ix'.pc = "HSET" /\ ix'.ids = ix.ids /\ ix'.id = ix.id
              \/ ix.pc = "HSET" /\ ix'.pc = "VADD" /\ ix'.ids = ix.ids \ {ix.id} /\ ix'.id = NoId
<1> USE DEF TypeOK, Index, Skip, Pcs
<1>1. /\ redis' = redis /\ docs' = docs /\ search' = search
      /\ torn' = (torn \/ ix.pc \in {"DEL meta", "SADD"})
  BY DEF Refuse
<1>2. ASSUME NEW next \in Index, Skip(next)
      PROVE  /\ ix' \in Index /\ ix'.refused # 0 /\ ix'.pc = next.pc /\ ix'.todo = next.todo
             /\ ix'.ids = next.ids /\ ix'.id = next.id /\ ix'.read = next.read
  <2>1. next.refused \in Nat
    OBVIOUS
  <2>2. PICK n : n = next.refused + 1
    OBVIOUS
  <2>3. n \in Nat /\ n # 0
    BY <2>1, <2>2, SuccessorIsPositive, Zenon
  <2>4. ix' = [next EXCEPT !.refused = n]
    BY <1>2, <2>2, Zenon
  <2> HIDE DEF Skip
  <2> QED
    BY <2>3, <2>4
<1> HIDE DEF Skip
<1>3. CASE ix.pc = "DEL vs" /\ Skip([ix EXCEPT !.pc = "DEL idx"])
  <2>1. PICK next \in Index : next = [ix EXCEPT !.pc = "DEL idx"]
    BY <1>3
  <2> QED
    BY <1>1, <1>2, <1>3, <2>1
<1>4. CASE ix.pc = "DEL idx" /\ Skip([ix EXCEPT !.pc = "DEL meta"])
  <2>1. PICK next \in Index : next = [ix EXCEPT !.pc = "DEL meta"]
    BY <1>4
  <2> QED
    BY <1>1, <1>2, <1>4, <2>1
<1>5. CASE ix.pc = "DEL meta" /\ Skip([ix EXCEPT !.ids = @ \ {id}])
  <2>1. PICK next \in Index : next = [ix EXCEPT !.ids = @ \ {id}]
    BY <1>5
  <2> QED
    BY <1>1, <1>2, <1>5, <2>1
<1>6. CASE ToAdd(id) /\ Skip([ix EXCEPT !.pc = "SADD", !.id = id])
  <2>1. PICK next \in Index : next = [ix EXCEPT !.pc = "SADD", !.id = id]
    BY <1>6 DEF ToAdd
  <2> QED
    BY <1>1, <1>2, <1>6, <2>1 DEF ToAdd
<1>7. CASE ix.pc = "SADD" /\ Skip([ix EXCEPT !.pc = "HSET"])
  <2>1. PICK next \in Index : next = [ix EXCEPT !.pc = "HSET"]
    BY <1>7
  <2> QED
    BY <1>1, <1>2, <1>7, <2>1
<1>8. CASE /\ ix.pc = "HSET"
           /\ Skip([ix EXCEPT !.pc = "VADD", !.ids = @ \ {ix.id}, !.id = NoId])
  <2>1. PICK next \in Index : next = [ix EXCEPT !.pc = "VADD", !.ids = @ \ {ix.id}, !.id = NoId]
    BY <1>8
  <2> QED
    BY <1>1, <1>2, <1>8, <2>1
<1> QED
  BY <1>3, <1>4, <1>5, <1>6, <1>7, <1>8 DEF Refuse

\* Every step keeps the types; what HSET stores is the text of a chunk that was read.
LEMMA NextTypes == ASSUME IInv, [Next]_vars PROVE TypeOK'
<1> USE DEF TypeOK, Index, Pcs, Store
<1>1. ASSUME NEW f \in Files, NEW d \in Documents, Edit(f, d) PROVE TypeOK'
  BY <1>1 DEF Edit, IInv
<1>2. CASE Start
  BY <1>2 DEF Start, IInv
<1>3. CASE Drop
  BY <1>3 DEF Drop, IInv
<1>4. CASE DeleteVectors
  BY <1>4 DEF DeleteVectors, IInv
<1>5. CASE DeleteIds
  BY <1>5 DEF DeleteIds, IInv
<1>6. ASSUME NEW id \in Ids, DeleteMetadata(id) PROVE TypeOK'
  BY <1>6 DEF DeleteMetadata, Texts, IInv
<1>7. ASSUME NEW f \in Files, IndexFile(f) PROVE TypeOK'
  BY <1>7, IdsOfChunks DEF IndexFile, IInv
<1>8. ASSUME NEW id \in Ids, AddVector(id) PROVE TypeOK'
  BY <1>8 DEF AddVector, ToAdd, IInv
<1>9. CASE AddId
  BY <1>9 DEF AddId, IInv, Reading
<1>10. CASE AddMetadata
  <2>1. PICK f \in Walked : ix.id \in ChunkIds(f, ix.read[f])
    BY <1>10 DEF AddMetadata, IInv, Reading, Walking
  <2>2. CurrentText(ix.id) \in Texts
    BY <1>10, <2>1, ReadChunk DEF AddMetadata, IInv, Walking
  <2>3. [redis.meta EXCEPT ![ix.id] = CurrentText(ix.id)] \in [Ids -> Texts]
    BY <2>2 DEF IInv
  <2>4. redis' \in Store
    BY <1>10, <2>3 DEF AddMetadata, CurrentText, IInv
  <2> QED
    BY <1>10, <2>4 DEF AddMetadata, IInv
<1>11. CASE Continue
  BY <1>11 DEF Continue, IInv
<1>12. CASE Abort
  BY <1>12 DEF Abort, IInv
<1>13. CASE UNCHANGED <<docs, ix, redis>>
  BY <1>13 DEF IInv
<1>14. ASSUME NEW id \in Ids, Refuse(id) PROVE TypeOK'
  BY <1>14, RefuseSteps DEF IInv
<1> QED
  BY <1>1, <1>2, <1>3, <1>4, <1>5, <1>6, <1>7, <1>8, <1>9, <1>10, <1>11, <1>12, <1>13,
     <1>14 DEF Next, Query, LookUp, LookUpFails, Answer, vars

\* Every step keeps track of what is read, and what is left to add.
LEMMA NextReading == ASSUME IInv, TypeOK', [Next]_vars PROVE Reading'
<1> USE DEF IInv, TypeOK, Index, Reading, Walking, Walked
<1>1. ASSUME NEW f \in Files, IndexFile(f) PROVE Reading'
  BY <1>1 DEF IndexFile
<1>2. CASE Start
  BY <1>2 DEF Start
<1>3. CASE Drop
  BY <1>3 DEF Drop
<1>4. CASE DeleteVectors
  BY <1>4 DEF DeleteVectors
<1>5. CASE DeleteIds
  BY <1>5 DEF DeleteIds
<1>6. ASSUME NEW id \in Ids, DeleteMetadata(id) PROVE Reading'
  BY <1>6 DEF DeleteMetadata
<1>7. ASSUME NEW id \in Ids, AddVector(id) PROVE Reading'
  BY <1>7 DEF AddVector, ToAdd
<1>8. CASE AddId
  BY <1>8 DEF AddId
<1>9. CASE AddMetadata
  BY <1>9 DEF AddMetadata
<1>10. CASE Continue
  BY <1>10 DEF Continue
<1>11. CASE Abort
  BY <1>11 DEF Abort
<1>12. CASE UNCHANGED ix
  BY <1>12
<1>13. ASSUME NEW id \in Ids, Refuse(id) PROVE Reading'
  BY <1>13, RefuseSteps
<1> QED
  BY <1>1, <1>2, <1>3, <1>4, <1>5, <1>6, <1>7, <1>8, <1>9, <1>10, <1>11, <1>12, <1>13
     DEF Next, Edit, Query, LookUp, LookUpFails, Answer, vars

\* An ID tells the file.
LEMMA FileOfId ==
    ASSUME NEW f, NEW d, NEW id \in ChunkIds(f, d)
    PROVE  id[1] = f
  BY DEF ChunkIds

\* Every command changes the three keys as the position of the run in its pipeline says.
LEMMA NextContent == ASSUME IInv, TypeOK', Reading', [Next]_vars PROVE Content'
<1> USE DEF IInv, Content
<1>1. ASSUME NEW f \in Files, IndexFile(f) PROVE Content'
  <2>1. /\ ix.pc = "walk" /\ ix.ids = {} /\ ix'.pc = "VADD"
        /\ ix'.ids = ChunkIds(f, docs[f]) /\ f \notin Walked
        /\ Walked' = Walked \cup {f}
        /\ ix'.read = [ix.read EXCEPT ![f] = docs[f]]
        /\ redis' = redis /\ ix'.refused = ix.refused
    BY <1>1 DEF IndexFile, Reading, Walked, TypeOK, Index
  <2>2. /\ f \in DOMAIN ix.read /\ ix'.read[f] = docs[f]
        /\ \A g \in Walked : ix'.read[g] = ix.read[g]
    BY <2>1 DEF Walked, TypeOK, Index
  <2>3. ASSUME NEW id \in Ids PROVE Added(id)' <=> Added(id)
    <3>1. ASSUME Added(id)' PROVE Added(id)
      BY <2>1, <2>2, <3>1 DEF Added
    <3>2. ASSUME Added(id) PROVE Added(id)'
      <4>1. PICK g \in Walked : id \in ChunkIds(g, ix.read[g])
        BY <3>2 DEF Added
      <4>2. id \notin ix'.ids
        BY <2>1, <4>1, FileOfId
      <4> QED
        BY <2>1, <2>2, <4>1, <4>2 DEF Added
    <3> QED
      BY <3>1, <3>2
  <2>4. ASSUME NEW id \in Ids, Added(id) PROVE CurrentText(id)' = CurrentText(id)
    <3>1. PICK g \in Walked : id \in ChunkIds(g, ix.read[g])
      BY <2>4 DEF Added
    <3>2. id[1] = g
      BY <3>1, FileOfId
    <3> QED
      BY <2>2, <3>1, <3>2 DEF CurrentText
  <2> QED
    BY <2>1, <2>3, <2>4 DEF Walking, InVectors, InIds
<1>2. CASE Start
  BY <1>2 DEF Start, Walking, TypeOK, Index
<1>3. CASE Drop
  BY <1>3 DEF Drop, Walking, TypeOK, Index
<1>4. CASE DeleteVectors
  BY <1>4 DEF DeleteVectors, Walking, TypeOK, Index, Store
<1>5. CASE DeleteIds
  BY <1>5 DEF DeleteIds, Walking, TypeOK, Index, Store
<1>6. ASSUME NEW id \in Ids, DeleteMetadata(id) PROVE Content'
  BY <1>6 DEF DeleteMetadata, Walking, TypeOK, Index, Store
<1>7. ASSUME NEW new \in Ids, AddVector(new) PROVE Content'
  <2>1. /\ ix.pc = "VADD" /\ ix'.pc = "SADD" /\ ix'.id = new
        /\ ix'.ids = ix.ids /\ ix'.todo = ix.todo /\ ix'.read = ix.read
        /\ redis'.vs = redis.vs \cup {new} /\ redis'.idx = redis.idx
        /\ redis'.meta = redis.meta
        /\ ix'.refused = ix.refused
    BY <1>7 DEF AddVector, ToAdd, TypeOK, Index, Store
  <2>2. \A id \in Ids : (Added(id)' <=> Added(id)) /\ CurrentText(id)' = CurrentText(id)
    BY <2>1 DEF Added, Walked, CurrentText
  <2> QED
    BY <2>1, <2>2 DEF Walking, InVectors, InIds
<1>8. CASE AddId
  <2>1. /\ ix.pc = "SADD" /\ ix'.pc = "HSET" /\ ix'.id = ix.id
        /\ ix'.ids = ix.ids /\ ix'.todo = ix.todo /\ ix'.read = ix.read
        /\ redis'.vs = redis.vs /\ redis'.idx = redis.idx \cup {ix.id}
        /\ redis'.meta = redis.meta
        /\ ix'.refused = ix.refused
    BY <1>8 DEF AddId, TypeOK, Index, Store
  <2>2. \A id \in Ids : (Added(id)' <=> Added(id)) /\ CurrentText(id)' = CurrentText(id)
    BY <2>1 DEF Added, Walked, CurrentText
  <2> QED
    BY <2>1, <2>2 DEF Walking, InVectors, InIds
<1>9. CASE AddMetadata
  <2>1. /\ ix.pc = "HSET" /\ ix'.pc = "VADD"
        /\ ix'.ids = ix.ids \ {ix.id} /\ ix'.todo = ix.todo /\ ix'.read = ix.read
        /\ redis'.vs = redis.vs /\ redis'.idx = redis.idx
        /\ redis'.meta = [redis.meta EXCEPT ![ix.id] = CurrentText(ix.id)]
        /\ ix'.refused = ix.refused
    BY <1>9 DEF AddMetadata, TypeOK, Index, Store, CurrentText
  <2>2. PICK f \in Walked : ix.id \in ChunkIds(f, ix.read[f])
    BY <2>1 DEF Reading, Walking
  <2>3. \A id \in Ids :
            (Added(id)' <=> Added(id) \/ id = ix.id) /\ CurrentText(id)' = CurrentText(id)
    BY <2>1, <2>2 DEF Added, Walked, CurrentText
  <2>4. \A id \in Ids :
            redis'.meta[id] = (IF id = ix.id THEN CurrentText(ix.id) ELSE redis.meta[id])
    BY <2>1 DEF TypeOK, Store
  <2> QED
    BY <2>1, <2>3, <2>4 DEF Walking, InVectors, InIds
<1>10. CASE Continue
  <2>1. /\ ix'.pc \in {"walk", "done"} /\ ix'.ids = ix.ids /\ ix'.todo = ix.todo
        /\ ix'.read = ix.read /\ redis' = redis
        /\ ix'.refused = ix.refused /\ ix.pc \in {"DEL meta", "VADD"}
    BY <1>10 DEF Continue, TypeOK, Index
  <2>2. \A id \in Ids : (Added(id)' <=> Added(id)) /\ CurrentText(id)' = CurrentText(id)
    BY <2>1 DEF Added, Walked, CurrentText
  <2>3. CASE ix.pc = "VADD"
    BY <2>1, <2>2, <2>3 DEF Walking, InVectors, InIds
  <2>4. CASE ix.pc = "DEL meta"
    <3>1. \A id \in Ids : ~Added(id)
      BY <2>4 DEF Added, Walked, Reading
    <3> QED
      BY <2>1, <2>2, <2>4, <3>1 DEF Walking, InVectors, InIds
  <2> QED
    BY <2>1, <2>3, <2>4
<1>11. CASE Abort
  BY <1>11 DEF Abort, Walking, TypeOK, Index
<1>12. CASE UNCHANGED <<ix, redis>>
  BY <1>12 DEF Walking, InVectors, InIds, Added, Walked, CurrentText
<1>13. ASSUME NEW id \in Ids, Refuse(id) PROVE Content'
  <2>1. ix'.refused # 0
    BY <1>13, RefuseSteps
  <2> QED
    BY <2>1
<1> QED
  BY <1>1, <1>2, <1>3, <1>4, <1>5, <1>6, <1>7, <1>8, <1>9, <1>10, <1>11, <1>12, <1>13
     DEF Next, Edit, Query, LookUp, LookUpFails, Answer, vars

\* A Drop forgets no ID before it has deleted the metadata, an Add stores it before.
LEMMA NextReachable ==
    ASSUME IInv, TypeOK', Reading', Content', [Next]_vars
    PROVE  Reachable'
<1> USE DEF IInv, Reachable, Dropping
<1>1. ASSUME NEW f \in Files, IndexFile(f) PROVE Reachable'
  BY <1>1 DEF IndexFile, TypeOK, Index
<1>2. CASE Start
  BY <1>2 DEF Start, TypeOK, Index
<1>3. CASE Drop
  BY <1>3 DEF Drop, TypeOK, Index
<1>4. CASE DeleteVectors
  BY <1>4 DEF DeleteVectors, TypeOK, Index, Store
<1>5. CASE DeleteIds
  BY <1>5 DEF DeleteIds, TypeOK, Index, Store
<1>6. ASSUME NEW id \in Ids, DeleteMetadata(id) PROVE Reachable'
  BY <1>6 DEF DeleteMetadata, TypeOK, Index, Store
<1>7. ASSUME NEW id \in Ids, AddVector(id) PROVE Reachable'
  BY <1>7 DEF AddVector, ToAdd, TypeOK, Index, Store
<1>8. CASE AddId
  BY <1>8 DEF AddId, TypeOK, Index, Store
<1>9. CASE AddMetadata
  <2>1. /\ ix.pc = "HSET" /\ ix'.pc = "VADD" /\ redis'.idx = redis.idx /\ torn' = torn
        /\ redis'.meta = [redis.meta EXCEPT ![ix.id] = Text(ix.read[ix.id[1]], ix.id[2])]
    BY <1>9 DEF AddMetadata, TypeOK, Index, Store
  <2> QED
    BY <2>1 DEF TypeOK, Store
<1>10. CASE Continue
  BY <1>10 DEF Continue, TypeOK, Index
<1>11. CASE Abort
  BY <1>11 DEF Abort, TypeOK, Index
<1>12. CASE UNCHANGED <<ix, redis, torn>>
  BY <1>12
<1>13. ASSUME NEW id \in Ids, Refuse(id) PROVE Reachable'
  BY <1>13, RefuseSteps
<1> QED
  BY <1>1, <1>2, <1>3, <1>4, <1>5, <1>6, <1>7, <1>8, <1>9, <1>10, <1>11, <1>12, <1>13
     DEF Next, Edit, Query, LookUp, LookUpFails, Answer, vars

\* The keys in step with the run, at all times.
LEMMA KeysKept == Spec => []IInv
<1>1. IInv /\ [Next]_vars => IInv'
  BY NextTypes, NextReading, NextContent, NextReachable DEF IInv
<1> QED
  BY InitIndex, <1>1, PTL DEF Spec

\* When an index is complete, every file has been walked and nothing is left to add.
LEMMA Completed ==
    ASSUME IInv, ix.pc = "done"
    PROVE  /\ redis.vs = Expected /\ redis.idx = Expected
           /\ \A id \in Expected :
                 redis.meta[id] = CurrentText(id) /\ CurrentText(id) # Absent
<1>1. Walking /\ Walked = Files /\ ix.ids = {} /\ ix.refused = 0
  BY DEF IInv, Reading, Walking, Walked
<1>2. \A id : Added(id) <=> id \in Expected
  BY <1>1 DEF Added, Expected
<1>3. ASSUME NEW id \in Expected
      PROVE  id \in Ids /\ CurrentText(id) # Absent
  <2>1. PICK f \in Walked : id \in ChunkIds(f, ix.read[f])
    BY <1>1 DEF Expected
  <2> QED
    BY <1>1, <2>1, ReadChunk DEF IInv
<1>4. \A id \in Ids : InVectors(id) <=> id \in Expected
  BY <1>2 DEF InVectors
<1>5. \A id \in Ids : InIds(id) <=> id \in Expected
  BY <1>2 DEF InIds
<1>6. redis.vs \subseteq Ids /\ redis.idx \subseteq Ids
  BY DEF IInv, TypeOK, Store
<1>7. redis.vs = Expected
  BY <1>1, <1>3, <1>4, <1>6 DEF IInv, Content
<1>8. redis.idx = Expected
  BY <1>1, <1>3, <1>5, <1>6 DEF IInv, Content
<1> QED
  BY <1>1, <1>2, <1>3, <1>7, <1>8 DEF IInv, Content

\* A complete "rag index" leaves exactly the chunks of the files it read, whatever was
\* left in the keys by any number of runs that failed at any command.
THEOREM IndexReplaces == Spec => []Replaced
<1>1. IInv => Replaced
  <2> SUFFICES ASSUME IInv PROVE Replaced
    OBVIOUS
  <2>1. ASSUME ~torn, ~Dropping, NEW id \in Ids, redis.meta[id] # Absent
        PROVE  id \in redis.idx
    BY <2>1 DEF IInv, Reachable
  <2> QED
    BY <2>1, Completed DEF Replaced, CurrentText
<1> QED
  BY KeysKept, <1>1, PTL

--------------------------------------------------------------------------------
(* A query that no index overlaps *)

\* The smaller of two numbers.
Least(m, n) == IF m < n THEN m ELSE n

\* How many hits such a query finds, and still has to look up.
Counted ==
    Cardinality(search.hits) + Cardinality(search.results)
        = Least(Cardinality(Expected), TopK)

\* While no index runs, each hit becomes a result of its own.
Exact ==
    /\ search.hits \subseteq Expected
    /\ \A r \in search.results : r \in {Result(id) : id \in Expected \ search.hits}
    /\ search.whole => Counted

Hit == [id : Ids, text : Texts]

Searching == [pc : {"idle", "looking", "done"}, hits : SUBSET Ids, results : SUBSET Hit,
              quiet : BOOLEAN, whole : BOOLEAN]

QuietInv ==
    /\ search \in Searching
    /\ IsFiniteSet(redis.vs)
    /\ IsFiniteSet(search.hits) /\ IsFiniteSet(search.results)
    /\ search.quiet => ix.pc = "done"
    /\ search.quiet /\ search.pc # "idle" => Exact
    /\ search.pc = "done" => search.hits = {}

\* Looking up a hit moves it to the results: metadata is there for each.
LEMMA HitBecomesResult ==
    ASSUME IInv, QuietInv, search.quiet, NEW id \in Ids, LookUp(id)
    PROVE  Exact'
<1>1. /\ search.pc = "looking" /\ id \in search.hits /\ Exact /\ ix.pc = "done"
      /\ ix' = ix /\ redis' = redis
      /\ search'.hits = search.hits \ {id}
      /\ search'.results = search.results \cup Found(id)
      /\ search'.whole = search.whole
  BY DEF LookUp, QuietInv, Searching
<1>2. Found(id) = {Result(id)}
  <2>1. redis.meta[id] # Absent
    BY <1>1, Completed DEF Exact
  <2> QED
    BY <2>1 DEF Found, Result
<1>3. Result(id) \notin search.results
  <2>1. \A other : Result(other) = Result(id) => other = id
    BY DEF Result
  <2> QED
    BY <1>1, <2>1 DEF Exact
<1>4. Expected' = Expected /\ \A other : Result(other)' = Result(other)
  BY <1>1 DEF Expected, Result
<1>5. /\ Cardinality(search'.hits) = Cardinality(search.hits) - 1
      /\ Cardinality(search.hits) \in Nat
  BY <1>1, FS_RemoveElement, FS_CardinalityType DEF QuietInv
<1>6. /\ Cardinality(search'.results) = Cardinality(search.results) + 1
      /\ Cardinality(search.results) \in Nat
  <2>1. search'.results = search.results \cup {Result(id)} /\ IsFiniteSet(search.results)
    BY <1>1, <1>2 DEF QuietInv
  <2> QED
    BY <1>3, <2>1, FS_AddElement, FS_CardinalityType
<1>7. ASSUME search'.whole PROVE Counted'
  <2>1. Counted
    BY <1>1, <1>7 DEF Exact
  <2> QED
    BY <1>4, <1>5, <1>6, <2>1 DEF Counted
<1>8. \A r \in search'.results : r \in {Result(other) : other \in Expected \ search'.hits}
  BY <1>1, <1>2 DEF Exact
<1> QED
  BY <1>1, <1>4, <1>7, <1>8 DEF Exact

\* A query begins with the topK nearest chunks, or all there are.
LEMMA HitsCounted ==
    ASSUME IInv, QuietInv, Query PROVE QuietInv'
<1>1. PICK hits \in SUBSET redis.vs :
          /\ Cardinality(hits) <= TopK
          /\ Cardinality(hits) = TopK \/ hits = redis.vs
          /\ search' = [pc |-> "looking", hits |-> hits, results |-> {},
                        quiet |-> ix.pc = "done", whole |-> TRUE]
  BY DEF Query
<1>2. ix' = ix /\ redis' = redis /\ Expected' = Expected
  BY DEF Query, Expected
<1>3. /\ IsFiniteSet(hits) /\ Cardinality(hits) \in Nat
      /\ Cardinality(redis.vs) \in Nat /\ Cardinality(hits) <= Cardinality(redis.vs)
  BY FS_Subset, FS_CardinalityType DEF QuietInv
<1>4. IsFiniteSet({}) /\ Cardinality({}) = 0
  BY FS_EmptySet
<1>5. ASSUME search'.quiet PROVE Exact'
  <2>1. ix.pc = "done"
    BY <1>1, <1>5
  <2>2. redis.vs = Expected
    BY <2>1, Completed
  <2>3. Cardinality(hits) = Least(Cardinality(Expected), TopK)
    BY <1>1, <1>3, <2>2, Assumptions DEF Least, Assumptions
  <2>4. Counted'
    BY <1>1, <1>2, <1>3, <1>4, <2>3 DEF Counted
  <2> QED
    BY <1>1, <1>2, <2>2, <2>4 DEF Exact
<1> QED
  BY <1>1, <1>2, <1>3, <1>4, <1>5 DEF QuietInv, Searching, IInv, TypeOK, Store

\* At the start there is no query.
LEMMA InitQuiet == ASSUME Init PROVE QuietInv
  BY FS_EmptySet DEF Init, QuietInv, Searching

\* Every step of the index and of a query keeps what a quiet query has found exact.
LEMMA NextQuiet == ASSUME IInv, QuietInv, [Next]_vars PROVE QuietInv'
<1>1. CASE Query
  BY <1>1, HitsCounted
<1>2. ASSUME NEW id \in Ids, LookUp(id) PROVE QuietInv'
  <2>1. IsFiniteSet(Found(id)) /\ Found(id) \subseteq {Result(id)}
    <3>1. Found(id) \in SUBSET {Result(id)}
      BY DEF Found
    <3> QED
      BY <3>1, FS_Singleton, FS_Subset
  <2>2. IsFiniteSet(search.hits \ {id}) /\ IsFiniteSet(search.results \cup Found(id))
    BY <2>1, FS_RemoveElement, FS_Union DEF QuietInv
  <2>3. Result(id) \in Hit
    BY DEF Result, Hit, IInv, TypeOK, Store
  <2>4. search' = [search EXCEPT !.hits = @ \ {id}, !.results = @ \cup Found(id)]
    BY <1>2 DEF LookUp
  <2>5. search' \in Searching
    BY <2>1, <2>3, <2>4 DEF QuietInv, Searching
  <2>6. /\ ix' = ix /\ redis' = redis /\ search.pc = "looking" /\ search'.pc = search.pc
        /\ search'.quiet = search.quiet
        /\ search'.hits = search.hits \ {id}
        /\ search'.results = search.results \cup Found(id)
    BY <1>2, <2>4 DEF LookUp, QuietInv, Searching
  <2> QED
    BY <1>2, <2>2, <2>5, <2>6, HitBecomesResult DEF QuietInv
<1>3. CASE Answer
  <2>1. /\ ix' = ix /\ redis' = redis /\ search.pc = "looking" /\ search'.pc = "done"
        /\ search'.hits = search.hits /\ search'.results = search.results
        /\ search'.quiet = search.quiet /\ search'.whole = search.whole
        /\ search.hits = {} /\ search' \in Searching
    BY <1>3 DEF Answer, QuietInv, Searching
  <2>2. Exact => Exact'
    BY <2>1 DEF Exact, Counted, Expected, Result
  <2> QED
    BY <2>1, <2>2 DEF QuietInv
<1>4. CASE Start
  BY <1>4 DEF Start, QuietInv, Searching
<1>5. ASSUME UNCHANGED search, ix.pc # "done", IsFiniteSet(redis.vs)' PROVE QuietInv'
  BY <1>5 DEF QuietInv
<1>6. CASE DeleteVectors
  BY <1>6, <1>5, FS_EmptySet DEF DeleteVectors, IInv, TypeOK, Store
<1>7. ASSUME NEW id \in Ids, AddVector(id) PROVE QuietInv'
  BY <1>7, <1>5, FS_AddElement DEF AddVector, ToAdd, IInv, TypeOK, Store, QuietInv
<1>8. CASE Drop \/ DeleteIds \/ AddId \/ AddMetadata \/ Continue \/ Abort
  BY <1>8, <1>5
     DEF Drop, DeleteIds, AddId, AddMetadata, Continue, Abort, IInv, TypeOK, Store, QuietInv
<1>9. ASSUME NEW id \in Ids, DeleteMetadata(id) PROVE QuietInv'
  BY <1>9, <1>5 DEF DeleteMetadata, IInv, TypeOK, Store, QuietInv
<1>10. ASSUME NEW f \in Files, IndexFile(f) PROVE QuietInv'
  BY <1>10, <1>5 DEF IndexFile, QuietInv
<1>11. CASE UNCHANGED <<ix, redis, search>>
  BY <1>11 DEF QuietInv, Exact, Counted, Expected, Result
<1>12. ASSUME NEW id \in Ids, Refuse(id) PROVE QuietInv'
  BY <1>12, <1>5, RefuseSteps DEF IInv, QuietInv
<1>13. ASSUME NEW id \in Ids, LookUpFails(id) PROVE QuietInv'
  <2>1. /\ ix' = ix /\ redis' = redis /\ search.pc = "looking" /\ search'.pc = search.pc
        /\ search'.quiet = search.quiet /\ search'.whole = FALSE
        /\ search'.hits = search.hits \ {id} /\ search'.results = search.results
        /\ search' \in Searching
    BY <1>13 DEF LookUpFails, QuietInv, Searching
  <2>2. IsFiniteSet(search.hits \ {id})
    BY FS_RemoveElement DEF QuietInv
  <2>3. Expected' = Expected /\ \A other : Result(other)' = Result(other)
    BY <2>1 DEF Expected, Result
  <2>4. Exact => Exact'
    BY <2>1, <2>3 DEF Exact
  <2> QED
    BY <2>1, <2>2, <2>4 DEF QuietInv
<1> QED
  BY <1>1, <1>2, <1>3, <1>4, <1>6, <1>7, <1>8, <1>9, <1>10, <1>11, <1>12, <1>13
     DEF Next, Edit, vars

\* A query that begins after a complete index and ends before the next one starts shows
\* chunks with the text that was indexed, and topK of them, or all there are, unless Redis
\* failed to answer for one: no hit is dropped because its metadata is missing.
THEOREM QuietSearchesAreExact == Spec => []QuietSearchExact
<1>1. IInv /\ QuietInv /\ [Next]_vars => QuietInv'
  BY NextQuiet
<1>2. IInv /\ QuietInv => QuietSearchExact
  <2> SUFFICES ASSUME IInv, QuietInv, search.pc = "done", search.quiet
               PROVE  QuietSearchExact
    BY DEF QuietSearchExact
  <2>1. Exact /\ ix.pc = "done" /\ search.hits = {}
    BY DEF QuietInv
  <2>2. search.whole => Cardinality(search.results) = Least(Cardinality(Expected), TopK)
    BY <2>1, FS_EmptySet, FS_CardinalityType DEF Exact, Counted, QuietInv
  <2>3. ASSUME NEW r \in search.results
        PROVE  r.id \in Expected /\ r.text = Text(ix.read[r.id[1]], r.id[2])
    <3>1. PICK id \in Expected : r = Result(id)
      BY <2>1 DEF Exact
    <3>2. r.id = id /\ r.text = CurrentText(id)
      BY <2>1, <3>1, Completed DEF Result
    <3> QED
      BY <3>1, <3>2 DEF CurrentText
  <2> QED
    BY <2>2, <2>3 DEF QuietSearchExact, Least
<1> QED
  BY KeysKept, InitQuiet, <1>1, <1>2, PTL DEF Spec
--------------------------------------------------------------------------------
(* Loops *)

\* What holds at 0 and passes from each number to the next holds up to n.
LEMMA Induction ==
    ASSUME NEW n \in Nat, NEW T, 0 \in T, \A i \in 1 .. n : i - 1 \in T => i \in T
    PROVE  \A i \in 0 .. n : i \in T
<1> DEFINE Bad == {i \in 0 .. n : i \notin T}
<1> SUFFICES ASSUME Bad # {} PROVE FALSE
  OBVIOUS
<1>1. PICK m \in Bad : \A i \in Bad : ~(i < m)
  <2> DEFINE R == OpToRel(<, Nat)
  <2>1. IsWellFoundedOn(R, Nat)
    BY NatLessThanWellFounded
  <2>2. \A i, m \in Nat : i < m => <<i, m>> \in R
    BY DEF OpToRel
  <2>3. Bad \subseteq Nat
    OBVIOUS
  <2> HIDE DEF R, Bad
  <2>4. \E m \in Bad : \A i \in Bad : ~(<<i, m>> \in R)
    BY <2>1, <2>3, WFMin
  <2> QED
    BY <2>2, <2>3, <2>4
<1>2. m \in 1 .. n /\ m - 1 \in 0 .. n /\ m - 1 < m
  OBVIOUS
<1>3. m - 1 \in T
  BY <1>1, <1>2
<1> QED
  BY <1>2, <1>3

Courses(S, base, n, step) ==
    {f \in [0 .. n -> S] : f[0] = base /\ \A i \in 1 .. n : f[i] = step[i][f[i - 1]]}

\* A loop over 1 .. n, each of whose turns is a function of what the last one left, has
\* a course.
LEMMA Iteration ==
    ASSUME NEW S, NEW base \in S, NEW n \in Nat, NEW step \in [1 .. n -> [S -> S]]
    PROVE  Courses(S, base, n, step) # {}
<1> DEFINE Upto(k, f) == /\ f \in [0 .. k -> S]
                         /\ f[0] = base
                         /\ \A i \in 1 .. k : f[i] = step[i][f[i - 1]]
           T == {k \in 0 .. n : \E f : Upto(k, f)}
<1>1. 0 \in T
  <2>1. PICK f : f = [i \in 0 .. 0 |-> base]
    OBVIOUS
  <2>2. Upto(0, f)
    BY <2>1
  <2> HIDE DEF Upto
  <2> QED
    BY <2>2
<1>2. ASSUME NEW k \in 1 .. n, k - 1 \in T PROVE k \in T
  <2>1. PICK f : Upto(k - 1, f)
    BY <1>2
  <2>2. k - 1 \in 0 .. k - 1 /\ f[k - 1] \in S
    BY <2>1
  <2>3. step[k][f[k - 1]] \in S
    BY <2>2
  <2>4. PICK g : g = [i \in 0 .. k |-> IF i = k THEN step[k][f[k - 1]] ELSE f[i]]
    OBVIOUS
  <2>5. \A i \in 0 .. k - 1 : i \in 0 .. k /\ i # k /\ g[i] = f[i] /\ f[i] \in S
    BY <2>1, <2>4
  <2>6. k \in 0 .. k /\ g[k] = step[k][g[k - 1]] /\ g[k] \in S
    BY <2>2, <2>3, <2>4, <2>5
  <2>7. g \in [0 .. k -> S]
    <3>1. \A i \in 0 .. k : g[i] \in S
      BY <2>5, <2>6
    <3> QED
      BY <2>4, <3>1
  <2>8. g[0] = base
    BY <2>1, <2>5
  <2>9. ASSUME NEW i \in 1 .. k PROVE g[i] = step[i][g[i - 1]]
    <3>1. CASE i = k
      BY <2>6, <3>1
    <3>2. CASE i # k
      <4>1. i \in 1 .. k - 1 /\ i \in 0 .. k - 1 /\ i - 1 \in 0 .. k - 1
        BY <3>2
      <4> QED
        BY <2>1, <2>5, <4>1
    <3> QED
      BY <3>1, <3>2
  <2>10. Upto(k, g)
    BY <2>7, <2>8, <2>9
  <2> HIDE DEF Upto
  <2> QED
    BY <2>10
<1> HIDE DEF T
<1>3. \A i \in 0 .. n : i \in T
  BY <1>1, <1>2, Induction
<1>4. n \in T
  BY <1>3
<1> QED
  BY <1>4 DEF T, Courses

\* The recursion of Runes.
LEMMA RunesType ==
    ASSUME NEW text \in Seq(Nat)
    PROVE  /\ Runes(text) \in [0 .. Len(text) -> Nat]
           /\ Runes(text)[0] = 0
           /\ \A n \in 1 .. Len(text) :
                 Runes(text)[n] = Runes(text)[n - 1] + (IF n = 1 THEN 0 ELSE Gap) + text[n]
<1> DEFINE more(n, x) == x + (IF n = 1 THEN 0 ELSE Gap) + text[n]
           step == [n \in 1 .. Len(text) |-> [x \in Nat |-> more(n, x)]]
<1>1. PICK k \in Nat : k = Len(text)
  BY LenProperties
<1>2. \A n \in 1 .. k, x \in Nat : more(n, x) \in Nat
  BY <1>1, ElementOfSeq, ChunkerAssumptions DEF ChunkerAssumptions
<1> HIDE DEF more
<1>3. /\ step \in [1 .. k -> [Nat -> Nat]]
      /\ \A n \in 1 .. k : \A x \in Nat : step[n][x] = more(n, x)
  BY <1>1, <1>2
<1> HIDE DEF step
<1>4. PICK f \in [0 .. k -> Nat] : f[0] = 0 /\ \A n \in 1 .. k : f[n] = step[n][f[n - 1]]
  <2>1. Courses(Nat, 0, k, step) # {}
    BY <1>3, Iteration
  <2> QED
    BY <2>1 DEF Courses
<1>5. \A n \in 1 .. k : f[n] = more(n, f[n - 1])
  <2> TAKE n \in 1 .. k
  <2>1. n - 1 \in 0 .. k /\ f[n - 1] \in Nat
    OBVIOUS
  <2> QED
    BY <1>3, <1>4, <2>1
<1>6. f = [n \in 0 .. k |-> IF n = 0 THEN 0 ELSE more(n, f[n - 1])]
  <2>1. \A n \in 0 .. k : f[n] = IF n = 0 THEN 0 ELSE more(n, f[n - 1])
    BY <1>4, <1>5
  <2> QED
    BY <2>1
<1>7. Runes(text) = [n \in 0 .. k |-> IF n = 0 THEN 0 ELSE more(n, Runes(text)[n - 1])]
  BY <1>1, <1>6, Zenon DEF Runes, more
<1>8. \A n \in 0 .. k : Runes(text)[n] = f[n]
  <2> DEFINE T == {n \in 0 .. k : Runes(text)[n] = f[n]}
  <2>1. 0 \in T
    BY <1>4, <1>7
  <2>2. ASSUME NEW n \in 1 .. k, n - 1 \in T PROVE n \in T
    <3>1. Runes(text)[n] = more(n, Runes(text)[n - 1])
      BY <1>7
    <3> QED
      BY <1>5, <2>2, <3>1
  <2> HIDE DEF T
  <2>3. \A n \in 0 .. k : n \in T
    BY <2>1, <2>2, Induction
  <2> QED
    BY <2>3 DEF T
<1>9. Runes(text) = f
  BY <1>7, <1>8
<1> QED
  BY <1>1, <1>4, <1>5, <1>9 DEF more

\* The length of a text depends on its paragraphs only.
LEMMA RunesPrefix ==
    ASSUME NEW s \in Seq(Nat), NEW t \in Seq(Nat), NEW n \in Nat,
           n <= Len(s), n <= Len(t), \A i \in 1 .. n : s[i] = t[i]
    PROVE  Runes(s)[n] = Runes(t)[n]
<1> DEFINE T == {i \in 0 .. n : Runes(s)[i] = Runes(t)[i]}
<1>1. 0 \in T
  BY RunesType
<1>2. ASSUME NEW i \in 1 .. n, i - 1 \in T PROVE i \in T
  <2>1. i \in 1 .. Len(s) /\ i \in 1 .. Len(t) /\ i \in 0 .. n
    BY LenProperties
  <2>2. /\ Runes(s)[i] = Runes(s)[i - 1] + (IF i = 1 THEN 0 ELSE Gap) + s[i]
        /\ Runes(t)[i] = Runes(t)[i - 1] + (IF i = 1 THEN 0 ELSE Gap) + t[i]
    BY <2>1, RunesType
  <2> QED
    BY <1>2, <2>1, <2>2
<1> HIDE DEF T
<1>3. \A i \in 0 .. n : i \in T
  BY <1>1, <1>2, Induction
<1> QED
  BY <1>3 DEF T

\* A paragraph more makes a text longer by itself and by the gap before it.
LEMMA LengthOfAppend ==
    ASSUME NEW text \in Seq(Nat), NEW para \in Nat
    PROVE  /\ Length(text) \in Nat
           /\ Append(text, para) \in Seq(Nat)
           /\ Len(text) = 0 => Length(Append(text, para)) = para
           /\ Len(text) # 0 => Length(Append(text, para)) = Length(text) + Gap + para
<1>1. PICK n \in Nat : n = Len(text)
  BY LenProperties
<1>2. PICK longer \in Seq(Nat) : longer = Append(text, para)
  BY AppendProperties
<1>3. Len(longer) = n + 1 /\ longer[n + 1] = para /\ \A i \in 1 .. n : longer[i] = text[i]
  BY <1>1, <1>2, AppendProperties
<1>4. Runes(longer)[n] = Runes(text)[n]
  <2>1. n <= Len(longer) /\ n <= Len(text)
    BY <1>1, <1>3
  <2> QED
    BY <1>3, <2>1, RunesPrefix
<1>5. /\ Runes(longer)[n + 1] = Runes(longer)[n] + (IF n = 0 THEN 0 ELSE Gap) + para
      /\ Runes(text)[n] \in Nat
      /\ Runes(text)[0] = 0
  <2>1. n + 1 \in 1 .. Len(longer) /\ n \in 0 .. Len(text)
    BY <1>1, <1>3
  <2>2. /\ Runes(longer)[n + 1]
             = Runes(longer)[n + 1 - 1] + (IF n + 1 = 1 THEN 0 ELSE Gap) + longer[n + 1]
        /\ Runes(text) \in [0 .. Len(text) -> Nat]
        /\ Runes(text)[0] = 0
    BY <2>1, RunesType
  <2>3. n + 1 - 1 = n /\ (n + 1 = 1 <=> n = 0)
    OBVIOUS
  <2> QED
    BY <1>3, <2>1, <2>2, <2>3
<1> QED
  BY <1>1, <1>2, <1>3, <1>4, <1>5 DEF Length

Sized(section, piece) == Length(TextOfPiece(section, piece))

\* A piece of one paragraph, and one paragraph more.
LEMMA SizeOfAppend ==
    ASSUME NEW section \in Seq(Nat), NEW piece \in Seq(DOMAIN section), NEW p \in DOMAIN section
    PROVE  /\ Sized(section, piece) \in Nat
           /\ Len(piece) # 0 =>
                 Sized(section, Append(piece, p)) = Sized(section, piece) + Gap + section[p]
           /\ Sized(section, <<p>>) = section[p]
<1> DEFINE text == TextOfPiece(section, piece)
<1>1. PICK n \in Nat : n = Len(piece) /\ DOMAIN piece = 1 .. n
  BY LenProperties
<1>2. \A q \in DOMAIN section : section[q] \in Nat
  BY LenProperties, ElementOfSeq
<1>3. \A k \in 1 .. n : piece[k] \in DOMAIN section
  BY <1>1, ElementOfSeq
<1>4. text \in Seq(Nat) /\ Len(text) = n /\ \A k \in 1 .. n : text[k] = section[piece[k]]
  BY <1>1, <1>2, <1>3 DEF TextOfPiece
<1> HIDE DEF text
<1>5. TextOfPiece(section, Append(piece, p)) = Append(text, section[p])
  <2>1. PICK longer \in Seq(DOMAIN section) : longer = Append(piece, p)
    BY AppendProperties
  <2>2. /\ DOMAIN longer = 1 .. n + 1 /\ longer[n + 1] = p
        /\ \A k \in 1 .. n : longer[k] = piece[k]
    BY <1>1, <2>1, AppendProperties, LenProperties
  <2>3. PICK grown \in Seq(Nat) : grown = Append(text, section[p])
    BY <1>2, <1>4, AppendProperties
  <2>4. /\ DOMAIN grown = 1 .. n + 1 /\ grown[n + 1] = section[p]
        /\ \A k \in 1 .. n : grown[k] = text[k]
    BY <1>2, <1>4, <2>3, AppendProperties, LenProperties
  <2>5. \A k \in 1 .. n + 1 : grown[k] = section[longer[k]]
    <3> TAKE k \in 1 .. n + 1
    <3>1. CASE k = n + 1
      BY <2>2, <2>4, <3>1
    <3>2. CASE k # n + 1
      <4>1. k \in 1 .. n
        BY <3>2
      <4> QED
        BY <1>4, <2>2, <2>4, <4>1
    <3> QED
      BY <3>1, <3>2
  <2>6. grown = [k \in 1 .. n + 1 |-> grown[k]]
    <3>1. grown \in [1 .. Len(grown) -> Nat]
      BY LenProperties
    <3> QED
      BY <2>4, <3>1
  <2> QED
    BY <2>1, <2>2, <2>3, <2>5, <2>6 DEF TextOfPiece
<1>6. TextOfPiece(section, <<p>>) = Append(<<>>, section[p])
  BY DEF TextOfPiece
<1>7. Length(Append(<<>>, section[p])) = section[p]
  <2>1. PICK none \in Seq(Nat) : none = <<>>
    BY EmptySeq
  <2>2. Len(none) = 0
    BY <2>1
  <2>3. PICK para \in Nat : para = section[p]
    BY <1>2
  <2>4. Length(Append(none, para)) = para
    BY <2>2, <2>3, LengthOfAppend
  <2> QED
    BY <2>1, <2>3, <2>4
<1>8. /\ Length(text) \in Nat
      /\ Len(text) # 0 => Length(Append(text, section[p])) = Length(text) + Gap + section[p]
  BY <1>2, <1>4, LengthOfAppend
<1> QED
  BY <1>1, <1>4, <1>5, <1>6, <1>7, <1>8 DEF Sized, text

Gatherings(section) == [pieces : Seq(Seq(DOMAIN section)), size : Nat]

\* Every paragraph is in one piece, and the pieces go through them in order.
Ascending(pieces) ==
    \A i, j \in 1 .. Len(pieces) : \A a \in 1 .. Len(pieces[i]), b \in 1 .. Len(pieces[j]) :
        i < j \/ (i = j /\ a < b) => pieces[i][a] < pieces[j][b]

\* What the loop has made of the first n paragraphs of a section.
Holds(section, n, pieces) ==
    /\ \A i \in 1 .. Len(pieces) : Len(pieces[i]) > 0
    /\ \A i \in 1 .. Len(pieces) : \A k \in 1 .. Len(pieces[i]) : pieces[i][k] <= n
    /\ \A p \in 1 .. n : section[p] > 0 =>
          \E i \in 1 .. Len(pieces) : \E k \in 1 .. Len(pieces[i]) : pieces[i][k] = p

Full(section, pieces) ==
    /\ \A i \in 1 .. Len(pieces) :
          Sized(section, pieces[i]) <= MaxChunk \/ Len(pieces[i]) = 1
    /\ \A i \in 1 .. Len(pieces) - 1 :
          Sized(section, pieces[i]) + Gap + section[pieces[i + 1][1]] > MaxChunk

GatheredInv(section, n, parts) ==
    /\ Holds(section, n, parts.pieces)
    /\ Ascending(parts.pieces)
    /\ Full(section, parts.pieces)
    /\ Len(parts.pieces) # 0 =>
          parts.size = Sized(section, parts.pieces[Len(parts.pieces)])

\* Before turn n, and after it.
AtTurn(section, n, parts) ==
    parts \in Gatherings(section) /\ GatheredInv(section, n - 1, parts)

AfterTurn(section, n, parts) ==
    parts \in Gatherings(section) /\ GatheredInv(section, n, parts)

\* Pieces hold places of paragraphs.
LEMMA PlacesType ==
    ASSUME NEW section \in Seq(Nat), NEW pieces \in Seq(Seq(DOMAIN section))
    PROVE  /\ Len(pieces) \in Nat /\ DOMAIN pieces = 1 .. Len(pieces)
           /\ \A i \in 1 .. Len(pieces) :
                 /\ pieces[i] \in Seq(DOMAIN section)
                 /\ Len(pieces[i]) \in Nat
                 /\ DOMAIN pieces[i] = 1 .. Len(pieces[i])
                 /\ \A k \in 1 .. Len(pieces[i]) : pieces[i][k] \in DOMAIN section
           /\ \A p \in DOMAIN section : p \in Nat /\ p > 0 /\ section[p] \in Nat
<1>1. Len(pieces) \in Nat /\ DOMAIN pieces = 1 .. Len(pieces)
  BY LenProperties
<1>2. \A i \in 1 .. Len(pieces) : pieces[i] \in Seq(DOMAIN section)
  BY ElementOfSeq
<1>3. \A i \in 1 .. Len(pieces) :
          Len(pieces[i]) \in Nat /\ DOMAIN pieces[i] = 1 .. Len(pieces[i])
  BY <1>2, LenProperties
<1>4. ASSUME NEW i \in 1 .. Len(pieces), NEW k \in 1 .. Len(pieces[i])
      PROVE  pieces[i][k] \in DOMAIN section
  <2>1. PICK piece \in Seq(DOMAIN section) : piece = pieces[i]
    BY <1>2
  <2> QED
    BY <2>1, ElementOfSeq
<1>5. \A p \in DOMAIN section : p \in Nat /\ p > 0 /\ section[p] \in Nat
  BY LenProperties, ElementOfSeq
<1> QED
  BY <1>1, <1>2, <1>3, <1>4, <1>5

\* The last piece takes in a paragraph that fits.
LEMMA LastPieceGrows ==
    ASSUME NEW section \in Seq(Nat), NEW n \in DOMAIN section, NEW parts,
           AtTurn(section, n, parts), Fits(parts, section[n]),
           NEW new, new = Extended(parts, n, section[n])
    PROVE  AfterTurn(section, n, new)
<1>1. PICK pieces \in Seq(Seq(DOMAIN section)) : pieces = parts.pieces
  BY DEF AtTurn, Gatherings
<1>2. PICK para \in Nat : para = section[n]
  BY PlacesType
<1>3. PICK size \in Nat : size = parts.size
  BY DEF AtTurn, Gatherings
<1>4. PICK grown \in Nat : grown = size + Gap + para /\ grown <= MaxChunk
  <2>1. parts.size + section[n] + Gap <= MaxChunk
    BY DEF Fits
  <2>2. size + para + Gap <= MaxChunk
    BY <1>2, <1>3, <2>1
  <2>3. Gap \in Nat /\ MaxChunk \in Nat
    BY ChunkerAssumptions DEF ChunkerAssumptions
  <2>4. size + Gap + para \in Nat /\ size + Gap + para <= MaxChunk
    BY <2>2, <2>3
  <2> QED
    BY <2>4
<1>5. PICK m \in Nat : m = Len(pieces) /\ m > 0
  BY <1>1, EmptySeq, LenProperties DEF Fits
<1>6. n \in Nat /\ n > 0
  BY PlacesType
<1>7. /\ Holds(section, n - 1, pieces) /\ Ascending(pieces) /\ Full(section, pieces)
      /\ size = Sized(section, pieces[m])
  BY <1>5, <1>1, <1>3 DEF AtTurn, GatheredInv
<1>8. PICK out : out = new.pieces
  OBVIOUS
<1>9. /\ \A i \in 1 .. m : Len(pieces[i]) \in Nat /\ Len(pieces[i]) > 0
      /\ \A i \in 1 .. m : \A k \in 1 .. Len(pieces[i]) :
            pieces[i][k] \in Nat /\ pieces[i][k] <= n - 1
  BY <1>5, <1>7, PlacesType DEF Holds
<1>10. m \in 1 .. m
  BY <1>5
<1>11. PICK last \in Seq(DOMAIN section) : last = pieces[m]
  BY <1>10, <1>5, PlacesType
<1>12. PICK e \in Nat : e = Len(pieces[m]) /\ e = Len(last) /\ e > 0
  <2>1. Len(pieces[m]) \in Nat /\ Len(pieces[m]) > 0
    BY <1>10, <1>9
  <2> QED
    BY <1>11, <2>1
<1>13. PICK longer \in Seq(DOMAIN section) : longer = Append(last, n)
  BY AppendProperties
<1>14. Len(longer) = e + 1 /\ longer[e + 1] = n /\ \A k \in 1 .. e : longer[k] = last[k]
  BY <1>12, <1>13, AppendProperties
<1>15. /\ out \in Seq(Seq(DOMAIN section)) /\ Len(out) = m
      /\ out[m] = longer /\ \A i \in 1 .. m : i # m => out[i] = pieces[i]
  <2>1. out = [pieces EXCEPT ![m] = longer]
    BY <1>5, <1>11, <1>13, <1>1, <1>8 DEF AtTurn, Extended, Gatherings
  <2> QED
    BY <1>5, <2>1, LenProperties
<1>16. \A i \in 1 .. m : Len(out[i]) \in Nat /\ Len(out[i]) > 0
  <2> TAKE i \in 1 .. m
  <2>1. CASE i = m
    <3>1. Len(out[i]) = e + 1
      BY <1>14, <1>15, <2>1
    <3> QED
      BY <1>12, <3>1
  <2>2. CASE i # m
    <3>1. out[i] = pieces[i]
      BY <1>15, <2>2
    <3> QED
      BY <1>9, <3>1
  <2> QED
    BY <2>1, <2>2
<1>17. ASSUME NEW i \in 1 .. m, NEW k \in 1 .. Len(pieces[i])
       PROVE  k \in 1 .. Len(out[i]) /\ out[i][k] = pieces[i][k]
  <2>1. CASE i = m
    <3>1. k \in 1 .. e
      BY <1>12, <2>1
    <3>2. Len(out[i]) = e + 1 /\ out[i][k] = last[k]
      BY <1>14, <1>15, <2>1, <3>1
    <3>3. pieces[i][k] = last[k]
      BY <1>11, <2>1
    <3>4. k \in 1 .. e + 1
      BY <3>1
    <3> QED
      BY <3>2, <3>3, <3>4
  <2>2. CASE i # m
    BY <1>15, <2>2
  <2> QED
    BY <2>1, <2>2
<1>18. ASSUME NEW i \in 1 .. m, NEW k \in 1 .. Len(out[i])
       PROVE  k \in 1 .. Len(pieces[i]) \/ (i = m /\ k = e + 1 /\ out[i][k] = n)
  <2>1. CASE i = m
    <3>1. Len(out[i]) = e + 1 /\ out[i][e + 1] = n /\ Len(pieces[i]) = e
      BY <1>12, <1>14, <1>15, <2>1
    <3>2. k \in 1 .. e + 1
      BY <3>1
    <3>3. k \in 1 .. e \/ k = e + 1
      BY <3>2
    <3> QED
      BY <2>1, <3>1, <3>3
  <2>2. CASE i # m
    BY <1>15, <2>2
  <2> QED
    BY <2>1, <2>2
<1>19. \E k \in 1 .. Len(out[m]) : out[m][k] = n
  <2>1. PICK k \in Nat : k = e + 1
    BY <1>12
  <2>2. k = Len(out[m]) /\ out[m][k] = n /\ k \in 1 .. k
    BY <1>14, <1>15, <2>1
  <2> QED
    BY <2>2
<1>20. Sized(section, longer) = grown
  <2>1. size = Sized(section, last)
    BY <1>7, <1>11
  <2>2. Len(last) # 0
    BY <1>12
  <2>3. Sized(section, Append(last, n)) = Sized(section, last) + Gap + section[n]
    BY <2>2, SizeOfAppend
  <2> QED
    BY <1>13, <1>2, <1>4, <2>1, <2>3
<1>21. ASSUME NEW i \in 1 .. m, NEW k \in 1 .. Len(pieces[i])
       PROVE  out[i][k] \in Nat /\ out[i][k] < n
  <2>1. \A x, y \in Nat : x <= y - 1 => x < y
    OBVIOUS
  <2>2. pieces[i][k] \in Nat /\ pieces[i][k] < n
    BY <1>6, <1>9, <2>1, Zenon
  <2> QED
    BY <1>17, <2>2, Zenon
<1>22. Holds(section, n, out)
  <2>1. ASSUME NEW i \in 1 .. m, NEW k \in 1 .. Len(out[i]) PROVE out[i][k] <= n
    <3>1. n <= n /\ \A x, y \in Nat : x < y => x <= y
      BY <1>6
    <3>2. CASE k \in 1 .. Len(pieces[i])
      BY <1>6, <1>21, <3>1, <3>2, Zenon
    <3>3. CASE out[i][k] = n
      BY <3>1, <3>3, Zenon
    <3> QED
      BY <1>18, <3>2, <3>3
  <2>2. ASSUME NEW p \in 1 .. n, section[p] > 0
        PROVE  \E i \in 1 .. m : \E k \in 1 .. Len(out[i]) : out[i][k] = p
    <3>1. CASE p = n
      BY <1>10, <1>19, <3>1
    <3>2. CASE p # n
      <4>1. p \in 1 .. n - 1
        BY <1>6, <3>2
      <4>2. PICK i \in 1 .. m : \E k \in 1 .. Len(pieces[i]) : pieces[i][k] = p
        BY <1>5, <1>7, <2>2, <4>1 DEF Holds
      <4> QED
        BY <1>17, <4>2
    <3> QED
      BY <3>1, <3>2
  <2> QED
    BY <1>15, <1>16, <2>1, <2>2 DEF Holds
<1>23. Ascending(out)
  <2> SUFFICES ASSUME NEW i \in 1 .. m, NEW j \in 1 .. m,
                      NEW a \in 1 .. Len(out[i]), NEW b \in 1 .. Len(out[j]),
                      i < j \/ (i = j /\ a < b)
               PROVE  out[i][a] < out[j][b]
    BY <1>15 DEF Ascending
  <2>1. a \in 1 .. Len(pieces[i])
    <3>1. SUFFICES ASSUME i = m, a = e + 1 PROVE FALSE
      BY <1>18
    <3>2. j = m /\ a < b
      BY <1>5, <3>1
    <3>3. Len(out[j]) = e + 1
      BY <1>14, <1>15, <3>2
    <3>4. b \in 1 .. e + 1
      BY <3>3
    <3> QED
      BY <3>1, <3>2, <3>4
  <2>2. CASE b \in 1 .. Len(pieces[j])
    <3>1. pieces[i][a] < pieces[j][b]
      BY <1>5, <1>7, <2>1, <2>2 DEF Ascending
    <3> QED
      BY <1>17, <2>1, <2>2, <3>1
  <2>3. CASE out[j][b] = n
    BY <1>21, <2>1, <2>3
  <2> QED
    BY <1>18, <2>2, <2>3
<1>24. Full(section, out)
  <2>1. ASSUME NEW i \in 1 .. m PROVE Sized(section, out[i]) <= MaxChunk \/ Len(out[i]) = 1
    <3>1. CASE i = m
      <4>1. Sized(section, out[i]) = grown
        BY <1>15, <1>20, <3>1
      <4> QED
        BY <1>4, <4>1
    <3>2. CASE i # m
      BY <1>5, <1>7, <1>15, <3>2 DEF Full
    <3> QED
      BY <3>1, <3>2
  <2>2. ASSUME NEW i \in 1 .. m - 1
        PROVE  Sized(section, out[i]) + Gap + section[out[i + 1][1]] > MaxChunk
    <3>1. i \in 1 .. m /\ i # m /\ i + 1 \in 1 .. m
      BY <1>5
    <3>2. out[i] = pieces[i]
      BY <1>15, <3>1
    <3>3. out[i + 1][1] = pieces[i + 1][1]
      <4>1. 1 \in 1 .. Len(pieces[i + 1])
        BY <1>9, <3>1
      <4> QED
        BY <1>17, <3>1, <4>1
    <3>4. Sized(section, pieces[i]) + Gap + section[pieces[i + 1][1]] > MaxChunk
      BY <1>5, <1>7 DEF Full
    <3> QED
      BY <3>2, <3>3, <3>4
  <2> QED
    BY <1>15, <2>1, <2>2 DEF Full
<1>25. new = [pieces |-> out, size |-> grown]
  BY <1>1, <1>2, <1>3, <1>4, <1>8 DEF AtTurn, Extended, Gatherings
<1>26. grown = Sized(section, out[Len(out)])
  BY <1>15, <1>20
<1>27. new \in Gatherings(section)
  BY <1>15, <1>25 DEF Gatherings
<1> QED
  BY <1>22, <1>23, <1>24, <1>25, <1>26, <1>27 DEF AfterTurn, GatheredInv

\* A sequence of one element.
LEMMA SingletonType == \A S : \A x \in S : <<x>> \in Seq(S)
  OBVIOUS

\* A paragraph that does not fit begins a piece.
LEMMA PieceBegins ==
    ASSUME NEW section \in Seq(Nat), NEW n \in DOMAIN section, NEW parts,
           AtTurn(section, n, parts), ~Fits(parts, section[n]),
           NEW new, new = [pieces |-> Append(parts.pieces, <<n>>), size |-> section[n]]
    PROVE  AfterTurn(section, n, new)
<1>1. PICK pieces \in Seq(Seq(DOMAIN section)) : pieces = parts.pieces
  BY DEF AtTurn, Gatherings
<1>2. PICK para \in Nat : para = section[n]
  BY PlacesType
<1>3. PICK m \in Nat : m = Len(pieces)
  BY PlacesType
<1>4. /\ Holds(section, n - 1, pieces) /\ Ascending(pieces) /\ Full(section, pieces)
      /\ m # 0 => Sized(section, pieces[m]) + Gap + para > MaxChunk
  <2>1. Holds(section, n - 1, pieces) /\ Ascending(pieces) /\ Full(section, pieces)
    BY <1>1 DEF AtTurn, GatheredInv
  <2>2. ASSUME m # 0 PROVE Sized(section, pieces[m]) + Gap + para > MaxChunk
    <3>1. PICK size \in Nat : size = parts.size
      BY DEF AtTurn, Gatherings
    <3>2. size = Sized(section, pieces[m])
      BY <1>1, <1>3, <2>2, <3>1 DEF AtTurn, GatheredInv
    <3>3. ~(size + para + Gap <= MaxChunk)
      <4>1. pieces # <<>>
        BY <1>3, <2>2
      <4> QED
        BY <1>1, <1>2, <3>1, <4>1 DEF Fits
    <3>4. size + Gap + para > MaxChunk
      <4>1. Gap \in Nat /\ MaxChunk \in Nat
        BY ChunkerAssumptions DEF ChunkerAssumptions
      <4> QED
        BY <3>3, <4>1
    <3> QED
      BY <3>2, <3>4
  <2> QED
    BY <2>1, <2>2
<1>5. n \in Nat /\ n > 0 /\ MaxChunk \in Nat
  BY PlacesType, ChunkerAssumptions DEF ChunkerAssumptions
<1>6. PICK piece \in Seq(DOMAIN section) : piece = <<n>>
  BY SingletonType
<1>7. Len(piece) = 1 /\ piece[1] = n /\ Sized(section, piece) = para
  <2>1. PICK none \in Seq(DOMAIN section) : Len(none) = 0
    BY EmptySeq
  <2>2. Sized(section, <<n>>) = section[n]
    BY <2>1, SizeOfAppend
  <2> QED
    BY <1>2, <1>6, <2>2
<1>8. PICK out \in Seq(Seq(DOMAIN section)) : out = Append(pieces, piece)
  BY AppendProperties
<1>9. Len(out) = m + 1 /\ out[m + 1] = piece /\ \A i \in 1 .. m : out[i] = pieces[i]
  BY <1>3, <1>8, AppendProperties
<1>10. PICK l \in Nat : l = m + 1
  BY <1>3
<1>11. /\ Len(out) = l /\ l \in 1 .. l /\ out[l] = piece
       /\ \A i \in 1 .. l : i \in 1 .. m \/ i = l
       /\ \A i \in 1 .. m : i \in 1 .. l /\ i < l
  BY <1>9, <1>10
<1>12. 1 \in 1 .. Len(out[l]) /\ \A k \in 1 .. Len(out[l]) : k = 1 /\ out[l][k] = n
  <2>1. 1 \in 1 .. 1 /\ \A k \in 1 .. 1 : k = 1
    OBVIOUS
  <2> QED
    BY <1>7, <1>11, <2>1, Zenon
<1>13. /\ \A i \in 1 .. m : Len(pieces[i]) \in Nat /\ Len(pieces[i]) > 0
       /\ \A i \in 1 .. m : \A k \in 1 .. Len(pieces[i]) :
             pieces[i][k] \in Nat /\ pieces[i][k] < n
  <2>1. /\ \A i \in 1 .. m : Len(pieces[i]) \in Nat /\ Len(pieces[i]) > 0
        /\ \A i \in 1 .. m : \A k \in 1 .. Len(pieces[i]) :
              pieces[i][k] \in Nat /\ pieces[i][k] <= n - 1
    BY <1>3, <1>4, PlacesType DEF Holds
  <2>2. \A x, y \in Nat : x <= y - 1 => x < y
    OBVIOUS
  <2> QED
    BY <1>5, <2>1, <2>2, Zenon
<1>14. Holds(section, n, out)
  <2>1. ASSUME NEW i \in 1 .. l
        PROVE  Len(out[i]) > 0 /\ \A k \in 1 .. Len(out[i]) : out[i][k] <= n
    <3>1. CASE i \in 1 .. m
      <4>1. \A x, y \in Nat : x < y => x <= y
        OBVIOUS
      <4> QED
        BY <1>5, <1>9, <1>13, <3>1, <4>1, Zenon
    <3>2. CASE i = l
      <4>1. Len(out[i]) = 1
        BY <1>7, <1>11, <3>2
      <4>2. \A x \in Nat : x <= x
        OBVIOUS
      <4>3. n <= n
        BY <1>5, <4>2, Zenon
      <4>4. \A k \in 1 .. Len(out[i]) : out[i][k] <= n
        BY <1>12, <3>2, <4>3, Zenon
      <4> QED
        BY <4>1, <4>4
    <3> QED
      BY <1>11, <3>1, <3>2
  <2>2. ASSUME NEW p \in 1 .. n, section[p] > 0
        PROVE  \E i \in 1 .. l : \E k \in 1 .. Len(out[i]) : out[i][k] = p
    <3>1. CASE p = n
      <4>1. out[l][1] = p
        BY <1>12, <3>1, Zenon
      <4> QED
        BY <1>11, <1>12, <4>1
    <3>2. CASE p # n
      <4>1. p \in 1 .. n - 1
        BY <1>5, <3>2
      <4>2. PICK i \in 1 .. m : \E k \in 1 .. Len(pieces[i]) : pieces[i][k] = p
        BY <1>3, <1>4, <2>2, <4>1 DEF Holds
      <4> QED
        BY <1>9, <1>11, <4>2
    <3> QED
      BY <3>1, <3>2
  <2> QED
    BY <1>11, <2>1, <2>2 DEF Holds
<1>15. Ascending(out)
  <2> SUFFICES ASSUME NEW i \in 1 .. l, NEW j \in 1 .. l,
                      NEW a \in 1 .. Len(out[i]), NEW b \in 1 .. Len(out[j]),
                      i < j \/ (i = j /\ a < b)
               PROVE  out[i][a] < out[j][b]
    BY <1>11 DEF Ascending
  <2>1. CASE i = l
    <3>1. j = l /\ a < b /\ Len(out[j]) = 1 /\ Len(out[i]) = 1
      BY <1>7, <1>11, <2>1
    <3> QED
      BY <3>1
  <2>2. CASE i \in 1 .. m /\ j \in 1 .. m
    BY <1>3, <1>4, <1>9, <2>2 DEF Ascending
  <2>3. CASE i \in 1 .. m /\ j = l
    <3>1. out[j][b] = n
      BY <1>12, <2>3, Zenon
    <3> QED
      BY <1>9, <1>13, <2>3, <3>1
  <2> QED
    BY <1>11, <2>1, <2>2, <2>3
<1>16. Full(section, out)
  <2>1. ASSUME NEW i \in 1 .. l PROVE Sized(section, out[i]) <= MaxChunk \/ Len(out[i]) = 1
    <3>1. CASE i \in 1 .. m
      BY <1>3, <1>4, <1>9, <3>1 DEF Full
    <3>2. CASE i = l
      BY <1>7, <1>11, <3>2
    <3> QED
      BY <1>11, <3>1, <3>2
  <2>2. ASSUME NEW i \in 1 .. l - 1
        PROVE  Sized(section, out[i]) + Gap + section[out[i + 1][1]] > MaxChunk
    <3>1. i \in 1 .. m
      BY <1>10
    <3>2. out[i] = pieces[i]
      BY <1>9, <3>1
    <3>3. CASE i = m
      <4>1. m # 0 /\ i + 1 = l
        BY <1>10, <3>1, <3>3
      <4>2. section[out[i + 1][1]] = para
        BY <1>2, <1>7, <1>11, <4>1
      <4> QED
        BY <1>4, <3>2, <3>3, <4>1, <4>2
    <3>4. CASE i # m
      <4>1. i \in 1 .. m - 1 /\ i + 1 \in 1 .. m
        BY <3>1, <3>4
      <4>2. out[i + 1] = pieces[i + 1]
        BY <1>9, <4>1
      <4> QED
        BY <1>3, <1>4, <3>2, <4>1, <4>2 DEF Full
    <3> QED
      BY <3>3, <3>4
  <2> QED
    BY <1>11, <2>1, <2>2 DEF Full
<1>17. new = [pieces |-> out, size |-> para]
  BY <1>1, <1>2, <1>6, <1>8
<1>18. para = Sized(section, out[Len(out)])
  BY <1>7, <1>11
<1>19. new \in Gatherings(section)
  <2>1. out \in Seq(Seq(DOMAIN section)) /\ para \in Nat
    OBVIOUS
  <2>2. \A S : \A x \in S, y \in Nat :
            [pieces |-> x, size |-> y] \in [pieces : S, size : Nat]
    OBVIOUS
  <2> QED
    BY <1>17, <2>1, <2>2, Zenon DEF Gatherings
<1> QED
  <2>1. new.pieces = out /\ new.size = para
    BY <1>17
  <2> QED
    BY <1>14, <1>15, <1>16, <1>19, <1>18, <2>1, Zenon DEF AfterTurn, GatheredInv

\* A turn leaves pieces, whatever pieces it finds.
LEMMA GatheredType ==
    ASSUME NEW section \in Seq(Nat), NEW n \in DOMAIN section, NEW parts \in Gatherings(section)
    PROVE  Gathered(parts, n, section[n]) \in Gatherings(section)
<1>1. PICK pieces \in Seq(Seq(DOMAIN section)) : pieces = parts.pieces
  BY DEF Gatherings
<1>2. PICK para \in Nat : para = section[n]
  BY PlacesType
<1>3. PICK size \in Nat : size = parts.size /\ parts = [pieces |-> pieces, size |-> size]
  BY <1>1 DEF Gatherings
<1>4. \A S : \A x \in S, y \in Nat : [pieces |-> x, size |-> y] \in [pieces : S, size : Nat]
  OBVIOUS
<1>5. CASE para = 0
  BY <1>2, <1>5 DEF Gathered
<1>6. CASE para # 0 /\ Fits(parts, para)
  <2>1. PICK m \in Nat : m = Len(pieces) /\ m \in 1 .. m
    BY <1>1, <1>6, EmptySeq, LenProperties DEF Fits
  <2>2. PICK last \in Seq(DOMAIN section) : last = pieces[m]
    BY <2>1, PlacesType
  <2>3. PICK longer \in Seq(DOMAIN section) : longer = Append(last, n)
    BY AppendProperties
  <2>4. PICK out : out = [pieces EXCEPT ![m] = longer]
    OBVIOUS
  <2>5. out \in Seq(Seq(DOMAIN section))
    BY <2>1, <2>4, LenProperties
  <2>6. PICK grown \in Nat : grown = size + Gap + para
    BY ChunkerAssumptions DEF ChunkerAssumptions
  <2>7. Extended(parts, n, para) = [pieces |-> out, size |-> grown]
    <3>1. out = [pieces EXCEPT ![Len(pieces)] = Append(@, n)]
      BY <2>1, <2>2, <2>3, <2>4
    <3>2. Extended(parts, n, para)
            = [parts EXCEPT !.pieces = [pieces EXCEPT ![Len(pieces)] = Append(@, n)],
                            !.size = size + Gap + para]
      BY <1>3 DEF Extended
    <3> QED
      BY <1>3, <2>6, <3>1, <3>2
  <2>8. [pieces |-> out, size |-> grown] \in Gatherings(section)
    BY <1>4, <2>5, Zenon DEF Gatherings
  <2> QED
    BY <1>2, <1>6, <2>7, <2>8, Zenon DEF Gathered
<1>7. CASE para # 0 /\ ~Fits(parts, para)
  <2>1. PICK out \in Seq(Seq(DOMAIN section)) : out = Append(pieces, <<n>>)
    BY SingletonType, AppendProperties
  <2>2. [pieces |-> out, size |-> para] \in Gatherings(section)
    BY <1>4, Zenon DEF Gatherings
  <2> QED
    BY <1>1, <1>2, <1>7, <2>1, <2>2, Zenon DEF Gathered
<1> QED
  BY <1>5, <1>6, <1>7

\* A turn keeps the pieces exact.
LEMMA Turn ==
    ASSUME NEW section \in Seq(Nat), NEW n \in DOMAIN section, NEW parts,
           AtTurn(section, n, parts)
    PROVE  AfterTurn(section, n, Gathered(parts, n, section[n]))
<1>1. CASE section[n] = 0
  <2>1. Gathered(parts, n, section[n]) = parts
    BY <1>1 DEF Gathered
  <2>2. Holds(section, n - 1, parts.pieces)
    BY DEF AtTurn, GatheredInv
  <2>3. PICK pieces \in Seq(Seq(DOMAIN section)) : pieces = parts.pieces
    BY DEF AtTurn, Gatherings
  <2>4. Holds(section, n, pieces)
    <3>1. n \in Nat /\ n > 0
      BY PlacesType
    <3>2. \A x, y \in Nat : x <= y - 1 => x <= y
      OBVIOUS
    <3>3. \A p \in 1 .. n : p = n \/ p \in 1 .. n - 1
      BY <3>1
    <3>4. \A i \in 1 .. Len(pieces) : \A k \in 1 .. Len(pieces[i]) :
              pieces[i][k] \in Nat /\ pieces[i][k] <= n - 1
      BY <2>2, <2>3, PlacesType DEF Holds
    <3>5. \A i \in 1 .. Len(pieces) : \A k \in 1 .. Len(pieces[i]) : pieces[i][k] <= n
      BY <3>1, <3>2, <3>4, Zenon
    <3>6. ~(section[n] > 0)
      BY <1>1
    <3>7. \A p \in 1 .. n : section[p] > 0 => p \in 1 .. n - 1
      BY <3>3, <3>6, Zenon
    <3> QED
      BY <2>2, <2>3, <3>5, <3>7, Zenon DEF Holds
  <2> QED
    BY <2>1, <2>3, <2>4, Zenon DEF AtTurn, AfterTurn, GatheredInv
<1>2. CASE section[n] # 0 /\ Fits(parts, section[n])
  BY <1>2, LastPieceGrows, Zenon DEF Gathered
<1>3. CASE section[n] # 0 /\ ~Fits(parts, section[n])
  BY <1>3, PieceBegins, Zenon DEF Gathered
<1> QED
  BY <1>1, <1>2, <1>3

\* The recursion of Parts.
LEMMA PartsType ==
    ASSUME NEW section \in Seq(Nat)
    PROVE  /\ Parts(section) \in [0 .. Len(section) -> Gatherings(section)]
           /\ Parts(section)[0] = NoParts
           /\ \A n \in 1 .. Len(section) :
                 Parts(section)[n] = Gathered(Parts(section)[n - 1], n, section[n])
<1> DEFINE turn(n, parts) == Gathered(parts, n, section[n])
           step == [n \in 1 .. Len(section) |-> [parts \in Gatherings(section) |-> turn(n, parts)]]
<1>1. PICK k \in Nat : k = Len(section) /\ DOMAIN section = 1 .. k
  BY LenProperties
<1>2. \A n \in 1 .. k, parts \in Gatherings(section) : turn(n, parts) \in Gatherings(section)
  BY <1>1, GatheredType
<1> HIDE DEF turn
<1>3. /\ step \in [1 .. k -> [Gatherings(section) -> Gatherings(section)]]
      /\ \A n \in 1 .. k : \A parts \in Gatherings(section) : step[n][parts] = turn(n, parts)
  BY <1>1, <1>2
<1> HIDE DEF step
<1>4. PICK f \in [0 .. k -> Gatherings(section)] :
          f[0] = NoParts /\ \A n \in 1 .. k : f[n] = step[n][f[n - 1]]
  <2>1. NoParts \in Gatherings(section)
    <3>1. <<>> \in Seq(Seq(DOMAIN section)) /\ 0 \in Nat
      BY EmptySeq
    <3> QED
      BY <3>1 DEF NoParts, Gatherings
  <2>2. Courses(Gatherings(section), NoParts, k, step) # {}
    BY <1>3, <2>1, Iteration
  <2> QED
    BY <2>2 DEF Courses
<1>5. \A n \in 1 .. k : f[n] = turn(n, f[n - 1])
  <2> TAKE n \in 1 .. k
  <2>1. n - 1 \in 0 .. k /\ f[n - 1] \in Gatherings(section)
    OBVIOUS
  <2> QED
    BY <1>3, <1>4, <2>1
<1>6. f = [n \in 0 .. k |-> IF n = 0 THEN NoParts ELSE turn(n, f[n - 1])]
  <2>1. \A n \in 0 .. k : f[n] = IF n = 0 THEN NoParts ELSE turn(n, f[n - 1])
    BY <1>4, <1>5
  <2> QED
    BY <2>1
<1>7. Parts(section)
        = [n \in 0 .. k |-> IF n = 0 THEN NoParts ELSE turn(n, Parts(section)[n - 1])]
  BY <1>1, <1>6, Zenon DEF Parts, turn
<1>8. \A n \in 0 .. k : Parts(section)[n] = f[n]
  <2> DEFINE T == {n \in 0 .. k : Parts(section)[n] = f[n]}
  <2>1. 0 \in T
    BY <1>4, <1>7
  <2>2. ASSUME NEW n \in 1 .. k, n - 1 \in T PROVE n \in T
    <3>1. Parts(section)[n] = turn(n, Parts(section)[n - 1])
      BY <1>7
    <3> QED
      BY <1>5, <2>2, <3>1
  <2> HIDE DEF T
  <2>3. \A n \in 0 .. k : n \in T
    BY <2>1, <2>2, Induction
  <2> QED
    BY <2>3 DEF T
<1>9. Parts(section) = f
  BY <1>7, <1>8
<1> QED
  BY <1>1, <1>4, <1>5, <1>9 DEF turn

\* What the loop of splitLargeSection leaves.
LEMMA PartsExact ==
    ASSUME NEW section \in Seq(Nat)
    PROVE  AfterTurn(section, Len(section), Parts(section)[Len(section)])
<1>1. PICK k \in Nat : k = Len(section) /\ DOMAIN section = 1 .. k
  BY LenProperties
<1> DEFINE T == {n \in 0 .. k : AfterTurn(section, n, Parts(section)[n])}
<1>2. 0 \in T
  <2>1. Parts(section)[0] = NoParts
    BY PartsType
  <2>2. NoParts \in Gatherings(section)
    BY EmptySeq DEF NoParts, Gatherings
  <2>3. PICK none \in Seq(Seq(DOMAIN section)) : none = <<>> /\ Len(none) = 0
    BY EmptySeq
  <2>4. Holds(section, 0, none) /\ Ascending(none) /\ Full(section, none)
    BY <2>3 DEF Holds, Ascending, Full
  <2>5. NoParts.pieces = none
    BY <2>3 DEF NoParts
  <2>6. AfterTurn(section, 0, NoParts)
    BY <2>2, <2>3, <2>4, <2>5, Zenon DEF AfterTurn, GatheredInv
  <2> QED
    BY <2>1, <2>6
<1>3. ASSUME NEW n \in 1 .. k, n - 1 \in T PROVE n \in T
  <2>1. AtTurn(section, n, Parts(section)[n - 1])
    BY <1>3 DEF AtTurn, AfterTurn
  <2>2. AfterTurn(section, n, Gathered(Parts(section)[n - 1], n, section[n]))
    BY <1>1, <2>1, Turn
  <2>3. Parts(section)[n] = Gathered(Parts(section)[n - 1], n, section[n])
    BY <1>1, PartsType
  <2> QED
    BY <2>2, <2>3
<1> HIDE DEF T
<1>4. \A n \in 0 .. k : n \in T
  BY <1>2, <1>3, Induction
<1>5. k \in T
  BY <1>4
<1> QED
  BY <1>1, <1>5 DEF T

\* SplitExact of given pieces.
Splits(section, pieces) ==
    /\ pieces \in Seq(Seq(DOMAIN section))
    /\ Ascending(pieces)
    /\ \A p \in Written(section) :
          \E i \in 1 .. Len(pieces) : \E k \in 1 .. Len(pieces[i]) : pieces[i][k] = p
    /\ \A i \in 1 .. Len(pieces) :
          Sized(section, pieces[i]) <= MaxChunk \/ Len(pieces[i]) = 1
    /\ \A i \in 1 .. Len(pieces) - 1 :
          pieces[i] # <<>> =>
              Sized(section, pieces[i]) + Gap + section[pieces[i + 1][1]] > MaxChunk

\* A section that fits is one piece.
LEMMA WholeExact ==
    ASSUME NEW section \in Seq(Nat), Length(section) <= MaxChunk,
           NEW whole, whole = [p \in DOMAIN section |-> p]
    PROVE  Splits(section, <<whole>>)
<1>1. PICK n \in Nat : n = Len(section) /\ DOMAIN section = 1 .. n
  BY LenProperties
<1>2. /\ whole \in Seq(DOMAIN section) /\ Len(whole) = n
      /\ \A k \in 1 .. n : whole[k] = k
  BY <1>1
<1>3. PICK pieces \in Seq(Seq(DOMAIN section)) : pieces = <<whole>>
  BY <1>2, SingletonType
<1>4. Len(pieces) = 1 /\ pieces[1] = whole
  BY <1>3
<1>5. 1 \in 1 .. 1 /\ \A i \in 1 .. 1 : i = 1
  OBVIOUS
<1>6. Ascending(pieces)
  <2> SUFFICES ASSUME NEW i \in 1 .. 1, NEW j \in 1 .. 1,
                      NEW a \in 1 .. Len(pieces[i]), NEW b \in 1 .. Len(pieces[j]),
                      i < j \/ (i = j /\ a < b)
               PROVE  pieces[i][a] < pieces[j][b]
    BY <1>4 DEF Ascending
  <2>1. i = 1 /\ j = 1 /\ a < b
    OBVIOUS
  <2>2. a \in 1 .. n /\ b \in 1 .. n
    BY <1>2, <1>4, <2>1
  <2> QED
    BY <1>2, <1>4, <2>1, <2>2
<1>7. \A p \in Written(section) : p \in 1 .. n /\ pieces[1][p] = p
  BY <1>1, <1>2, <1>4 DEF Written
<1>8. Sized(section, whole) = Length(section)
  <2>1. section = [k \in 1 .. n |-> section[k]]
    BY <1>1, LenProperties
  <2>2. TextOfPiece(section, whole) = [k \in 1 .. n |-> section[k]]
    BY <1>1, <1>2, LenProperties DEF TextOfPiece
  <2> QED
    BY <2>1, <2>2 DEF Sized
<1>9. ~\E i \in 1 .. Len(pieces) - 1 : TRUE
  BY <1>4
<1>10. \A p \in Written(section) :
           \E i \in 1 .. Len(pieces) : \E k \in 1 .. Len(pieces[i]) : pieces[i][k] = p
  <2>1. 1 \in 1 .. Len(pieces) /\ Len(pieces[1]) = n
    BY <1>2, <1>4, <1>5
  <2> QED
    BY <1>7, <2>1, Zenon
<1>11. \A i \in 1 .. Len(pieces) : Sized(section, pieces[i]) <= MaxChunk
  <2>1. \A i \in 1 .. Len(pieces) : pieces[i] = whole
    BY <1>4, <1>5
  <2> QED
    BY <1>8, <2>1, Zenon
<1>12. \A i \in 1 .. Len(pieces) - 1 :
           pieces[i] # <<>> =>
               Sized(section, pieces[i]) + Gap + section[pieces[i + 1][1]] > MaxChunk
  BY <1>9, Zenon
<1>13. Splits(section, pieces)
  BY <1>6, <1>10, <1>11, <1>12, Zenon DEF Splits
<1> QED
  BY <1>3, <1>13

\* What is left to splitByRunes has no paragraph.
LEMMA BlankExact ==
    ASSUME NEW section \in Seq(Nat), Written(section) = {}
    PROVE  Splits(section, SplitByRunes(section))
<1>1. PICK q \in Nat : q = (Length(section) + MaxChunk - 1) \div MaxChunk
  <2>1. PICK x \in Nat : x = Length(section)
    BY LengthOfAppend
  <2>2. MaxChunk \in Nat /\ MaxChunk > 0
    BY ChunkerAssumptions DEF ChunkerAssumptions
  <2>3. x + MaxChunk - 1 \in Nat
    BY <2>2
  <2>4. (x + MaxChunk - 1) \div MaxChunk \in Nat
    BY <2>2, <2>3
  <2> QED
    BY <2>1, <2>4
<1>2. PICK empty \in Seq(DOMAIN section) : empty = <<>> /\ Len(empty) = 0
  BY EmptySeq
<1>3. PICK pieces : pieces = [i \in 1 .. q |-> empty]
  OBVIOUS
<1>4. pieces = SplitByRunes(section)
  BY <1>1, <1>2, <1>3 DEF SplitByRunes
<1>5. /\ pieces \in Seq(Seq(DOMAIN section)) /\ Len(pieces) = q
      /\ \A i \in 1 .. q : pieces[i] = empty
  BY <1>3
<1>6. Ascending(pieces)
  BY <1>2, <1>5 DEF Ascending
<1>7. Sized(section, empty) <= MaxChunk
  <2>1. PICK none \in Seq(Nat) : none = <<>> /\ Len(none) = 0
    BY EmptySeq
  <2>2. TextOfPiece(section, empty) = none
    BY <1>2, <2>1 DEF TextOfPiece
  <2>3. Length(none) = 0
    BY <2>1, RunesType DEF Length
  <2> QED
    BY <2>2, <2>3, ChunkerAssumptions DEF Sized, ChunkerAssumptions
<1>8. \A i \in 1 .. q - 1 : i \in 1 .. q
  OBVIOUS
<1> QED
  BY <1>2, <1>4, <1>5, <1>6, <1>7, <1>8, Zenon DEF Splits

\* Whichever of the three splits a section.
LEMMA SplitLargeSectionExact ==
    ASSUME NEW section \in Seq(Nat)
    PROVE  Splits(section, SplitLargeSection(section))
<1>1. CASE Length(section) <= MaxChunk
  BY <1>1, WholeExact, Zenon DEF SplitLargeSection
<1>2. CASE ~(Length(section) <= MaxChunk)
  <2>1. PICK parts : parts = Parts(section)[Len(section)]
    OBVIOUS
  <2>2. AfterTurn(section, Len(section), parts)
    BY <2>1, PartsExact
  <2>3. PICK pieces \in Seq(Seq(DOMAIN section)) : pieces = parts.pieces
    BY <2>2 DEF AfterTurn, Gatherings
  <2>4. Holds(section, Len(section), pieces) /\ Ascending(pieces) /\ Full(section, pieces)
    BY <2>2, <2>3 DEF AfterTurn, GatheredInv
  <2>5. \A p \in Written(section) :
            \E i \in 1 .. Len(pieces) : \E k \in 1 .. Len(pieces[i]) : pieces[i][k] = p
    BY <2>4, LenProperties DEF Holds, Written
  <2>6. CASE pieces # <<>>
    <3>1. SplitLargeSection(section) = pieces
      BY <1>2, <2>1, <2>3, <2>6, Zenon DEF SplitLargeSection
    <3> QED
      BY <2>4, <2>5, <3>1, Zenon DEF Splits, Full
  <2>7. CASE pieces = <<>>
    <3>1. SplitLargeSection(section) = SplitByRunes(section)
      BY <1>2, <2>1, <2>3, <2>7, Zenon DEF SplitLargeSection
    <3>2. ~\E i \in 1 .. Len(pieces) : TRUE
      BY <2>7
    <3>3. Written(section) = {}
      BY <2>5, <3>2, Zenon
    <3> QED
      BY <3>1, <3>3, BlankExact
  <2> QED
    BY <2>6, <2>7
<1> QED
  BY <1>1, <1>2

\* A piece of one paragraph is as long as it.
LEMMA OrdinaryFits ==
    ASSUME NEW section \in Seq(Nat), NEW piece \in Seq(DOMAIN section),
           Sized(section, piece) <= MaxChunk \/ Len(piece) = 1,
           \A k \in 1 .. Len(piece) : ~Oversized(section, piece[k])
    PROVE  Sized(section, piece) <= MaxChunk
<1>1. CASE Len(piece) = 1
  <2>1. 1 \in 1 .. Len(piece)
    BY <1>1
  <2>2. PICK p \in DOMAIN section : p = piece[1] /\ ~Oversized(section, p)
    BY <2>1, ElementOfSeq, Zenon
  <2>3. piece = <<p>>
    BY <1>1, <2>2
  <2>4. Sized(section, <<p>>) = section[p]
    BY SizeOfAppend
  <2>5. section[p] \in Nat
    BY LenProperties, ElementOfSeq
  <2>6. section[p] <= MaxChunk
    BY <2>2, <2>5, ChunkerAssumptions DEF Oversized, ChunkerAssumptions
  <2> QED
    BY <2>3, <2>4, <2>6
<1>2. CASE Sized(section, piece) <= MaxChunk
  BY <1>2
<1> QED
  BY <1>1, <1>2

\* splitLargeSection loses no paragraph of any section, keeps them in order, makes no piece
\* longer than maxChunkRunes of paragraphs that are not, and begins a piece only where the
\* last one could not take the paragraph in.
THEOREM SplitIsExact == \A section \in Seq(Nat) : SplitExact(section)
<1> SUFFICES ASSUME NEW section \in Seq(Nat) PROVE SplitExact(section)
  OBVIOUS
<1>1. PICK pieces : pieces = SplitLargeSection(section) /\ Splits(section, pieces)
  BY SplitLargeSectionExact
<1>2. InOrder(section, pieces)
  <2>1. Ascending(pieces)
    BY <1>1, Zenon DEF Splits
  <2> QED
    BY <2>1 DEF Ascending, InOrder
<1>3. ASSUME NEW i \in 1 .. Len(pieces),
             \A k \in 1 .. Len(pieces[i]) : ~Oversized(section, pieces[i][k])
      PROVE  Sized(section, pieces[i]) <= MaxChunk
  <2>1. pieces[i] \in Seq(DOMAIN section)
    BY <1>1, ElementOfSeq DEF Splits
  <2>2. Sized(section, pieces[i]) <= MaxChunk \/ Len(pieces[i]) = 1
    BY <1>1, Zenon DEF Splits
  <2> QED
    BY <1>3, <2>1, <2>2, OrdinaryFits
<1> QED
  BY <1>1, <1>2, <1>3, Zenon DEF Splits, SplitExact, Sized

--------------------------------------------------------------------------------
(* Documents *)

Piece == [section : Nat, paras : Seq(Nat)]

Precedes(piece, other) ==
    \/ piece.section < other.section
    \/ /\ piece.section = other.section
       /\ \A a \in 1 .. Len(piece.paras), b \in 1 .. Len(other.paras) :
              piece.paras[a] < other.paras[b]

Has(piece, s, p) ==
    piece.section = s /\ \E k \in 1 .. Len(piece.paras) : piece.paras[k] = p

\* What the pieces of the first n sections of a document are.
Gathering(document, n, pieces) ==
    /\ \A i \in 1 .. Len(pieces) :
          /\ pieces[i].section \in 1 .. n
          /\ pieces[i].paras \in Seq(DOMAIN document[pieces[i].section])
    /\ \A s \in 1 .. n : \A p \in Written(document[s]) :
          \E i \in 1 .. Len(pieces) : Has(pieces[i], s, p)
    /\ \A i, j \in 1 .. Len(pieces) : i < j => Precedes(pieces[i], pieces[j])

\* The pieces of a section, as pieces of its document.
LEMMA OfType ==
    ASSUME NEW section \in Seq(Nat), NEW n \in Nat,
           NEW pieces \in Seq(Seq(DOMAIN section))
    PROVE  /\ Of(n, pieces) \in Seq(Piece)
           /\ Len(Of(n, pieces)) = Len(pieces)
           /\ \A i \in 1 .. Len(pieces) :
                 /\ Of(n, pieces)[i].section = n
                 /\ Of(n, pieces)[i].paras = pieces[i]
<1>1. PICK m \in Nat : m = Len(pieces) /\ DOMAIN pieces = 1 .. m
  BY LenProperties
<1>2. \A i \in 1 .. m : pieces[i] \in Seq(Nat)
  <2> TAKE i \in 1 .. m
  <2>1. PICK piece \in Seq(DOMAIN section) : piece = pieces[i]
    BY <1>1, ElementOfSeq
  <2>2. \A k \in 1 .. Len(piece) : piece[k] \in Nat
    <3>1. \A k \in 1 .. Len(piece) : piece[k] \in DOMAIN section
      BY <2>1, ElementOfSeq
    <3>2. \A p \in DOMAIN section : p \in Nat
      BY PlacesType
    <3> QED
      BY <3>1, <3>2, Zenon
  <2>3. piece \in Seq(Nat)
    BY <2>2, LenProperties
  <2> QED
    BY <2>1, <2>3
<1>3. Of(n, pieces) = [i \in 1 .. m |-> [section |-> n, paras |-> pieces[i]]]
  BY <1>1 DEF Of
<1>4. \A i \in 1 .. m : [section |-> n, paras |-> pieces[i]] \in Piece
  BY <1>2 DEF Piece
<1> QED
  BY <1>1, <1>3, <1>4

\* The pieces of one section more.
LEMMA SectionJoins ==
    ASSUME NEW document \in Seq(Seq(Nat)), NEW n \in Nat, NEW k \in Nat,
           k = n + 1, k \in 1 .. Len(document),
           NEW before \in Seq(Piece), Gathering(document, n, before),
           NEW joined, joined = before \o Of(k, SplitLargeSection(document[k]))
    PROVE  joined \in Seq(Piece) /\ Gathering(document, k, joined)
<1>1. PICK section \in Seq(Nat) : section = document[k]
  BY ElementOfSeq
<1>2. PICK pieces \in Seq(Seq(DOMAIN section)) :
          pieces = SplitLargeSection(section) /\ Splits(section, pieces)
  BY SplitLargeSectionExact DEF Splits
<1>3. PICK new \in Seq(Piece) :
          /\ new = Of(k, pieces) /\ Len(new) = Len(pieces)
          /\ \A i \in 1 .. Len(pieces) : new[i].section = k /\ new[i].paras = pieces[i]
  BY OfType
<1>4. PICK m \in Nat : m = Len(before)
  BY LenProperties
<1>5. PICK e \in Nat : e = Len(pieces) /\ e = Len(new)
  BY <1>3, LenProperties
<1>6. joined = before \o new
  BY <1>1, <1>2, <1>3
<1>7. PICK l \in Nat : l = m + e
  OBVIOUS
<1>8. /\ joined \in Seq(Piece) /\ Len(joined) = l
      /\ \A i \in 1 .. l : joined[i] = IF i <= m THEN before[i] ELSE new[i - m]
  <2>1. PICK both \in Seq(Piece) : both = before \o new
    BY ConcatProperties
  <2>2. /\ Len(both) = Len(before) + Len(new)
        /\ \A i \in 1 .. Len(before) + Len(new) :
              both[i] = IF i <= Len(before) THEN before[i] ELSE new[i - Len(before)]
    BY <2>1, ConcatProperties
  <2>3. Len(before) + Len(new) = l
    BY <1>4, <1>5, <1>7
  <2> QED
    BY <1>4, <1>6, <2>1, <2>2, <2>3, Zenon
<1>9. \A i \in 1 .. m : i \in 1 .. l /\ joined[i] = before[i]
  <2> TAKE i \in 1 .. m
  <2>1. i \in 1 .. l /\ i <= m
    BY <1>7
  <2> QED
    BY <1>8, <2>1
<1>10. \A i \in 1 .. e : i + m \in 1 .. l /\ joined[i + m] = new[i]
  <2> TAKE i \in 1 .. e
  <2>1. PICK x \in 1 .. l : x = i + m /\ ~(x <= m) /\ x - m = i
    BY <1>7
  <2>2. joined[x] = IF x <= m THEN before[x] ELSE new[x - m]
    BY <1>8
  <2>3. joined[x] = new[i]
    BY <2>1, <2>2
  <2> QED
    BY <2>1, <2>3
<1>11. \A i \in 1 .. l : i \in 1 .. m \/ (i - m \in 1 .. e /\ joined[i] = new[i - m])
  <2> TAKE i \in 1 .. l
  <2>1. i \in 1 .. m \/ (i - m \in 1 .. e /\ ~(i <= m))
    BY <1>7
  <2> QED
    BY <1>8, <2>1
<1>12. ASSUME NEW i \in 1 .. l
       PROVE  /\ joined[i].section \in 1 .. k
              /\ joined[i].paras \in Seq(DOMAIN document[joined[i].section])
  <2>1. CASE i \in 1 .. m
    <3>1. /\ before[i].section \in 1 .. n
          /\ before[i].paras \in Seq(DOMAIN document[before[i].section])
      BY <1>4, <2>1 DEF Gathering
    <3>2. \A s \in 1 .. n : s \in 1 .. k
      OBVIOUS
    <3> QED
      BY <1>9, <2>1, <3>1, <3>2, Zenon
  <2>2. CASE i - m \in 1 .. e /\ joined[i] = new[i - m]
    <3>1. new[i - m].section = k /\ new[i - m].paras = pieces[i - m]
      BY <1>3, <1>5, <2>2
    <3>2. pieces[i - m] \in Seq(DOMAIN section)
      BY <1>5, <2>2, ElementOfSeq
    <3>3. k \in 1 .. k
      OBVIOUS
    <3> QED
      BY <1>1, <2>2, <3>1, <3>2, <3>3, Zenon
  <2> QED
    BY <1>11, <2>1, <2>2
<1>13. ASSUME NEW s \in 1 .. k, NEW p \in Written(document[s])
       PROVE  \E i \in 1 .. l : Has(joined[i], s, p)
  <2>1. CASE s = k
    <3>1. PICK i \in 1 .. e : \E q \in 1 .. Len(pieces[i]) : pieces[i][q] = p
      <4>1. p \in Written(section)
        BY <1>1, <2>1, Zenon
      <4> QED
        BY <1>2, <1>5, <4>1, ZenonT(60) DEF Splits
    <3>2. Has(new[i], s, p)
      BY <1>3, <1>5, <2>1, <3>1, Zenon DEF Has
    <3> QED
      BY <1>10, <3>2
  <2>2. CASE s # k
    <3>1. s \in 1 .. n
      BY <2>2
    <3>2. PICK i \in 1 .. m : Has(before[i], s, p)
      BY <1>4, <3>1 DEF Gathering
    <3> QED
      BY <1>9, <3>2
  <2> QED
    BY <2>1, <2>2
<1>14. ASSUME NEW i \in 1 .. l, NEW j \in 1 .. l, i < j
       PROVE  Precedes(joined[i], joined[j])
  <2>1. CASE j \in 1 .. m
    <3>1. i \in 1 .. m
      BY <1>14, <2>1
    <3>2. Precedes(before[i], before[j])
      BY <1>4, <1>14, <2>1, <3>1 DEF Gathering
    <3> QED
      BY <1>9, <2>1, <3>1, <3>2
  <2>2. CASE i \in 1 .. m /\ j - m \in 1 .. e /\ joined[j] = new[j - m]
    <3>1. before[i].section \in 1 .. n
      BY <1>4, <2>2 DEF Gathering
    <3>2. new[j - m].section = k
      BY <1>3, <1>5, <2>2
    <3>3. \A s \in 1 .. n : s < k
      OBVIOUS
    <3> QED
      BY <1>9, <2>2, <3>1, <3>2, <3>3, Zenon DEF Precedes
  <2>3. CASE /\ i - m \in 1 .. e /\ joined[i] = new[i - m]
             /\ j - m \in 1 .. e /\ joined[j] = new[j - m]
    <3>1. PICK x \in 1 .. e : x = i - m
      BY <2>3
    <3>2. PICK y \in 1 .. e : y = j - m
      BY <2>3
    <3>3. x < y
      BY <1>14, <3>1, <3>2
    <3>4. /\ joined[i].section = k /\ joined[i].paras = pieces[x]
          /\ joined[j].section = k /\ joined[j].paras = pieces[y]
      BY <1>3, <1>5, <2>3, <3>1, <3>2, Zenon
    <3>5. \A a \in 1 .. Len(pieces[x]), b \in 1 .. Len(pieces[y]) : pieces[x][a] < pieces[y][b]
      BY <1>2, <1>5, <3>3 DEF Splits, Ascending
    <3> QED
      BY <3>4, <3>5, Zenon DEF Precedes
  <2> QED
    BY <1>11, <2>1, <2>2, <2>3, Zenon
<1>15. Gathering(document, k, joined)
  <2>1. \A i \in 1 .. l :
            /\ joined[i].section \in 1 .. k
            /\ joined[i].paras \in Seq(DOMAIN document[joined[i].section])
    BY <1>12
  <2>2. \A s \in 1 .. k : \A p \in Written(document[s]) : \E i \in 1 .. l : Has(joined[i], s, p)
    BY <1>13
  <2>3. \A i, j \in 1 .. l : i < j => Precedes(joined[i], joined[j])
    BY <1>14
  <2>4. l = Len(joined)
    BY <1>8
  <2> QED
    BY <2>1, <2>2, <2>3, <2>4 DEF Gathering
<1> QED
  BY <1>8, <1>15

\* The recursion of Pieces.
LEMMA PiecesExact ==
    ASSUME NEW document \in Seq(Seq(Nat))
    PROVE  /\ Pieces(document) \in Seq(Piece)
           /\ Gathering(document, Len(document), Pieces(document))
<1> DEFINE more(n, pieces) == pieces \o Of(n, SplitLargeSection(document[n]))
           step == [n \in 1 .. Len(document) |-> [pieces \in Seq(Piece) |-> more(n, pieces)]]
           upto[n \in 0 .. Len(document)] ==
               IF n = 0 THEN <<>> ELSE upto[n - 1] \o Of(n, SplitLargeSection(document[n]))
<1>1. PICK k \in Nat : k = Len(document)
  BY LenProperties
<1>2. ASSUME NEW n \in 1 .. k, NEW pieces \in Seq(Piece)
      PROVE  more(n, pieces) \in Seq(Piece)
  <2>1. PICK section \in Seq(Nat) : section = document[n]
    BY <1>1, ElementOfSeq
  <2>2. SplitLargeSection(section) \in Seq(Seq(DOMAIN section))
    BY SplitLargeSectionExact DEF Splits
  <2>3. PICK new \in Seq(Piece) : new = Of(n, SplitLargeSection(section))
    BY <2>2, OfType
  <2> QED
    BY <2>1, <2>3, ConcatProperties
<1> HIDE DEF more
<1>3. /\ step \in [1 .. k -> [Seq(Piece) -> Seq(Piece)]]
      /\ \A n \in 1 .. k : \A pieces \in Seq(Piece) : step[n][pieces] = more(n, pieces)
  BY <1>1, <1>2
<1> HIDE DEF step
<1>4. PICK f \in [0 .. k -> Seq(Piece)] :
          f[0] = <<>> /\ \A n \in 1 .. k : f[n] = step[n][f[n - 1]]
  <2>1. <<>> \in Seq(Piece)
    BY EmptySeq
  <2>2. Courses(Seq(Piece), <<>>, k, step) # {}
    BY <1>3, <2>1, Iteration
  <2> QED
    BY <2>2 DEF Courses
<1>5. \A n \in 1 .. k : f[n] = more(n, f[n - 1])
  <2> TAKE n \in 1 .. k
  <2>1. n - 1 \in 0 .. k /\ f[n - 1] \in Seq(Piece)
    OBVIOUS
  <2> QED
    BY <1>3, <1>4, <2>1
<1>6. f = [n \in 0 .. k |-> IF n = 0 THEN <<>> ELSE more(n, f[n - 1])]
  <2>1. \A n \in 0 .. k : f[n] = IF n = 0 THEN <<>> ELSE more(n, f[n - 1])
    BY <1>4, <1>5
  <2> QED
    BY <2>1
<1>7. upto = [n \in 0 .. k |-> IF n = 0 THEN <<>> ELSE more(n, upto[n - 1])]
  BY <1>1, <1>6, Zenon DEF more
<1>8. Pieces(document) = upto[k]
  BY <1>1, Zenon DEF Pieces
<1> HIDE DEF upto
<1>9. \A n \in 0 .. k : upto[n] = f[n]
  <2> DEFINE T == {n \in 0 .. k : upto[n] = f[n]}
  <2>1. 0 \in T
    BY <1>4, <1>7
  <2>2. ASSUME NEW n \in 1 .. k, n - 1 \in T PROVE n \in T
    <3>1. upto[n] = more(n, upto[n - 1])
      BY <1>7
    <3> QED
      BY <1>5, <2>2, <3>1
  <2> HIDE DEF T
  <2>3. \A n \in 0 .. k : n \in T
    BY <2>1, <2>2, Induction
  <2> QED
    BY <2>3 DEF T
<1> DEFINE T == {n \in 0 .. k : Gathering(document, n, f[n])}
<1>10. 0 \in T
  <2>1. PICK none \in Seq(Piece) : none = <<>> /\ Len(none) = 0
    BY EmptySeq
  <2>2. Gathering(document, 0, none)
    BY <2>1 DEF Gathering
  <2> QED
    BY <1>4, <2>1, <2>2
<1>11. ASSUME NEW n \in 1 .. k, n - 1 \in T PROVE n \in T
  <2>1. PICK m \in Nat : m = n - 1 /\ n = m + 1 /\ m \in 0 .. k
    OBVIOUS
  <2>2. PICK before \in Seq(Piece) : before = f[m]
    BY <1>4, <2>1
  <2>3. Gathering(document, m, before)
    BY <1>11, <2>1, <2>2
  <2>4. f[n] = before \o Of(n, SplitLargeSection(document[n]))
    BY <1>5, <2>1, <2>2 DEF more
  <2>5. n \in Nat /\ n \in 1 .. Len(document)
    BY <1>1
  <2>6. Gathering(document, n, f[n])
    BY <2>1, <2>3, <2>4, <2>5, SectionJoins
  <2> QED
    BY <2>6
<1> HIDE DEF T
<1>12. \A n \in 0 .. k : n \in T
  BY <1>10, <1>11, Induction
<1>13. k \in 0 .. k
  OBVIOUS
<1>14. Gathering(document, k, f[k]) /\ f[k] \in Seq(Piece)
  BY <1>12, <1>13 DEF T
<1> QED
  BY <1>1, <1>8, <1>9, <1>13, <1>14

\* Every paragraph of a document is in the text of one of its pieces.
LEMMA DocumentIsKept ==
    ASSUME NEW document \in Seq(Seq(Nat)), NEW s \in DOMAIN document,
           NEW p \in Written(document[s])
    PROVE  \E i \in DOMAIN Pieces(document) :
              <<s, p, document[s][p]>> \in TextOf(document, Pieces(document)[i])
<1>1. PICK pieces \in Seq(Piece) :
          pieces = Pieces(document) /\ Gathering(document, Len(document), pieces)
  BY PiecesExact
<1>2. s \in 1 .. Len(document)
  BY LenProperties
<1>3. PICK i \in 1 .. Len(pieces) : Has(pieces[i], s, p)
  BY <1>1, <1>2 DEF Gathering
<1>4. PICK piece \in Piece : piece = pieces[i] /\ Has(piece, s, p)
  BY <1>3, ElementOfSeq
<1>5. i \in DOMAIN pieces
  BY LenProperties
<1>6. PICK k \in 1 .. Len(piece.paras) : piece.paras[k] = p
  BY <1>4 DEF Has
<1>7. k \in DOMAIN piece.paras
  BY LenProperties DEF Piece
<1>8. <<s, p, document[s][p]>> \in TextOf(document, piece)
  BY <1>4, <1>6, <1>7, Zenon DEF Has, TextOf
<1> QED
  BY <1>1, <1>4, <1>5, <1>8

\* The paragraphs of a piece are before those of a later one.
LEMMA DocumentInOrder ==
    ASSUME NEW document \in Seq(Seq(Nat)),
           NEW i \in DOMAIN Pieces(document), NEW j \in DOMAIN Pieces(document), i < j,
           NEW para \in TextOf(document, Pieces(document)[i]),
           NEW other \in TextOf(document, Pieces(document)[j])
    PROVE  Before(para, other)
<1>1. PICK pieces \in Seq(Piece) :
          pieces = Pieces(document) /\ Gathering(document, Len(document), pieces)
  BY PiecesExact
<1>2. i \in 1 .. Len(pieces) /\ j \in 1 .. Len(pieces)
  BY <1>1, LenProperties
<1>3. Precedes(pieces[i], pieces[j])
  BY <1>1, <1>2 DEF Gathering
<1>4. PICK x \in Piece : x = pieces[i]
  BY <1>2, ElementOfSeq
<1>5. PICK y \in Piece : y = pieces[j]
  BY <1>2, ElementOfSeq
<1>6. PICK a \in DOMAIN x.paras :
          para = <<x.section, x.paras[a], document[x.section][x.paras[a]]>>
  BY <1>1, <1>4, Zenon DEF TextOf
<1>7. PICK b \in DOMAIN y.paras :
          other = <<y.section, y.paras[b], document[y.section][y.paras[b]]>>
  BY <1>1, <1>5, Zenon DEF TextOf
<1>8. a \in 1 .. Len(x.paras) /\ b \in 1 .. Len(y.paras)
  BY LenProperties DEF Piece
<1>9. \/ x.section < y.section
      \/ x.section = y.section /\ x.paras[a] < y.paras[b]
  BY <1>3, <1>4, <1>5, <1>8, Zenon DEF Precedes
<1>10. /\ para[1] = x.section /\ para[2] = x.paras[a]
       /\ other[1] = y.section /\ other[2] = y.paras[b]
  BY <1>6, <1>7
<1> QED
  BY <1>9, <1>10, Zenon DEF Before

\* What is in the chunks of a file is its text: all of it, in its order.
THEOREM TextIsKept == Spec => []NothingLost
<1>1. SectionsExact
  BY SplitIsExact, Assumptions DEF SectionsExact, Assumptions
<1>2. ASSUME IInv PROVE NothingLost
  <2> SUFFICES ASSUME NEW f \in Files PROVE
          /\ \A s \in DOMAIN docs[f] : \A p \in Written(docs[f][s]) :
                \E i \in Chunks(docs[f]) : \E para \in Text(docs[f], i) :
                    para[1] = s /\ para[2] = p /\ para[3] = docs[f][s][p]
          /\ \A i, j \in Chunks(docs[f]) : i < j =>
                \A para \in Text(docs[f], i), other \in Text(docs[f], j) : Before(para, other)
    BY <1>1 DEF NothingLost
  <2>1. PICK document \in Documents : document = docs[f]
    BY <1>2 DEF IInv, TypeOK
  <2>2. document \in Seq(Seq(Nat)) /\ PiecesOf[document] = Pieces(document)
    BY Assumptions DEF Assumptions, PiecesOf
  <2>3. ASSUME NEW s \in DOMAIN document, NEW p \in Written(document[s])
        PROVE  \E i \in Chunks(document) : \E para \in Text(document, i) :
                   para[1] = s /\ para[2] = p /\ para[3] = document[s][p]
    <3>1. PICK i \in DOMAIN Pieces(document) :
              <<s, p, document[s][p]>> \in TextOf(document, Pieces(document)[i])
      BY <2>2, DocumentIsKept
    <3>2. <<s, p, document[s][p]>> \in Text(document, i)
      BY <2>2, <3>1 DEF Text
    <3>3. i \in Chunks(document)
      BY <2>2, <3>2 DEF Chunks, Absent
    <3>4. PICK para \in Text(document, i) : para = <<s, p, document[s][p]>>
      BY <3>2
    <3>5. para[1] = s /\ para[2] = p /\ para[3] = document[s][p]
      BY <3>4
    <3> QED
      BY <3>3, <3>5, Zenon
  <2>4. ASSUME NEW i \in Chunks(document), NEW j \in Chunks(document), i < j,
               NEW para \in Text(document, i), NEW other \in Text(document, j)
        PROVE  Before(para, other)
    BY <2>2, <2>4, DocumentInOrder DEF Text, Chunks
  <2> QED
    BY <2>1, <2>3, <2>4
<1> QED
  BY KeysKept, <1>2, PTL
===============================================================================
