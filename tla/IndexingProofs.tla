---------------------------- MODULE IndexingProofs -----------------------------
(******************************************************************************)
(* From the chunker to the vector search, for every text, all options, as     *)
(* many copies of the rows as the parser has attempts, and every list of      *)
(* them, in any order and cut off anywhere: a row gets the vector of its own  *)
(* text, and a document made ready from a list of all rows is found by each   *)
(* of its words.  The invariant follows the rows through the lists.           *)
(******************************************************************************)
EXTENDS Indexing, ChunkerProofs, FiniteSetTheorems

--------------------------------------------------------------------------------
(******************************************************************************)
(* EmbedBatch.                                                                *)
(******************************************************************************)

(* The Cardinality of the instance is no other.                               *)
LEMMA SameCardinality == ASSUME NEW S PROVE Embedder!Cardinality(S) = Cardinality(S)
BY DEF Embedder!Cardinality, Cardinality

(* The n-th of the numbers from 1 is n. *)
LEMMA NthOfAll == ASSUME NEW k \in Nat, NEW n \in 1 .. k PROVE Embedder!Nth(1 .. k, n) = n
<1>1. \A i \in 1 .. k : Cardinality({j \in 1 .. k : j <= i}) = i
  <2> SUFFICES ASSUME NEW i \in 1 .. k PROVE Cardinality({j \in 1 .. k : j <= i}) = i
    OBVIOUS
  <2>1. {j \in 1 .. k : j <= i} = 1 .. i
    OBVIOUS
  <2>2. Cardinality(1 .. i) = i
    BY FS_Interval
  <2> QED
    BY <2>1, <2>2, Zenon
<1> DEFINE Before(i) == Cardinality({j \in 1 .. k : j <= i})
<1>2. Embedder!Nth(1 .. k, n) = CHOOSE i \in 1 .. k : Before(i) = n
  BY SameCardinality DEF Embedder!Nth
<1>3. \A i \in 1 .. k : Before(i) = i
  BY <1>1, Zenon
<1> HIDE DEF Before
<1> QED
  BY <1>2, <1>3

(* When there is something left of every text, each is sent, in its place. *)
LEMMA EmbedBatchFacts ==
    ASSUME NEW texts, NEW k \in Nat, DOMAIN texts = 1 .. k,
           \A i \in 1 .. k : texts[i] \ control # {}
    PROVE  /\ Embedder!EmbedBatch(texts) = [i \in 1 .. k |-> texts[i] \ control]
           /\ Len(Embedder!EmbedBatch(texts)) = k
<1>1. Embedder!Sent(texts) = 1 .. k
  BY DEF Embedder!Sent, Embedder!preprocessText
<1>2. Cardinality(1 .. k) = k
  BY FS_Interval
<1>3. Embedder!EmbedBatch(texts) = [i \in 1 .. k |-> texts[i] \ control]
  <2>1. Embedder!EmbedBatch(texts) =
          [i \in 1 .. k |-> Embedder!preprocessText(texts[Embedder!Nth(1 .. k, i)])]
    BY <1>1, <1>2, SameCardinality DEF Embedder!EmbedBatch
  <2> QED
    BY <2>1, NthOfAll DEF Embedder!preprocessText
<1> QED
  BY <1>3

--------------------------------------------------------------------------------
(******************************************************************************)
(* ListChunks.                                                                *)
(******************************************************************************)

(* A list of rows in some order has each of them in one place. *)
LEMMA ListedFacts ==
    ASSUME NEW S, IsFiniteSet(S), NEW list \in SetToSeqs(S)
    PROVE  /\ Cardinality(S) \in Nat /\ DOMAIN list = 1 .. Cardinality(S)
           /\ Len(list) = Cardinality(S)
           /\ \A i \in DOMAIN list : list[i] \in S
           /\ ToSet(list) = S
<1> DEFINE k == Cardinality(S)
<1>1. k \in Nat
  BY FS_CardinalityType
<1>2. list \in [1 .. k -> S] /\ \A i, j \in 1 .. k : i # j => list[i] # list[j]
  BY DEF SetToSeqs
<1>3. list \in Injection(1 .. k, S)
  BY <1>2 DEF Injection, IsInjective
<1>4. IsFiniteSet(1 .. k) /\ Cardinality(1 .. k) = k
  BY <1>1, FS_Interval
<1>5. list \in Surjection(1 .. k, S)
  BY <1>3, <1>4, FS_Injection
<1>6. \A row \in S : \E i \in 1 .. k : list[i] = row
  BY <1>5 DEF Surjection
<1> QED
  BY <1>1, <1>2, <1>6 DEF ToSet

--------------------------------------------------------------------------------
(******************************************************************************)
(* The chunker.                                                               *)
(******************************************************************************)

(* What comes after the chunker leaves it alone: all theorems about it hold   *)
(* of the whole.                                                              *)
THEOREM IndexingChunks == IndexingSpec => Spec
<1>1. IndexingInit => Init
  BY DEF IndexingInit
<1>2. [IndexingNext]_indexing => [Next]_vars
  <2>1. Chunking => Next
    BY DEF Chunking
  <2>2. SaveChunks \/ ListChunks \/ EmbedAndSave => UNCHANGED vars
    BY DEF SaveChunks, ListChunks, EmbedAndSave
  <2>3. UNCHANGED indexing => UNCHANGED vars
    BY DEF indexing
  <2> QED
    BY <2>1, <2>2, <2>3 DEF IndexingNext
<1> QED
  BY <1>1, <1>2, PTL DEF IndexingSpec, Spec

--------------------------------------------------------------------------------
(******************************************************************************)
(* The invariant.                                                             *)
(******************************************************************************)
Kept ==
    /\ control \subseteq 0 .. words - 1
    /\ IsFiniteSet(stored)
    /\ stage \in {"parse", "list", "embed", "ready"}

\* Rows are stored when the chunker is done, and those of all chunks at once.
RowsOfChunks ==
    /\ stored # {} => pc = "done"
    /\ stage # "parse" => pc = "done"
    /\ \A row \in stored : row[2] \in DOMAIN chunks
    /\ stage # "parse" => \A n \in DOMAIN chunks : \E row \in stored : row[2] = n

ListOfRows == stage = "embed" => \E part \in SUBSET stored : listed \in SetToSeqs(part)

VectorsOfRows ==
    /\ VectorsBelongToTheirRows
    /\ stage = "ready" => ToSet(listed) \subseteq DOMAIN vectors

IndexInv == Kept /\ RowsOfChunks /\ ListOfRows /\ VectorsOfRows

(* Before anything is stored there is nothing to confuse.                     *)
LEMMA IndexInitInv == IndexingInit => IndexInv
<1> SUFFICES ASSUME IndexingInit PROVE IndexInv
  OBVIOUS
<1>1. /\ control \subseteq 0 .. words - 1
      /\ stored = {} /\ vectors = <<>> /\ stage = "parse"
  BY DEF IndexingInit
<1>2. IsFiniteSet(stored)
  BY <1>1, FS_EmptySet
<1>3. DOMAIN vectors = {}
  BY <1>1
<1> QED
  BY <1>1, <1>2, <1>3
  DEF IndexInv, Kept, RowsOfChunks, ListOfRows, VectorsOfRows, VectorsBelongToTheirRows

(* The chunker runs before anything is stored. *)
LEMMA ChunkingInv == ASSUME IndexInv, Chunking PROVE IndexInv'
<1>1. /\ pc = "loop" /\ words' = words
      /\ UNCHANGED <<control, stored, listed, vectors, stage>>
  BY DEF Chunking, Next, Round, RoundUntil, input, rows
<1>2. stored = {} /\ stage = "parse"
  BY <1>1 DEF IndexInv, RowsOfChunks
<1>3. DOMAIN vectors = {}
  BY <1>2 DEF IndexInv, VectorsOfRows, VectorsBelongToTheirRows
<1> QED
  BY <1>1, <1>2, <1>3
  DEF IndexInv, Kept, RowsOfChunks, ListOfRows, VectorsOfRows, VectorsBelongToTheirRows

(* The parser stores rows for all chunks, under new ids.                      *)
LEMMA SaveChunksInv == ASSUME Inv, IndexInv, SaveChunks PROVE IndexInv'
<1> DEFINE copy == Cardinality(Copies) + 1
           new == {<<copy, n>> : n \in DOMAIN chunks}
<1>1. /\ pc = "done" /\ stage = "parse" /\ stage' \in {"parse", "list"}
      /\ stored' = stored \cup new
      /\ UNCHANGED <<words, opts, start, chunks, pc, control, listed, vectors>>
  BY DEF SaveChunks, vars
<1>2. IsFiniteSet(new)
  <2>1. DOMAIN chunks = 1 .. Len(chunks) /\ Len(chunks) \in Nat
    BY DEF Inv, TypeOK
  <2>2. IsFiniteSet(DOMAIN chunks) /\ IsFiniteSet({copy})
    <3> HIDE DEF copy
    <3>1. IsFiniteSet(1 .. Len(chunks))
      BY <2>1, FS_Interval
    <3> QED
      BY <2>1, <3>1, FS_Singleton
  <2>3. new = {copy} \X DOMAIN chunks
    OBVIOUS
  <2> HIDE DEF copy, new
  <2> QED
    BY <2>2, <2>3, FS_Product
<1>3. \A row \in new : row[2] \in DOMAIN chunks
  OBVIOUS
<1>4. \A n \in DOMAIN chunks : <<copy, n>> \in new /\ <<copy, n>>[2] = n
  OBVIOUS
<1> HIDE DEF copy, new
<1>5. Kept'
  BY <1>1, <1>2, FS_Union DEF IndexInv, Kept
<1>6. RowsOfChunks'
  BY <1>1, <1>3, <1>4 DEF IndexInv, RowsOfChunks
<1>7. ListOfRows' /\ VectorsOfRows'
  BY <1>1 DEF IndexInv, ListOfRows, VectorsOfRows, VectorsBelongToTheirRows, Text
<1> QED
  BY <1>5, <1>6, <1>7 DEF IndexInv

(* Any rows in any order will do.                                             *)
LEMMA ListChunksInv == ASSUME IndexInv, ListChunks PROVE IndexInv'
BY DEF ListChunks, vars, IndexInv, Kept, RowsOfChunks, ListOfRows, VectorsOfRows,
  VectorsBelongToTheirRows, Text

(* The batch has the vector of the i-th listed row in place i.  The prefix    *)
(* keeps every text from being left out.                                      *)
LEMMA BatchFacts ==
    ASSUME IndexInv, stage = "embed"
    PROVE  LET batch == Embedder!EmbedBatch(Texts)
           IN  /\ Len(batch) = Len(listed) /\ Len(listed) \in Nat
               /\ ToSet(listed) \subseteq stored
               /\ \A row \in ToSet(listed) :
                    Store(batch)[row] = ({Prefix} \cup Text(row)) \ control
               /\ DOMAIN Store(batch) = ToSet(listed) \cup DOMAIN vectors
               /\ \A row \in DOMAIN vectors \ ToSet(listed) : Store(batch)[row] = vectors[row]
<1>1. PICK part \in SUBSET stored : listed \in SetToSeqs(part)
  BY DEF IndexInv, ListOfRows
<1> DEFINE k == Cardinality(part)
           batch == Embedder!EmbedBatch(Texts)
<1>2. IsFiniteSet(part) /\ control \subseteq 0 .. words - 1
  <2>1. IsFiniteSet(stored) /\ control \subseteq 0 .. words - 1
    BY DEF IndexInv, Kept
  <2> QED
    BY <2>1, FS_Subset
<1>3. /\ k \in Nat /\ DOMAIN listed = 1 .. k /\ Len(listed) = k
      /\ \A i \in 1 .. k : listed[i] \in part
      /\ ToSet(listed) = part
  BY <1>2, <1>1, ListedFacts
<1>4. DOMAIN Texts = 1 .. k /\ \A i \in 1 .. k : Texts[i] = {Prefix} \cup Text(listed[i])
  BY <1>3 DEF Texts
<1>5. \A i \in 1 .. k : Texts[i] \ control # {}
  BY <1>2, <1>4 DEF Prefix
<1> HIDE DEF k
<1>6. /\ batch = [i \in 1 .. k |-> Texts[i] \ control]
      /\ Len(batch) = k
  BY <1>3, <1>4, <1>5, EmbedBatchFacts
<1> HIDE DEF batch
<1>7. \A row \in part : \E i \in 1 .. k : listed[i] = row
  BY <1>3 DEF ToSet
<1>8. \A row \in part :
        batch[CHOOSE i \in DOMAIN listed : listed[i] = row] = ({Prefix} \cup Text(row)) \ control
  <2> SUFFICES ASSUME NEW row \in part
               PROVE  batch[CHOOSE i \in DOMAIN listed : listed[i] = row]
                        = ({Prefix} \cup Text(row)) \ control
    OBVIOUS
  <2> DEFINE i == CHOOSE i \in DOMAIN listed : listed[i] = row
  <2>1. i \in 1 .. k /\ listed[i] = row
    BY <1>3, <1>7
  <2> HIDE DEF i
  <2>2. batch[i] = ({Prefix} \cup Text(row)) \ control
    BY <1>4, <1>6, <2>1
  <2> QED
    BY <2>2 DEF i
<1>9. Store(batch) = [row \in part \cup DOMAIN vectors |->
                        IF row \in part
                          THEN batch[CHOOSE i \in DOMAIN listed : listed[i] = row]
                          ELSE vectors[row]]
  BY <1>3 DEF Store
<1>10. /\ \A row \in part : Store(batch)[row] = ({Prefix} \cup Text(row)) \ control
      /\ DOMAIN Store(batch) = part \cup DOMAIN vectors
      /\ \A row \in DOMAIN vectors \ part : Store(batch)[row] = vectors[row]
  BY <1>8, <1>9
<1> QED
  BY <1>1, <1>3, <1>6, <1>10 DEF batch

(* The analysis does not run out of vectors, and stores each under its row.   *)
LEMMA EmbedAndSaveInv == ASSUME IndexInv, EmbedAndSave PROVE IndexInv'
<1> DEFINE batch == Embedder!EmbedBatch(Texts)
<1>1. /\ stage = "embed"
      /\ UNCHANGED <<words, opts, start, chunks, pc, control, stored>>
  BY DEF EmbedAndSave, vars
<1>2. /\ Len(batch) = Len(listed) /\ Len(listed) \in Nat
      /\ ToSet(listed) \subseteq stored
      /\ \A row \in ToSet(listed) : Store(batch)[row] = ({Prefix} \cup Text(row)) \ control
      /\ DOMAIN Store(batch) = ToSet(listed) \cup DOMAIN vectors
      /\ \A row \in DOMAIN vectors \ ToSet(listed) : Store(batch)[row] = vectors[row]
  BY <1>1, BatchFacts
<1>3. ~(Len(batch) < Len(listed))
  BY <1>2
<1>4. \/ vectors' = Store(batch) /\ stage' = "ready" /\ listed' = listed
      \/ vectors' \in {vectors, Store(batch)} /\ stage' = "list"
  BY <1>3 DEF EmbedAndSave
<1>5. \A row \in DOMAIN Store(batch) :
        row \in stored /\ Store(batch)[row] = ({Prefix} \cup Text(row)) \ control
  BY <1>2 DEF IndexInv, VectorsOfRows, VectorsBelongToTheirRows
<1> HIDE DEF batch
<1>6. VectorsOfRows'
  <2>1. VectorsBelongToTheirRows'
    BY <1>1, <1>4, <1>5 DEF IndexInv, VectorsOfRows, VectorsBelongToTheirRows, Text
  <2>2. stage' = "ready" => ToSet(listed') \subseteq DOMAIN vectors'
    BY <1>2, <1>4
  <2> QED
    BY <2>1, <2>2 DEF VectorsOfRows
<1> QED
  BY <1>1, <1>4, <1>6 DEF IndexInv, Kept, RowsOfChunks, ListOfRows

(* The lists line up throughout. *)
THEOREM IndexInvHolds == IndexingSpec => []IndexInv
<1>1. IndexingInit => IndexInv
  BY IndexInitInv
<1>2. Inv /\ IndexInv /\ [IndexingNext]_indexing => IndexInv'
  <2> SUFFICES ASSUME Inv, IndexInv, [IndexingNext]_indexing PROVE IndexInv'
    OBVIOUS
  <2>1. CASE IndexingNext
    BY <2>1, ChunkingInv, SaveChunksInv, ListChunksInv, EmbedAndSaveInv DEF IndexingNext
  <2>2. CASE UNCHANGED indexing
    BY <2>2 DEF indexing, vars, rows, IndexInv, Kept, RowsOfChunks, ListOfRows, VectorsOfRows,
      VectorsBelongToTheirRows, Text
  <2> QED
    BY <2>1, <2>2
<1> QED
  BY <1>1, <1>2, IndexingChunks, ChunkerInvariant, PTL DEF IndexingSpec

(* handleAnalyze pairs rows with vectors by position, and every pair is right.  *)
THEOREM VectorsBelongToTheirRowsHolds == IndexingSpec => []VectorsBelongToTheirRows
<1>1. IndexInv => VectorsBelongToTheirRows
  BY DEF IndexInv, VectorsOfRows
<1> QED
  BY <1>1, IndexInvHolds, PTL

(* The batch is never shorter than the list, and each word that is not made   *)
(* of control characters is in a chunk, the chunk in a row, and the row, if   *)
(* the list was that of all rows, in the vectors.                             *)
THEOREM EveryWordSearchableHolds == IndexingSpec => []EveryWordSearchable
<1>1. Inv /\ IndexInv => EveryWordSearchable
  <2> SUFFICES ASSUME Inv, IndexInv, stage = "ready", ToSet(listed) = stored,
                      NEW word \in (0 .. words - 1) \ control
               PROVE  \E row \in DOMAIN vectors : word \in vectors[row]
    BY DEF EveryWordSearchable, IndexInv, Kept
  <2>1. pc = "done" /\ word \in Nat /\ word < words
    BY DEF IndexInv, RowsOfChunks, Inv, TypeOK
  <2>2. PICK n \in DOMAIN chunks : chunks[n].from <= word /\ word < chunks[n].to
    BY <2>1 DEF Inv, Position, NoGap, Covered
  <2>3. PICK row \in stored : row[2] = n
    BY DEF IndexInv, RowsOfChunks
  <2>4. row \in DOMAIN vectors /\ vectors[row] = ({Prefix} \cup Text(row)) \ control
    BY DEF IndexInv, VectorsOfRows, VectorsBelongToTheirRows
  <2>5. word \in Text(row)
    <3>1. chunks[n] \in Chunk
      BY DEF Inv, TypeOK
    <3>2. chunks[n].from \in Int /\ chunks[n].to \in Int
      BY <3>1 DEF Chunk
    <3> QED
      BY <2>1, <2>2, <2>3, <3>2 DEF Text
  <2> QED
    BY <2>4, <2>5
<1> QED
  BY <1>1, IndexInvHolds, IndexingChunks, ChunkerInvariant, PTL
================================================================================
