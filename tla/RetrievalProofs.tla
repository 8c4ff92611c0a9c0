---------------------------- MODULE RetrievalProofs ----------------------------
(******************************************************************************)
(* The query service over the tables of the pipeline, for any number of       *)
(* documents and requests.  Two invariants meet here: what the lifecycle of a *)
(* document guarantees of its rows, and that whatever an answer rests on was, *)
(* and is still, searchable.                                                  *)
(******************************************************************************)
EXTENDS Retrieval, QueryServiceProofs

USE QueryAssumption, RetrievalAssumption

\* The rows of a document, and the moments that were noted of them.
RowsTyped ==
    /\ status \in [Doc -> {"none", "processing", "ready", "failed"}]
    /\ chunks \in [Doc -> Nat] /\ embeddings \in [Doc -> Nat \cup {-2}]
    /\ summaries \in [Doc -> Nat \cup {-1, -2}]
    /\ ready \in [Doc -> 0 .. Never]

\* A summary and vectors are made from lists of the rows there are.
Fits(d) ==
    /\ summaries[d] = -1 => embeddings[d] = 0
    /\ summaries[d] # -1 => /\ summaries[d] \in Tables!Lists(d)
                            /\ embeddings[d] \in {0} \cup Tables!Lists(d)
    /\ status[d] = "ready" => summaries[d] # -1 /\ embeddings[d] \in Tables!Lists(d)

RowsFit == \A d \in Doc : Fits(d)

MomentsFit ==
    \A d \in Doc :
        /\ Searchable(d) <=> Joined(d)
        /\ Searchable(d) => indexed[d] <= now
        /\ ready[d] # Never => status[d] = "ready" /\ ready[d] <= now
        /\ ready[d] # Never /\ Searchable(d) => indexed[d] <= ready[d]

\* What an answer, an entry or a request has found.
Rests(answer) ==
    /\ \A d \in answer.found.docs : Searchable(d)
    /\ answer.found.at <= now
    /\ Knows(answer.docs, answer.found)

AnswersRest ==
    /\ \A r \in Request : \A d \in found[r].docs : Searchable(d)
    /\ \A key \in DOMAIN results : \A d \in results[key].answer.found.docs : Searchable(d)
    /\ \A r \in Request : reply[r].status = 200 => Rests(reply[r].answer)

RInv == Inv /\ RowsTyped /\ RowsFit /\ MomentsFit /\ AnswersRest

(* The invariant holds of empty tables. *)
LEMMA RInitInv == RetrievalInit => RInv
<1> SUFFICES ASSUME RetrievalInit PROVE RInv
  OBVIOUS
<1>1. Inv
  BY InitInv DEF RetrievalInit
<1>2. RowsTyped /\ RowsFit
  BY DEF RetrievalInit, Tables!Init, Tables!NoSummary, RowsTyped, RowsFit, Fits, Never
<1>3. MomentsFit
  BY DEF RetrievalInit, Tables!Init, Init, MomentsFit, Searchable, Joined
<1>4. AnswersRest
  BY DEF RetrievalInit, Init, AnswersRest, NothingFound, NoReply
<1> QED
  BY <1>1, <1>2, <1>3, <1>4 DEF RInv

--------------------------------------------------------------------------------
(* What a list may hold.                                                      *)
LEMMA ListsFacts ==
    ASSUME RowsTyped, NEW d \in Doc
    PROVE  /\ Tables!Lists(d) \subseteq Nat \cup {-2}
           /\ chunks[d] > 0 => 0 \notin Tables!Lists(d)
           /\ chunks[d] = 0 => Tables!Lists(d) = {0}
BY DEF RowsTyped, Tables!Lists, Tables!Part

\* What may become of the one document.
Same(e) ==
    /\ chunks'[e] = chunks[e] /\ summaries'[e] = summaries[e]
    /\ embeddings'[e] = embeddings[e]

Analysed(e) == status[e] \in {"processing", "ready"} /\ status'[e] = status[e]

Moved(e) ==
    \/ status[e] = "none" /\ status'[e] = "processing" /\ Same(e)
    \/ /\ status[e] = "processing" /\ status'[e] = "processing"
       /\ summaries[e] = -1 /\ chunks'[e] = chunks[e] + 1
       /\ summaries'[e] = summaries[e] /\ embeddings'[e] = embeddings[e]
    \/ /\ Analysed(e) /\ summaries'[e] \in Tables!Lists(e)
       /\ chunks'[e] = chunks[e] /\ embeddings'[e] = embeddings[e]
    \/ /\ Analysed(e) /\ summaries[e] # -1
       /\ embeddings[e] # chunks[e] /\ embeddings'[e] \in Tables!Lists(e)
       /\ chunks'[e] = chunks[e] /\ summaries'[e] = summaries[e]
    \/ /\ status[e] = "processing" /\ status'[e] = "ready"
       /\ summaries[e] # -1 /\ embeddings[e] \in Tables!Lists(e) /\ Same(e)
    \/ /\ status[e] = "processing" /\ status'[e] = "failed"
       /\ summaries[e] = -1 /\ Same(e)

(* A step of the pipeline is one of one document, and leaves the others alone. *)
LEMMA TablesMove ==
    ASSUME RowsTyped, Tables!Next
    PROVE  \E e \in Doc :
             /\ \A d \in Doc \ {e} :
                  /\ status'[d] = status[d] /\ chunks'[d] = chunks[d]
                  /\ summaries'[d] = summaries[d] /\ embeddings'[d] = embeddings[d]
             /\ Moved(e)
             /\ status' = [d \in Doc |-> status'[d]]
             /\ chunks' = [d \in Doc |-> chunks'[d]]
             /\ summaries' = [d \in Doc |-> summaries'[d]]
             /\ embeddings' = [d \in Doc |-> embeddings'[d]]
<1>1. PICK e \in Doc :
        \/ Tables!Create(e) \/ Tables!Chunk(e) \/ Tables!Summarise(e)
        \/ Tables!Index(e) \/ Tables!Finish(e) \/ Tables!Fail(e)
  BY DEF Tables!Next
<1> USE DEF RowsTyped, Moved, Same, Analysed, Tables!Pending, Tables!Summarised,
            Tables!NoSummary
<1>2. CASE Tables!Create(e)
  BY <1>2 DEF Tables!Create
<1>3. CASE Tables!Chunk(e)
  BY <1>3 DEF Tables!Chunk
<1>4. CASE Tables!Summarise(e)
  BY <1>4 DEF Tables!Summarise
<1>5. CASE Tables!Index(e)
  BY <1>5 DEF Tables!Index
<1>6. CASE Tables!Finish(e)
  BY <1>6 DEF Tables!Finish
<1>7. CASE Tables!Fail(e)
  BY <1>7 DEF Tables!Fail
<1> QED
  BY <1>1, <1>2, <1>3, <1>4, <1>5, <1>6, <1>7

(* It keeps the rows of every document in order, finds no fewer documents in   *)
(* the join, and puts none there that is ready.                                *)
LEMMA TablesStep ==
    ASSUME RowsTyped, RowsFit, Tables!Next, ready' \in [Doc -> 0 .. Never], Never' = Never
    PROVE  /\ RowsTyped' /\ RowsFit'
           /\ \A d \in Doc : Joined(d) => Joined(d)'
           /\ \A d \in Doc : status[d] = "ready" =>
                status'[d] = "ready" /\ (Joined(d)' => Joined(d))
<1>1. \A d \in Doc : /\ status[d] \in {"none", "processing", "ready", "failed"}
                     /\ chunks[d] \in Nat /\ embeddings[d] \in Nat \cup {-2}
                     /\ summaries[d] \in Nat \cup {-1, -2} /\ Fits(d)
  BY DEF RowsTyped, RowsFit
<1>2. ASSUME NEW d \in Doc
      PROVE  /\ status'[d] \in {"none", "processing", "ready", "failed"}
             /\ chunks'[d] \in Nat /\ embeddings'[d] \in Nat \cup {-2}
             /\ summaries'[d] \in Nat \cup {-1, -2} /\ Fits(d)'
             /\ Joined(d) => Joined(d)'
             /\ status[d] = "ready" => status'[d] = "ready" /\ (Joined(d)' => Joined(d))
  <2>1. PICK e \in Doc :
          /\ \A c \in Doc \ {e} :
               /\ status'[c] = status[c] /\ chunks'[c] = chunks[c]
               /\ summaries'[c] = summaries[c] /\ embeddings'[c] = embeddings[c]
          /\ Moved(e)
    BY TablesMove
  <2>2. chunks'[d] = chunks[d] => Tables!Lists(d)' = Tables!Lists(d)
    BY DEF Tables!Lists, Tables!Part
  <2>3. CASE d # e
    BY <1>1, <2>1, <2>2, <2>3 DEF Fits, Joined
  <2>4. CASE d = e /\ chunks'[d] = chunks[d]
    <3> DEFINE lists == Tables!Lists(d)
    <3>1. /\ lists \subseteq Nat \cup {-2} /\ chunks[d] \in Nat /\ chunks[d] \in lists
          /\ chunks[d] > 0 => 0 \notin lists
          /\ chunks[d] = 0 => lists = {0}
      BY <1>1, ListsFacts DEF Tables!Lists
    <3>2. Tables!Lists(d)' = lists
      BY <2>2, <2>4
    <3>3. /\ summaries[d] = -1 => embeddings[d] = 0
          /\ summaries[d] # -1 => summaries[d] \in lists /\ embeddings[d] \in {0} \cup lists
          /\ status[d] = "ready" => summaries[d] # -1 /\ embeddings[d] \in lists
      BY <1>1 DEF Fits
    <3>4. CASE Same(d)
      <4>1. status'[d] = "ready" => summaries[d] # -1 /\ embeddings[d] \in lists
        BY <1>1, <2>1, <2>4, <3>4, <3>3 DEF Moved, Same, Analysed
      <4>2. status'[d] \in {"none", "processing", "ready", "failed"}
        BY <1>1, <2>1, <2>4 DEF Moved, Analysed
      <4>3. status[d] = "ready" => status'[d] = "ready"
        BY <2>1, <2>4 DEF Moved, Analysed
      <4> QED
        BY <1>1, <2>4, <3>2, <3>3, <3>4, <4>1, <4>2, <4>3 DEF Same, Fits, Joined
    <3>5. CASE Analysed(d) /\ summaries'[d] \in lists /\ embeddings'[d] = embeddings[d]
      BY <1>1, <2>4, <3>1, <3>2, <3>3, <3>5 DEF Analysed, Fits, Joined
    <3>6. CASE /\ Analysed(d) /\ summaries[d] # -1 /\ summaries'[d] = summaries[d]
               /\ embeddings[d] # chunks[d] /\ embeddings'[d] \in lists
      BY <1>1, <2>4, <3>1, <3>2, <3>3, <3>6 DEF Analysed, Fits, Joined
    <3> QED
      BY <1>1, <2>1, <2>4, <3>4, <3>5, <3>6 DEF Moved
  <2>5. CASE d = e /\ chunks'[d] # chunks[d]
    BY <1>1, <2>1, <2>5 DEF Moved, Same, Fits, Joined
  <2> QED
    BY <2>3, <2>4, <2>5
<1>3. /\ status' \in [Doc -> {"none", "processing", "ready", "failed"}]
      /\ chunks' \in [Doc -> Nat] /\ embeddings' \in [Doc -> Nat \cup {-2}]
      /\ summaries' \in [Doc -> Nat \cup {-1, -2}]
  BY <1>2, TablesMove
<1>4. RowsTyped'
  BY <1>3 DEF RowsTyped
<1> QED
  BY <1>2, <1>4 DEF RowsFit

(* Seen from the query service, documents become searchable. *)
LEMMA IngestionGrows ==
    ASSUME RInv, IngestionStep
    PROVE  /\ Grow
           /\ \A d \in Doc : Searchable(d) => Searchable(d)' /\ indexed'[d] = indexed[d]
           /\ \A d \in Doc : ~Searchable(d) /\ Joined(d)' => indexed'[d] = now
           /\ \A d \in Doc : ~Searchable(d) /\ ~Joined(d)' => indexed'[d] = Never
<1>1. /\ indexed' = [d \in Doc |-> IF ~Searchable(d) /\ Joined(d)' THEN now ELSE indexed[d]]
      /\ UNCHANGED <<now, cache, pc, asked, started, gone, found, reply>>
      /\ indexed \in [Doc -> 0 .. Never] /\ now \in 0 .. Horizon /\ Never = Horizon + 1
      /\ Never' = Never
  BY DEF IngestionStep, RInv, Inv, TypeOK, Never
<1>2. ASSUME NEW d \in Doc
      PROVE  /\ indexed'[d] \in {indexed[d], now}
             /\ indexed'[d] # indexed[d] => indexed[d] = Never
             /\ Searchable(d) => Searchable(d)' /\ indexed'[d] = indexed[d]
             /\ ~Searchable(d) /\ Joined(d)' => indexed'[d] = now
             /\ ~Searchable(d) /\ ~Joined(d)' => indexed'[d] = Never
  <2>1. CASE ~Searchable(d) /\ Joined(d)'
    BY <1>1, <2>1 DEF Searchable
  <2>2. CASE ~(~Searchable(d) /\ Joined(d)')
    BY <1>1, <2>2 DEF Searchable
  <2> QED
    BY <2>1, <2>2
<1>3. indexed' \in [Doc -> 0 .. Never]
  BY <1>1, <1>2
<1> QED
  BY <1>1, <1>2, <1>3 DEF Grow

(* A document that becomes searchable now was not in the scope of any search   *)
(* so far, and did not have to be: what the answers rest on stays.             *)
LEMMA RestsStays ==
    ASSUME Inv, Grow, NEW answer \in AnswerType, Rests(answer)
    PROVE  Rests(answer)'
<1>1. answer.docs \subseteq Doc /\ answer.found.docs \subseteq Doc /\ answer.found.at \in Nat
  BY DEF AnswerType, FoundType
<1>2. \A d \in Doc : Searchable(d) => Searchable(d)'
  BY DEF Grow, Inv, TypeOK, Searchable, Never
<1>3. now \in Nat /\ now' = now
  BY DEF Grow, Inv, TypeOK
<1>4. ASSUME NEW d \in answer.docs \ answer.found.scope
      PROVE  ~(indexed'[d] < answer.found.at)
  BY <1>1, <1>3, <1>4 DEF Grow, Rests, Knows
<1> QED
  BY <1>1, <1>2, <1>3, <1>4 DEF Rests, Knows

(* A step of the pipeline preserves the invariant. *)
LEMMA IngestionInv == ASSUME RInv, IngestionStep PROVE RInv'
<1> USE DEF RInv
<1>1. /\ Tables!Next /\ UNCHANGED <<now, results, found, reply>>
      /\ ready' = [d \in Doc |-> IF ready[d] = Never /\ status'[d] = "ready" THEN now ELSE ready[d]]
      /\ now \in 0 .. Horizon /\ Never = Horizon + 1 /\ Never' = Never
      /\ indexed \in [Doc -> 0 .. Never]
  BY DEF IngestionStep, cache, Inv, TypeOK, Never
<1>2. Inv' /\ Grow
  BY IngestionGrows, ServiceInv
<1>3. ready' \in [Doc -> 0 .. Never]
  BY <1>1 DEF RowsTyped
<1>4. /\ RowsTyped' /\ RowsFit'
      /\ \A d \in Doc : Joined(d) => Joined(d)'
      /\ \A d \in Doc : status[d] = "ready" =>
           status'[d] = "ready" /\ (Joined(d)' => Joined(d))
  BY <1>1, <1>3, TablesStep
<1>5. MomentsFit'
  <2> SUFFICES ASSUME NEW d \in Doc
               PROVE  /\ Searchable(d)' <=> Joined(d)'
                      /\ Searchable(d)' => indexed'[d] <= now
                      /\ ready'[d] # Never => status'[d] = "ready" /\ ready'[d] <= now
                      /\ ready'[d] # Never /\ Searchable(d)' => indexed'[d] <= ready'[d]
    BY <1>1 DEF MomentsFit
  <2>1. /\ Searchable(d) <=> Joined(d)
        /\ Searchable(d) => indexed[d] <= now
        /\ ready[d] # Never => status[d] = "ready" /\ ready[d] <= now
        /\ ready[d] # Never /\ Searchable(d) => indexed[d] <= ready[d]
    BY DEF MomentsFit
  <2>2. /\ Searchable(d) => Searchable(d)' /\ indexed'[d] = indexed[d]
        /\ ~Searchable(d) /\ Joined(d)' => indexed'[d] = now
        /\ ~Searchable(d) /\ ~Joined(d)' => indexed'[d] = Never
    BY IngestionGrows
  <2>3. Searchable(d)' <=> indexed'[d] # Never
    BY <1>1 DEF Searchable
  <2>4. Joined(d) => Joined(d)'
    BY <1>4
  <2>5. Searchable(d)' <=> Joined(d)'
    BY <1>1, <2>1, <2>2, <2>3, <2>4
  <2>6. Searchable(d)' => indexed'[d] <= now
    BY <1>1, <2>1, <2>2, <2>5
  <2>7. CASE ready[d] # Never
    <3>1. ready'[d] = ready[d] /\ status'[d] = "ready"
      BY <1>1, <1>4, <2>1, <2>7
    <3>2. Joined(d)' => Joined(d)
      BY <1>4, <2>1, <2>7
    <3> QED
      BY <2>1, <2>2, <2>5, <2>6, <2>7, <3>1, <3>2
  <2>8. CASE ready[d] = Never
    <3>1. ready'[d] # Never => ready'[d] = now /\ status'[d] = "ready"
      BY <1>1, <2>8
    <3> QED
      BY <1>1, <2>5, <2>6, <3>1
  <2> QED
    BY <2>7, <2>8
<1>6. AnswersRest'
  <2>1. \A d \in Doc : Searchable(d) => Searchable(d)'
    BY IngestionGrows
  <2>2. \A r \in Request : found[r].docs \subseteq Doc
    BY DEF Inv, TypeOK, FoundType
  <2>3. \A key \in DOMAIN results : results[key].answer.found.docs \subseteq Doc
    BY DEF Inv, TypeOK, AnswerType, FoundType
  <2>4. ASSUME NEW r \in Request, reply[r].status = 200
        PROVE  Rests(reply[r].answer)'
    <3>1. reply[r].answer \in AnswerType /\ Rests(reply[r].answer)
      BY <2>4 DEF Inv, TypeOK, AnswersRest
    <3>2. Rests(reply[r].answer)' 
      BY <1>1, <1>2, <3>1, RestsStays DEF Rests, Knows
    <3> QED
      BY <3>2
  <2>5. /\ \A r \in Request : \A d \in found[r].docs : Searchable(d)'
        /\ \A key \in DOMAIN results : \A d \in results[key].answer.found.docs : Searchable(d)'
    BY <2>1, <2>2, <2>3 DEF AnswersRest
  <2> QED
    BY <1>1, <2>4, <2>5 DEF AnswersRest
<1> QED
  BY <1>2, <1>4, <1>5, <1>6

--------------------------------------------------------------------------------
(* What a step of a query does to the findings, the cache and the replies. *)
LEMMA QueryMoves ==
    ASSUME Inv, ServiceNext
    PROVE  /\ UNCHANGED indexed /\ now' \in {now, now + 1} /\ now' \in 0 .. Horizon
           /\ \A r \in Request :
                \/ found'[r] = found[r] \/ found'[r] = NothingFound \/ found'[r] \in Found(r)
           /\ \A key \in DOMAIN results' :
                \/ key \in DOMAIN results /\ results'[key].answer = results[key].answer
                \/ \E r \in Request : results'[key].answer = Made(asked[r], found[r])
           /\ \A r \in Request : pc[r] = "answered" /\ pc'[r] = "answered" => reply'[r] = reply[r]
<1> USE DEF Inv
<1>1. /\ pc \in [Request -> Label] /\ found \in [Request -> FoundType]
      /\ DOMAIN reply = Request /\ now \in 0 .. Horizon
  BY DEF TypeOK, Replies
<1>2. CASE Tick
  BY <1>1, <1>2 DEF Tick
<1>3. CASE RedisRestart
  BY <1>1, <1>3 DEF RedisRestart, world
<1>4. ASSUME NEW r \in Request, Arrive(r) \/ ClientGone(r)
      PROVE  /\ UNCHANGED <<indexed, now, results>>
             /\ \A q \in Request :
                  /\ found'[q] = found[q] \/ found'[q] = NothingFound
                  /\ pc[q] = "answered" /\ pc'[q] = "answered" => reply'[q] = reply[q]
  BY <1>1, <1>4 DEF Arrive, ClientGone, world, cache
<1>5. ASSUME NEW r \in Request, queryHandler(r)
      PROVE  /\ UNCHANGED <<indexed, now>>
             /\ \A q \in Request : found'[q] = found[q] \/ found'[q] \in Found(q)
             /\ \/ UNCHANGED results
                \/ results' = Set(results, Key(r),
                                  [answer |-> Made(asked[r], found[r]), expires |-> Expiry])
             /\ \A q \in Request :
                  pc[q] = "answered" /\ pc'[q] = "answered" => reply'[q] = reply[q]
  <2>1. /\ pc[r] # "answered"
        /\ (\E label : Goto(r, label)) \/ (\E answer : Reply(r, answer))
        /\ UNCHANGED <<indexed, now>>
    BY <1>5 DEF queryHandler, GetQueryResult, GetEmbedding, Embed, SetEmbedding, TopK, Answer,
                SetQueryResult, world
  <2>2. \A q \in Request : pc[q] = "answered" => reply'[q] = reply[q]
    BY <1>1, <2>1 DEF Goto, Reply
  <2>3. \/ UNCHANGED found
        \/ \E some \in Found(r) : found' = [found EXCEPT ![r] = some]
    BY <1>5 DEF queryHandler, GetQueryResult, GetEmbedding, Embed, SetEmbedding, TopK, Answer,
                SetQueryResult
  <2>4. \A q \in Request : found'[q] = found[q] \/ found'[q] \in Found(q)
    BY <1>1, <2>3
  <2>5. \/ UNCHANGED results
        \/ results' = Set(results, Key(r),
                          [answer |-> Made(asked[r], found[r]), expires |-> Expiry])
    BY <1>5 DEF queryHandler, GetQueryResult, GetEmbedding, Embed, SetEmbedding, TopK, Answer,
                SetQueryResult, CacheResult, cache
  <2> QED
    BY <2>1, <2>2, <2>4, <2>5
<1>6. ASSUME NEW r \in Request, queryHandler(r)
      PROVE  \A key \in DOMAIN results' :
               \/ key \in DOMAIN results /\ results'[key].answer = results[key].answer
               \/ results'[key].answer = Made(asked[r], found[r])
  <2>1. CASE UNCHANGED results
    BY <2>1
  <2>2. CASE results' = Set(results, Key(r),
                            [answer |-> Made(asked[r], found[r]), expires |-> Expiry])
    BY <2>2 DEF Set
  <2> QED
    BY <1>5, <1>6, <2>1, <2>2
<1> QED
  BY <1>1, <1>2, <1>3, <1>4, <1>5, <1>6 DEF ServiceNext

(* The rows found by a search are in the join; an answer rests on the rows that *)
(* its own request found, or that the request found which made the entry.       *)
LEMMA QueryInv == ASSUME RInv, QueryStep PROVE RInv'
<1> USE DEF RInv
<1>1. ServiceNext /\ UNCHANGED <<status, chunks, summaries, embeddings, ready>>
  BY DEF QueryStep, rows
<1>2. /\ UNCHANGED indexed /\ now' \in {now, now + 1}
      /\ now \in 0 .. Horizon /\ now' \in 0 .. Horizon /\ Never' = Never
      /\ indexed \in [Doc -> 0 .. Never] /\ ready \in [Doc -> 0 .. Never] /\ Never = Horizon + 1
  BY <1>1, QueryMoves DEF Inv, TypeOK, Never, RowsTyped
<1>3. Inv'
  BY <1>1, ServiceInv
<1>4. RowsTyped' /\ RowsFit'
  BY <1>1, <1>2 DEF RowsTyped, RowsFit, Fits, Tables!Lists, Tables!Part
<1>5. MomentsFit'
  <2> SUFFICES ASSUME NEW d \in Doc
               PROVE  /\ Searchable(d) <=> Joined(d)
                      /\ Searchable(d) => indexed[d] <= now'
                      /\ ready[d] # Never => status[d] = "ready" /\ ready[d] <= now'
                      /\ ready[d] # Never /\ Searchable(d) => indexed[d] <= ready[d]
    BY <1>1, <1>2 DEF MomentsFit, Searchable, Joined
  <2> QED
    BY <1>2 DEF MomentsFit
<1>6. \A d \in Doc : Searchable(d)' <=> Searchable(d)
  BY <1>2 DEF Searchable
<1>7. ASSUME NEW r \in Request
      PROVE  \A d \in found'[r].docs : Searchable(d)'
  <2>1. CASE found'[r] = NothingFound
    BY <2>1 DEF NothingFound
  <2>2. CASE found'[r] = found[r]
    BY <1>6, <2>2 DEF AnswersRest, Inv, TypeOK, FoundType
  <2>3. CASE found'[r] \in Found(r)
    <3>1. found'[r].docs \subseteq {d \in Documents(asked[r]) : Searchable(d)}
      BY <2>3 DEF Found, Choices
    <3>2. Documents(asked[r]) \subseteq Doc
      BY KeyFacts DEF Inv, TypeOK
    <3> QED
      BY <1>6, <3>1, <3>2
  <2> QED
    BY <1>1, <2>1, <2>2, <2>3, QueryMoves
<1>8. ASSUME NEW key \in DOMAIN results'
      PROVE  \A d \in results'[key].answer.found.docs : Searchable(d)'
  <2>1. CASE key \in DOMAIN results /\ results'[key].answer = results[key].answer
    <3>1. results[key].answer.found.docs \subseteq Doc
      BY <2>1 DEF Inv, TypeOK, AnswerType, FoundType
    <3> QED
      BY <1>6, <2>1, <3>1 DEF AnswersRest
  <2>2. ASSUME NEW r \in Request, results'[key].answer = Made(asked[r], found[r])
        PROVE  \A d \in results'[key].answer.found.docs : Searchable(d)'
    <3>1. results'[key].answer.found = found[r] /\ found[r].docs \subseteq Doc
      BY <2>2 DEF Made, Inv, TypeOK, FoundType
    <3> QED
      BY <1>6, <3>1 DEF AnswersRest
  <2> QED
    BY <1>1, <2>1, <2>2, QueryMoves
<1>9. ASSUME NEW r \in Request, reply'[r].status = 200
      PROVE  Rests(reply[r].answer)'
  <2>1. pc'[r] = "answered" /\ reply'[r].answer \in AnswerType
    <3>1. TypeOK'
      BY <1>3 DEF Inv
    <3>2. /\ pc'[r] = "answered" <=> reply'[r].status # 0
          /\ reply'[r].status = 200 => reply'[r].answer \in AnswerType'
      BY <3>1 DEF TypeOK
    <3> QED
      BY <1>9, <3>2 DEF AnswerType, FoundType
  <2> DEFINE answer == reply'[r].answer
  <2>2. answer.docs \subseteq Doc /\ answer.found.docs \subseteq Doc /\ answer.found.at \in Nat
    BY <2>1 DEF AnswerType, FoundType
  <2>3. Rests(answer)
    <3>1. CASE pc[r] = "answered"
      BY <1>1, <1>9, <2>1, <3>1, QueryMoves DEF AnswersRest
    <3>2. CASE ResultHit(r) /\ reply'[r] = OK(results[Key(r)].answer, TRUE)
      <4>1. Key(r) \in DOMAIN results /\ answer = results[Key(r)].answer
        BY <3>2 DEF ResultHit, OK
      <4> QED
        BY <4>1 DEF AnswersRest, Rests, Inv, Entries, Lives
    <3>3. CASE pc[r] = "setResult" /\ reply'[r] = OK(Made(asked[r], found[r]), FALSE)
      <4>1. answer.found = found[r] /\ answer.docs = Documents(asked[r])
        BY <3>3 DEF OK, Made
      <4> QED
        BY <3>3, <4>1 DEF AnswersRest, Rests, Inv, Searching
    <3>4. CASE reply'[r] = ServerError
      BY <1>9, <3>4 DEF ServerError
    <3> QED
      BY <1>1, <2>1, <3>1, <3>2, <3>3, <3>4, HowAnswered
  <2> HIDE DEF answer
  <2>4. /\ \A d \in answer.found.docs : Searchable(d)'
        /\ answer.found.at <= now'
        /\ \A d \in answer.docs \ answer.found.scope : ~(indexed'[d] < answer.found.at)
    BY <1>2, <1>6, <2>2, <2>3 DEF Rests, Knows
  <2> QED
    BY <2>4 DEF answer, Rests, Knows
<1> QED
  BY <1>3, <1>4, <1>5, <1>7, <1>8, <1>9 DEF AnswersRest

(* The invariant holds throughout. *)
LEMMA RInvHolds == RetrievalSpec => []RInv
<1>1. RInv /\ UNCHANGED <<vars, rows, ready>> => RInv'
  <2> SUFFICES ASSUME RInv, UNCHANGED <<vars, rows, ready>> PROVE RInv'
    OBVIOUS
  <2>1. Inv'
    BY ServiceInv DEF RInv
  <2>2. /\ UNCHANGED <<now, indexed, results, found, reply>>
        /\ UNCHANGED <<status, chunks, summaries, embeddings, ready>>
    BY DEF vars, world, cache, rows
  <2>3. RowsTyped' /\ RowsFit' /\ MomentsFit'
    BY <2>2 DEF RInv, RowsTyped, RowsFit, Fits, Tables!Lists, Tables!Part, MomentsFit, Searchable, Joined, Never
  <2>4. AnswersRest'
    BY <2>2 DEF RInv, AnswersRest, Rests, Knows, Searchable, Never
  <2> QED
    BY <2>1, <2>3, <2>4 DEF RInv
<1>2. RInv /\ [RetrievalNext]_<<vars, rows, ready>> => RInv'
  BY <1>1, IngestionInv, QueryInv DEF RetrievalNext
<1> QED
  BY <1>2, RInitInv, PTL DEF RetrievalSpec

--------------------------------------------------------------------------------
(* Whatever an answer rests on was summarised and indexed from lists of its     *)
(* chunk rows, of all of them if no list is cut off: the join finds no row of a *)
(* document before that, and no row is added after.                             *)
THEOREM AnswersRestHolds == RetrievalSpec => []AnswersRestOnAnalysedDocuments
<1>1. RInv => AnswersRestOnAnalysedDocuments
  <2> SUFFICES ASSUME RInv, NEW r \in Request, reply[r].status = 200,
                      NEW d \in reply[r].answer.found.docs
               PROVE  chunks[d] > 0 /\ {summaries[d], embeddings[d]} \subseteq Tables!Lists(d)
    BY DEF AnswersRestOnAnalysedDocuments
  <2>1. d \in Doc /\ Searchable(d)
    BY DEF RInv, Inv, TypeOK, AnswerType, FoundType, AnswersRest, Rests
  <2>2. Joined(d) /\ Fits(d)
    BY <2>1 DEF RInv, MomentsFit, RowsFit
  <2> QED
    BY <2>2 DEF Fits, Joined
<1> QED
  BY <1>1, RInvHolds, PTL

(* A ready document with words in it is in the scope of all later searches. *)
THEOREM ReadyIsInScopeHolds == RetrievalSpec => []ReadyIsInScope
<1>1. RInv => ReadyIsInScope
  <2> SUFFICES ASSUME RInv, NEW r \in Request, reply[r].status = 200,
                      NEW d \in reply[r].answer.docs \ reply[r].answer.found.scope,
                      ready[d] < reply[r].answer.found.at, chunks[d] # 0
               PROVE  FALSE
    BY DEF ReadyIsInScope
  <2>1. /\ d \in Doc /\ reply[r].answer.found.at \in 0 .. Horizon
        /\ Rests(reply[r].answer) /\ chunks[d] \in Nat
        /\ indexed[d] \in 0 .. Never /\ ready[d] \in 0 .. Never /\ Never = Horizon + 1
    <3>1. reply[r].answer \in AnswerType /\ indexed \in [Doc -> 0 .. Never]
      BY DEF RInv, Inv, TypeOK
    <3>2. /\ reply[r].answer.docs \subseteq Doc
          /\ reply[r].answer.found.at \in 0 .. Horizon
      BY <3>1 DEF AnswerType, FoundType
    <3>3. Rests(reply[r].answer)
      BY DEF RInv, AnswersRest
    <3> QED
      BY <3>1, <3>2, <3>3 DEF RInv, RowsTyped, Never
  <2>2. ready[d] # Never /\ status[d] = "ready"
    BY <2>1 DEF RInv, MomentsFit
  <2>3. Joined(d)
    BY <2>1, <2>2, ListsFacts DEF RInv, RowsFit, Fits, Joined
  <2>4. indexed[d] <= ready[d]
    BY <2>1, <2>2, <2>3 DEF RInv, MomentsFit
  <2> QED
    BY <2>1, <2>4 DEF Rests, Knows
<1> QED
  BY <1>1, RInvHolds, PTL

(* Over the tables too, an answer is no older than TTL + Timeout, ... *)
THEOREM AnswersAreCurrentOverTables == RetrievalSpec => AnswersAreCurrent
<1>1. RInv /\ [RetrievalNext]_<<vars, rows, ready>> => [\A r \in Request : ServedCurrent(r)]_vars
  BY StepServesCurrent, IngestionGrows DEF RInv, RetrievalNext, QueryStep
<1> QED
  BY <1>1, RInvHolds, PTL DEF RetrievalSpec, AnswersAreCurrent

(* ... and no failure of the cache fails a query. *)
THEOREM CacheFailsNoQueryOverTables == RetrievalSpec => CacheFailsNoQuery
<1>1. RInv /\ [RetrievalNext]_<<vars, rows, ready>> => [\A r \in Request : FailedForCause(r)]_vars
  BY StepFailsForCause, IngestionGrows DEF RInv, RetrievalNext, QueryStep
<1> QED
  BY <1>1, RInvHolds, PTL DEF RetrievalSpec, CacheFailsNoQuery

--------------------------------------------------------------------------------
(* A step of the pipeline makes one document searchable, or is not seen by the *)
(* query service.                                                              *)
LEMMA IngestionIndexes ==
    ASSUME RInv, IngestionStep PROVE UNCHANGED vars \/ \E d \in Doc : Index(d)
<1>1. /\ indexed' = [d \in Doc |-> IF ~Searchable(d) /\ Joined(d)' THEN now ELSE indexed[d]]
      /\ UNCHANGED <<now, cache, pc, asked, started, gone, found, reply>>
      /\ indexed \in [Doc -> 0 .. Never]
  BY DEF IngestionStep, RInv, Inv, TypeOK
<1>2. PICK e \in Doc :
        \A d \in Doc \ {e} : chunks'[d] = chunks[d] /\ embeddings'[d] = embeddings[d]
  BY TablesMove DEF RInv, IngestionStep
<1>3. \A d \in Doc \ {e} : indexed'[d] = indexed[d]
  <2> SUFFICES ASSUME NEW d \in Doc \ {e} PROVE indexed'[d] = indexed[d]
    OBVIOUS
  <2>1. Joined(d)' => Searchable(d)
    BY <1>2 DEF Joined, RInv, MomentsFit
  <2> QED
    BY <1>1, <2>1
<1>4. CASE ~Searchable(e) /\ Joined(e)'
  <2>1. indexed' = [indexed EXCEPT ![e] = now] /\ indexed[e] = Never
    BY <1>1, <1>3, <1>4 DEF Searchable
  <2> QED
    BY <1>1, <2>1 DEF Index
<1>5. CASE ~(~Searchable(e) /\ Joined(e)')
  <2>1. indexed' = indexed
    BY <1>1, <1>3, <1>5
  <2> QED
    BY <1>1, <2>1 DEF vars, world
<1> QED
  BY <1>4, <1>5

(* QueryService is a true picture of the service over the pipeline's tables:  *)
(* that documents become searchable one by one, each for good, is all that it *)
(* assumes of them.                                                           *)
THEOREM RetrievalImplementsQueryService == RetrievalSpec => Spec
<1>1. RetrievalInit => Init
  BY DEF RetrievalInit
<1>2. RInv /\ [RetrievalNext]_<<vars, rows, ready>> => [Next]_vars
  BY IngestionIndexes DEF RetrievalNext, QueryStep, Next
<1> QED
  BY <1>1, <1>2, RInvHolds, PTL DEF RetrievalSpec, Spec

(* So over the tables, too, an answer belongs to the query that got it. *)
THEOREM AnswersOwnQuestionOverTables == RetrievalSpec => []AnswersOwnQuestion
BY RetrievalImplementsQueryService, AnswersOwnQuestionHolds, PTL

(* The requests, the cache and the replies keep their types whatever the      *)
(* pipeline does to the tables meanwhile.                                     *)
THEOREM TypeOKOverTables == RetrievalSpec => []TypeOK
BY RetrievalImplementsQueryService, TypeOKHolds, PTL
================================================================================
