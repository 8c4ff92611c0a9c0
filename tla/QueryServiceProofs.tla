-------------------------- MODULE QueryServiceProofs ---------------------------
(******************************************************************************)
(* The answers of the query service, for any number of concurrent requests,   *)
(* any cache content and any failures.  The invariant says what an entry of   *)
(* the cache was made from and how long it can live, and what a request on    *)
(* its way has found so far.                                                  *)
(*                                                                            *)
(* All of it is proved for steps in which any documents become searchable, so *)
(* that it holds over the tables of the pipeline as well.                     *)
(******************************************************************************)
EXTENDS QueryService, FiniteSetTheorems, TLAPS

USE QueryAssumption

Grow ==
    /\ indexed' \in [Doc -> 0 .. Never]
    /\ \A d \in Doc : indexed'[d] = indexed[d] \/ indexed'[d] = now
    /\ \A d \in Doc : indexed'[d] # indexed[d] => indexed[d] = Never
    /\ UNCHANGED <<now, cache, pc, asked, started, gone, found, reply>>

\* The answer is to the query that the key stands for.
Answers(answer, key) ==
    /\ answer.question = key.question /\ answer.topK = key.topK
    /\ answer.docs = {d \in Doc : key.docs[d] > 0}

\* Nothing that was searchable before the search is missing in its scope.
Knows(docs, rows) == \A d \in docs \ rows.scope : ~(indexed[d] < rows.at)

Lives(entry, key) ==
    /\ Answers(entry.answer, key)
    /\ entry.answer.found.at <= now
    /\ entry.expires \in Nat
    /\ TTL > 0 => entry.expires < entry.answer.found.at + TTL + Timeout
    /\ Knows(entry.answer.docs, entry.answer.found)

Entries == \A key \in DOMAIN results : Lives(results[key], key)

Searching ==
    \A r \in Request :
        /\ started[r] <= now
        /\ pc[r] \in {"answer", "setResult"} =>
             /\ started[r] <= found[r].at /\ found[r].at <= now
             /\ Knows(Documents(asked[r]), found[r])

Replies == DOMAIN reply = Request /\ AnswersOwnQuestion

Inv == TypeOK /\ Entries /\ Searching /\ Replies

(* Two bodies with the same key ask the same question about the same documents. *)
LEMMA KeyFacts ==
    ASSUME NEW body \in Body
    PROVE  /\ GenerateCacheKey(body).question = body.question
           /\ GenerateCacheKey(body).topK = TopKOf(body)
           /\ {d \in Doc : GenerateCacheKey(body).docs[d] > 0} = Documents(body)
           /\ Documents(body) \subseteq Doc
           /\ TopKOf(body) \in Nat /\ body.question \in Question
<1>1. body.ids \in Seq(Doc) /\ body.question \in Question /\ body.topK \in Nat
  OBVIOUS
<1>2. \A d \in Doc : Cardinality({i \in DOMAIN body.ids : body.ids[i] = d}) > 0 <=> d \in Documents(body)
  <2> SUFFICES ASSUME NEW d \in Doc
               PROVE  Cardinality({i \in DOMAIN body.ids : body.ids[i] = d}) > 0 <=> d \in Documents(body)
    OBVIOUS
  <2> DEFINE places == {i \in DOMAIN body.ids : body.ids[i] = d}
  <2>1. IsFiniteSet(1 .. Len(body.ids))
    BY <1>1, FS_Interval
  <2>2. IsFiniteSet(places)
    BY <1>1, <2>1, FS_Subset
  <2>3. Cardinality(places) \in Nat /\ (Cardinality(places) = 0 <=> places = {})
    BY <2>2, FS_CardinalityType, FS_EmptySet
  <2>4. places # {} <=> d \in Documents(body)
    BY DEF Documents
  <2> HIDE DEF places
  <2>5. Cardinality(places) > 0 <=> d \in Documents(body)
    BY <2>3, <2>4
  <2> QED
    BY <2>5 DEF places
<1>3. Documents(body) \subseteq Doc
  BY <1>1 DEF Documents
<1>4. {d \in Doc : GenerateCacheKey(body).docs[d] > 0} = Documents(body)
  BY <1>2, <1>3 DEF GenerateCacheKey
<1> QED
  BY <1>1, <1>3, <1>4 DEF GenerateCacheKey, TopKOf

(* The invariant holds before the first request. *)
LEMMA InitInv == Init => Inv
<1> SUFFICES ASSUME Init PROVE Inv
  OBVIOUS
<1>1. TypeOK
  BY DEF Init, TypeOK, Label, FoundType, NothingFound, NoReply, Never
<1>2. Entries /\ Searching /\ Replies
  BY DEF Init, Entries, Searching, Replies, AnswersOwnQuestion, NoReply
<1> QED
  BY <1>1, <1>2 DEF Inv

CacheTyped ==
    /\ \A key \in DOMAIN results :
         results[key].answer \in AnswerType /\ results[key].expires > now
    /\ DOMAIN vectors \subseteq Question /\ \A q \in DOMAIN vectors : vectors[q] > now

Busy(r) == pc[r] \notin {"idle", "answered"}

(* A call that brings its request one step further. *)
LEMMA GotoInv ==
    ASSUME Inv, NEW r \in Request, Busy(r), NEW label \in Label \ {"idle", "answered"}, Goto(r, label),
           label \in {"answer", "setResult"} => pc[r] = "answer",
           UNCHANGED <<world, results, found>>, CacheTyped'
    PROVE  Inv'
<1> USE DEF Inv
<1>1. /\ pc' = [pc EXCEPT ![r] = label] /\ pc \in [Request -> Label]
      /\ UNCHANGED <<now, indexed, results, asked, started, gone, found, reply>>
  BY DEF Goto, world, TypeOK
<1>2. TypeOK'
  BY <1>1 DEF TypeOK, CacheTyped, Busy
<1>3. Entries'
  BY <1>1 DEF Entries, Lives, Answers, Knows
<1>4. Searching'
  BY <1>1 DEF Searching, Knows
<1>5. Replies'
  BY <1>1 DEF Replies, AnswersOwnQuestion
<1> QED
  BY <1>2, <1>3, <1>4, <1>5

(* A request that is answered; what the cache holds afterwards is the caller's *)
(* affair.                                                                     *)
LEMMA ReplyInv ==
    ASSUME Inv, NEW r \in Request, Busy(r), NEW answer, Reply(r, answer),
           answer.status \in {200, 500},
           answer.status = 200 =>
             /\ answer.answer \in AnswerType
             /\ answer.answer.question = asked[r].question
             /\ answer.answer.docs = Documents(asked[r])
             /\ answer.answer.topK = TopKOf(asked[r]),
           UNCHANGED <<world, found>>, CacheTyped', Entries'
    PROVE  Inv'
<1> USE DEF Inv
<1>1. /\ pc' = [pc EXCEPT ![r] = "answered"] /\ pc \in [Request -> Label]
      /\ reply' = [reply EXCEPT ![r] = answer] /\ DOMAIN reply = Request
      /\ UNCHANGED <<now, indexed, asked, started, gone, found>>
  BY DEF Reply, world, TypeOK, Replies
<1>2. /\ reply'[r] = answer /\ pc'[r] = "answered"
      /\ \A q \in Request \ {r} : reply'[q] = reply[q] /\ pc'[q] = pc[q]
      /\ DOMAIN reply' = Request /\ pc' \in [Request -> Label]
  BY <1>1 DEF Label
<1>3. \A q \in Request :
         /\ reply'[q].status \in {0, 200, 500}
         /\ pc'[q] = "answered" <=> reply'[q].status # 0
         /\ reply'[q].status = 200 => reply'[q].answer \in AnswerType
  <2>1. TAKE q \in Request
  <2>2. CASE q = r
    BY <1>2, <2>2
  <2>3. CASE q # r
    <3>1. reply'[q] = reply[q] /\ pc'[q] = pc[q]
      BY <1>2, <2>3
    <3>2. /\ reply[q].status \in {0, 200, 500}
          /\ pc[q] = "answered" <=> reply[q].status # 0
          /\ reply[q].status = 200 => reply[q].answer \in AnswerType
      BY DEF TypeOK
    <3> QED
      BY <3>1, <3>2
  <2> QED
    BY <2>2, <2>3
<1>4. TypeOK'
  BY <1>1, <1>2, <1>3 DEF TypeOK, CacheTyped
<1>5. Searching'
  BY <1>1, <1>2 DEF Searching, Knows
<1>6. Replies'
  BY <1>1, <1>2 DEF Replies, AnswersOwnQuestion
<1> QED
  BY <1>4, <1>5, <1>6

LEMMA ErrorInv ==
    ASSUME Inv, NEW r \in Request, Busy(r), Reply(r, ServerError), UNCHANGED <<world, cache, found>>
    PROVE  Inv'
<1>1. CacheTyped'
  BY DEF Inv, TypeOK, CacheTyped, world, cache
<1>2. Entries'
  BY DEF Inv, Entries, Lives, Answers, Knows, world, cache
<1>3. ServerError.status = 500
  BY DEF ServerError
<1> QED
  BY <1>1, <1>2, <1>3, ReplyInv

LEMMA ArriveInv ==
    ASSUME Inv, NEW r \in Request, Arrive(r)
    PROVE  Inv'
<1> USE DEF Inv
<1>1. PICK body \in Body : asked' = [asked EXCEPT ![r] = body]
  BY DEF Arrive
<1>2. /\ UNCHANGED <<now, indexed, results, vectors>>
      /\ pc' = [pc EXCEPT ![r] = "getResult"] /\ reply' = [reply EXCEPT ![r] = NoReply]
      /\ started' = [started EXCEPT ![r] = now] /\ found' = [found EXCEPT ![r] = NothingFound]
      /\ gone' = gone \ {r} /\ DOMAIN reply = Request
  BY DEF Arrive, world, cache, Replies
<1>3. NothingFound \in FoundType /\ now \in 0 .. Horizon
  BY DEF NothingFound, FoundType, TypeOK
<1>4. /\ pc' \in [Request -> Label] /\ asked' \in [Request -> Body]
      /\ started' \in [Request -> 0 .. Horizon] /\ found' \in [Request -> FoundType]
      /\ gone' \subseteq Request
  BY <1>1, <1>2, <1>3 DEF TypeOK, Label
<1>5. /\ pc'[r] = "getResult" /\ reply'[r] = NoReply /\ started'[r] = now
      /\ \A q \in Request \ {r} : /\ pc'[q] = pc[q] /\ reply'[q] = reply[q] /\ asked'[q] = asked[q]
                                  /\ started'[q] = started[q] /\ found'[q] = found[q]
      /\ DOMAIN reply' = Request
  BY <1>1, <1>2 DEF TypeOK
<1>6. \A q \in Request :
         /\ reply'[q].status \in {0, 200, 500}
         /\ pc'[q] = "answered" <=> reply'[q].status # 0
         /\ reply'[q].status = 200 => reply'[q].answer \in AnswerType
  <2>1. TAKE q \in Request
  <2>2. CASE q = r
    BY <1>5, <2>2 DEF NoReply
  <2>3. CASE q # r
    <3>1. reply'[q] = reply[q] /\ pc'[q] = pc[q]
      BY <1>5, <2>3
    <3>2. /\ reply[q].status \in {0, 200, 500}
          /\ pc[q] = "answered" <=> reply[q].status # 0
          /\ reply[q].status = 200 => reply[q].answer \in AnswerType
      BY DEF TypeOK
    <3> QED
      BY <3>1, <3>2
  <2> QED
    BY <2>2, <2>3
<1>7. TypeOK'
  BY <1>2, <1>4, <1>6 DEF TypeOK
<1>8. Entries'
  BY <1>2 DEF Entries, Lives, Answers, Knows
<1>9. Searching'
  BY <1>2, <1>3, <1>5 DEF Searching, Knows
<1>10. Replies'
  BY <1>5 DEF Replies, AnswersOwnQuestion, NoReply
<1> QED
  BY <1>7, <1>8, <1>9, <1>10

(* The cached answer of a key is one to the query that asks for it. *)
LEMMA HitAnswers ==
    ASSUME Inv, NEW r \in Request, Key(r) \in DOMAIN results
    PROVE  LET answer == results[Key(r)].answer
           IN  /\ answer \in AnswerType
               /\ answer.question = asked[r].question
               /\ answer.docs = Documents(asked[r])
               /\ answer.topK = TopKOf(asked[r])
<1>1. asked[r] \in Body
  BY DEF Inv, TypeOK
<1>2. results[Key(r)].answer \in AnswerType /\ Answers(results[Key(r)].answer, Key(r))
  BY DEF Inv, TypeOK, Entries, Lives
<1> QED
  BY <1>1, <1>2, KeyFacts DEF Key, Answers

LEMMA GetQueryResultInv ==
    ASSUME Inv, NEW r \in Request, GetQueryResult(r)
    PROVE  Inv'
<1>1. /\ Busy(r) /\ UNCHANGED <<world, cache, found>> /\ UNCHANGED <<world, results, found>>
      /\ pc[r] = "getResult"
  BY DEF GetQueryResult, Busy, world, cache
<1>2. CacheTyped'
  BY <1>1 DEF Inv, TypeOK, CacheTyped, world, cache
<1>3. Entries'
  BY <1>1 DEF Inv, Entries, Lives, Answers, Knows, world, cache
<1>4. CASE ResultHit(r) /\ Reply(r, OK(results[Key(r)].answer, TRUE))
  <2> DEFINE answer == OK(results[Key(r)].answer, TRUE)
  <2>1. answer.status = 200 /\ answer.answer = results[Key(r)].answer
    BY DEF OK
  <2>2. Key(r) \in DOMAIN results
    BY <1>4 DEF ResultHit
  <2> HIDE DEF answer
  <2>3. /\ answer.answer \in AnswerType
        /\ answer.answer.question = asked[r].question
        /\ answer.answer.docs = Documents(asked[r])
        /\ answer.answer.topK = TopKOf(asked[r])
    BY <2>1, <2>2, HitAnswers
  <2>4. Reply(r, answer)
    BY <1>4 DEF answer
  <2> QED
    BY <1>1, <1>2, <1>3, <2>1, <2>3, <2>4, ReplyInv
<1>5. CASE Goto(r, "getEmbedding")
  BY <1>1, <1>2, <1>5, GotoInv DEF Label
<1> QED
  BY <1>4, <1>5 DEF GetQueryResult

(* Steps that leave the cache and the findings alone. *)
LEMMA PlainInv ==
    ASSUME Inv, NEW r \in Request, GetEmbedding(r) \/ Embed(r) \/ Answer(r)
    PROVE  Inv'
<1>1. UNCHANGED <<world, cache, found>> /\ UNCHANGED <<world, results, found>> /\ Busy(r)
  BY DEF GetEmbedding, Embed, Answer, world, cache, Busy
<1>2. CacheTyped'
  BY <1>1 DEF Inv, TypeOK, CacheTyped, world, cache
<1>3. CASE Reply(r, ServerError)
  BY <1>1, <1>3, ErrorInv
<1>4. ASSUME NEW label \in {"topK", "embed", "setEmbedding"}, Goto(r, label)
      PROVE  Inv'
  BY <1>1, <1>2, <1>4, GotoInv DEF Label
<1>5. CASE pc[r] = "answer" /\ Goto(r, "setResult")
  BY <1>1, <1>2, <1>5, GotoInv DEF Label
<1> QED
  BY <1>3, <1>4, <1>5 DEF GetEmbedding, Embed, Answer

(* What is stored is not expired yet. *)
LEMMA ExpiryFacts ==
    ASSUME Inv
    PROVE  /\ Expiry \in Nat /\ Expiry > now
           /\ TTL > 0 => Expiry = now + TTL
BY DEF Inv, TypeOK, Expiry, Never

LEMMA SetEmbeddingInv ==
    ASSUME Inv, NEW r \in Request, SetEmbedding(r)
    PROVE  Inv'
<1>1. /\ Busy(r) /\ Goto(r, "topK")
  BY DEF SetEmbedding, Busy
<1>2. UNCHANGED <<world, results, found>>
  BY DEF SetEmbedding, CacheVector
<1>3. CacheTyped'
  <2>1. asked[r].question \in Question
    BY KeyFacts DEF Inv, TypeOK
  <2>2. CASE vectors' = Set(vectors, EmbeddingKey(r), Expiry)
    BY <1>2, <2>1, <2>2, ExpiryFacts DEF Inv, TypeOK, CacheTyped, Set, EmbeddingKey, world
  <2>3. CASE UNCHANGED vectors
    BY <1>2, <2>3 DEF Inv, TypeOK, CacheTyped, world
  <2> QED
    BY <2>2, <2>3 DEF SetEmbedding, CacheVector
<1> QED
  BY <1>1, <1>2, <1>3, GotoInv DEF Label

(* What the search finds is everything that is searchable when it is made, or  *)
(* is marked as cut off.                                                       *)
LEMMA TopKInv ==
    ASSUME Inv, NEW r \in Request, TopK(r)
    PROVE  Inv'
<1> USE DEF Inv
<1>1. pc[r] = "topK" /\ Busy(r) /\ UNCHANGED <<world, cache>>
  BY DEF TopK, Busy
<1>2. CASE Reply(r, ServerError) /\ UNCHANGED found
  BY <1>1, <1>2, ErrorInv
<1>3. ASSUME NEW rows \in Found(r), found' = [found EXCEPT ![r] = rows], Goto(r, "answer")
      PROVE  Inv'
  <2>1. asked[r] \in Body /\ Documents(asked[r]) \subseteq Doc /\ now \in 0 .. Horizon
    BY KeyFacts DEF TypeOK
  <2>2. /\ rows.scope = {d \in Documents(asked[r]) : Searchable(d)} /\ rows.at = now
        /\ rows \in FoundType
    <3> DEFINE all == {d \in Documents(asked[r]) : Searchable(d)}
    <3>1. PICK docs \in SUBSET all : rows = [scope |-> all, docs |-> docs, at |-> now]
      BY <1>3 DEF Found, Choices
    <3>2. all \in SUBSET Doc /\ docs \in SUBSET Doc
      BY <2>1
    <3> HIDE DEF all
    <3>3. rows \in FoundType /\ rows.scope = all /\ rows.at = now
      BY <2>1, <3>1, <3>2 DEF FoundType
    <3> QED
      BY <3>3 DEF all
  <2>3. /\ pc' = [pc EXCEPT ![r] = "answer"]
        /\ UNCHANGED <<now, indexed, results, vectors, asked, started, gone, reply>>
    BY <1>1, <1>3 DEF Goto, world, cache
  <2>4. /\ pc'[r] = "answer" /\ found'[r] = rows
        /\ \A q \in Request \ {r} : pc'[q] = pc[q] /\ found'[q] = found[q]
        /\ pc' \in [Request -> Label] /\ found' \in [Request -> FoundType]
    BY <1>3, <2>2, <2>3 DEF TypeOK, Label
  <2>5. TypeOK'
    <3>1. \A q \in Request : pc'[q] = "answered" <=> pc[q] = "answered"
      BY <1>1, <2>4
    <3> QED
      BY <2>3, <2>4, <3>1 DEF TypeOK
  <2>6. Knows(Documents(asked[r]), rows)
    BY <2>1, <2>2 DEF Knows, Searchable, Never
  <2>7. started[r] <= rows.at /\ rows.at <= now
    BY <2>1, <2>2 DEF Searching
  <2>8. Searching'
    BY <2>3, <2>4, <2>6, <2>7 DEF Searching, Knows
  <2>9. Entries' /\ Replies'
    BY <2>3 DEF Entries, Lives, Answers, Knows, Replies, AnswersOwnQuestion
  <2> QED
    BY <2>5, <2>8, <2>9
<1> QED
  BY <1>2, <1>3 DEF TopK

(* A new entry: its search was made under the same context, so it is younger   *)
(* than Timeout when the entry gets its TTL.                                   *)
LEMMA SetQueryResultInv ==
    ASSUME Inv, NEW r \in Request, SetQueryResult(r)
    PROVE  Inv'
<1> USE DEF Inv
<1> DEFINE made == Made(asked[r], found[r])
<1>1. pc[r] = "setResult" /\ Busy(r) /\ UNCHANGED <<world, vectors, found>>
  BY DEF SetQueryResult, Busy
<1>2. asked[r] \in Body /\ found[r] \in FoundType /\ now \in 0 .. Horizon
  BY DEF TypeOK
<1>3. /\ made.question = asked[r].question /\ made.docs = Documents(asked[r])
      /\ made.topK = TopKOf(asked[r]) /\ made.found = found[r]
      /\ made \in AnswerType
  BY <1>2, KeyFacts DEF Made, AnswerType
<1>4. Answers(made, Key(r))
  BY <1>2, <1>3, KeyFacts DEF Answers, Key
<1>5. /\ started[r] <= found[r].at /\ found[r].at <= now
      /\ found[r].at \in Nat /\ started[r] \in Nat
      /\ Knows(made.docs, made.found)
  BY <1>1, <1>2, <1>3 DEF Searching, TypeOK, FoundType
<1>6. CacheResult(r, made) /\ Reply(r, OK(made, FALSE))
  BY DEF SetQueryResult
<1> HIDE DEF made
<1>7. CacheTyped' /\ Entries'
  <2>1. CASE UNCHANGED results
    BY <1>1, <2>1 DEF TypeOK, CacheTyped, Entries, Lives, Answers, Knows, world
  <2>2. CASE /\ Works(r)
             /\ results' = Set(results, Key(r), [answer |-> made, expires |-> Expiry])
    <3>1. /\ DOMAIN results' = DOMAIN results \cup {Key(r)}
          /\ results'[Key(r)] = [answer |-> made, expires |-> Expiry]
          /\ \A key \in DOMAIN results : key # Key(r) => results'[key] = results[key]
      BY <2>2 DEF Set
    <3>2. CacheTyped'
      <4>1. /\ now' = now /\ vectors' = vectors
            /\ \A key \in DOMAIN results :
                 results[key].answer \in AnswerType /\ results[key].expires > now
            /\ DOMAIN vectors \subseteq Question /\ \A q \in DOMAIN vectors : vectors[q] > now
        BY <1>1 DEF TypeOK, world
      <4>2. made \in AnswerType /\ Expiry > now
        BY <1>2, <1>3, ExpiryFacts
      <4>3. \A key \in DOMAIN results' :
              results'[key].answer \in AnswerType /\ results'[key].expires > now
        BY <3>1, <4>1, <4>2
      <4> QED
        BY <4>1, <4>3 DEF CacheTyped
    <3>3. now < started[r] + Timeout
      BY <1>2, <1>5, <2>2 DEF Works, Expired
    <3>4. TTL > 0 => Expiry < made.found.at + TTL + Timeout
      BY <1>2, <1>3, <1>5, <3>3, ExpiryFacts
    <3>5. now' = now /\ indexed' = indexed
      BY <1>1 DEF world
    <3>6. Entries'
      <4> SUFFICES ASSUME NEW key \in DOMAIN results' PROVE Lives(results[key], key)'
        BY DEF Entries
      <4>1. CASE key = Key(r)
        <5>1. results'[key].answer = made /\ results'[key].expires = Expiry
          BY <3>1, <4>1
        <5> QED
          BY <1>3, <1>4, <1>5, <3>4, <3>5, <4>1, <5>1, ExpiryFacts DEF Lives, Knows, Answers
      <4>2. CASE key # Key(r)
        <5>1. results'[key] = results[key] /\ Lives(results[key], key)
          BY <3>1, <4>2 DEF Entries
        <5> QED
          BY <3>5, <5>1 DEF Lives, Knows, Answers
      <4> QED
        BY <4>1, <4>2
    <3> QED
      BY <3>2, <3>6
  <2> QED
    BY <1>6, <2>1, <2>2 DEF CacheResult
<1> DEFINE answer == OK(made, FALSE)
<1>8. answer.status = 200 /\ answer.answer = made
  BY DEF OK
<1> HIDE DEF answer
<1>9. Reply(r, answer)
  BY <1>6 DEF answer
<1> QED
  BY <1>1, <1>3, <1>7, <1>8, <1>9, ReplyInv

LEMMA ClientGoneInv ==
    ASSUME Inv, NEW r \in Request, ClientGone(r)
    PROVE  Inv'
BY DEF ClientGone, world, cache, Inv, TypeOK, Entries, Lives, Answers, Searching, Knows, Replies,
       AnswersOwnQuestion

(* Time only drops entries, those that have expired. *)
LEMMA TickInv == ASSUME Inv, Tick PROVE Inv'
<1> USE DEF Inv
<1>1. /\ now' = now + 1 /\ now \in 0 .. Horizon /\ now' \in 0 .. Horizon /\ now \in Nat
      /\ UNCHANGED <<indexed, pc, asked, started, gone, found, reply>>
  BY DEF Tick, TypeOK
<1>2. \A key \in DOMAIN results' :
         key \in DOMAIN results /\ results'[key] = results[key] /\ results[key].expires > now'
  BY DEF Tick
<1>3. \A q \in DOMAIN vectors' : q \in DOMAIN vectors /\ vectors'[q] > now'
  BY DEF Tick
<1>4. TypeOK'
  BY <1>1, <1>2, <1>3 DEF TypeOK
<1>5. Entries'
  <2> SUFFICES ASSUME NEW key \in DOMAIN results' PROVE Lives(results[key], key)'
    BY DEF Entries
  <2>1. results'[key] = results[key] /\ Lives(results[key], key)
    BY <1>2 DEF Entries
  <2>2. results[key].answer.found.at \in 0 .. Horizon
    BY <1>2 DEF TypeOK, AnswerType, FoundType
  <2> QED
    BY <1>1, <2>1, <2>2 DEF Lives, Knows, Answers
<1>6. Searching'
  BY <1>1 DEF Searching, Knows, TypeOK, FoundType
<1>7. Replies'
  BY <1>1 DEF Replies, AnswersOwnQuestion
<1> QED
  BY <1>4, <1>5, <1>6, <1>7

LEMMA RedisRestartInv == ASSUME Inv, RedisRestart PROVE Inv'
BY DEF RedisRestart, world, Inv, TypeOK, Entries, Searching, Knows, Replies, AnswersOwnQuestion

(* A document that becomes searchable now was not in the scope of an earlier   *)
(* search, and did not have to be.                                             *)
LEMMA GrowInv == ASSUME Inv, Grow PROVE Inv'
<1> USE DEF Inv
<1>1. /\ UNCHANGED <<now, results, vectors, pc, asked, started, gone, found, reply>>
      /\ now \in Nat
  BY DEF Grow, cache, TypeOK
<1>2. TypeOK'
  BY <1>1 DEF Grow, TypeOK
<1>3. ASSUME NEW docs \in SUBSET Doc, NEW rows \in FoundType, rows.at <= now, Knows(docs, rows)
      PROVE  Knows(docs, rows)'
  <2> SUFFICES ASSUME NEW d \in docs \ rows.scope PROVE ~(indexed'[d] < rows.at)
    BY DEF Knows
  <2>1. rows.at \in Nat /\ ~(indexed[d] < rows.at)
    BY <1>3 DEF Knows, FoundType
  <2> QED
    BY <1>1, <1>3, <2>1 DEF Grow
<1>4. Entries'
  <2> SUFFICES ASSUME NEW key \in DOMAIN results PROVE Lives(results[key], key)'
    BY <1>1 DEF Entries
  <2>1. Lives(results[key], key) /\ results[key].answer \in AnswerType
    BY DEF Entries, TypeOK
  <2>2. results[key].answer.docs \in SUBSET Doc /\ results[key].answer.found \in FoundType
    BY <2>1 DEF AnswerType
  <2>3. Knows(results[key].answer.docs, results[key].answer.found)'
    BY <1>1, <1>3, <2>1, <2>2 DEF Lives, Knows
  <2> QED
    BY <1>1, <2>1, <2>3 DEF Lives, Answers
<1>5. Searching'
  <2> SUFFICES ASSUME NEW r \in Request, pc[r] \in {"answer", "setResult"}
               PROVE  Knows(Documents(asked[r]), found[r])'
    BY <1>1 DEF Searching
  <2>1. found[r] \in FoundType /\ Documents(asked[r]) \in SUBSET Doc
    BY KeyFacts DEF TypeOK
  <2>2. found[r].at <= now /\ Knows(Documents(asked[r]), found[r])
    BY DEF Searching
  <2> QED
    BY <1>1, <1>3, <2>1, <2>2 DEF Knows
<1>6. Replies'
  BY <1>1 DEF Replies, AnswersOwnQuestion
<1> QED
  BY <1>2, <1>4, <1>5, <1>6

LEMMA IndexGrows == ASSUME Inv, NEW d \in Doc, Index(d) PROVE Grow
BY DEF Index, Grow, Inv, TypeOK, Never

(* Every step preserves the invariant. *)
LEMMA ServiceInv == ASSUME Inv, ServiceNext \/ Grow \/ UNCHANGED vars PROVE Inv'
<1>1. CASE UNCHANGED vars
  BY <1>1 DEF vars, world, cache, Inv, TypeOK, Entries, Lives, Answers, Searching, Knows, Replies,
              AnswersOwnQuestion
<1>2. ASSUME NEW r \in Request, Arrive(r) \/ queryHandler(r) \/ ClientGone(r)
      PROVE  Inv'
  BY <1>2, ArriveInv, GetQueryResultInv, PlainInv, SetEmbeddingInv, TopKInv, SetQueryResultInv,
     ClientGoneInv DEF queryHandler
<1> QED
  BY <1>1, <1>2, TickInv, RedisRestartInv, GrowInv DEF ServiceNext

(* A request is answered by its own handler: from the cache, with what it has  *)
(* just made, or with an error of one of the three calls that may fail it.      *)
LEMMA HowAnswered ==
    ASSUME Inv, ServiceNext \/ Grow \/ UNCHANGED vars,
           NEW r \in Request, pc[r] # "answered", pc'[r] = "answered"
    PROVE  /\ UNCHANGED <<now, indexed>>
           /\ \/ ResultHit(r) /\ reply'[r] = OK(results[Key(r)].answer, TRUE)
              \/ pc[r] = "setResult" /\ reply'[r] = OK(Made(asked[r], found[r]), FALSE)
              \/ /\ EmbedFails \/ Fails(r, "store") \/ AnswerFails(r)
                 /\ reply'[r] = ServerError
<1> USE DEF Inv
<1>1. pc \in [Request -> Label] /\ DOMAIN reply = Request
  BY DEF TypeOK, Replies
<1>2. ~Grow /\ ~UNCHANGED vars /\ ~Tick /\ ~RedisRestart
  BY DEF Grow, vars, Tick, RedisRestart
<1>3. ASSUME NEW q \in Request, Arrive(q) \/ ClientGone(q)
      PROVE  FALSE
  BY <1>1, <1>3 DEF Arrive, ClientGone
<1>4. PICK q \in Request : queryHandler(q)
  BY <1>2, <1>3 DEF ServiceNext
<1>5. \/ \E label : Goto(q, label)
      \/ \E answer : Reply(q, answer)
  BY <1>4 DEF queryHandler, GetQueryResult, GetEmbedding, Embed, SetEmbedding, TopK, Answer,
              SetQueryResult
<1>6. q = r
  BY <1>1, <1>5 DEF Goto, Reply
<1>7. ASSUME NEW label \in Label \ {"answered"}, Goto(r, label)
      PROVE  FALSE
  BY <1>1, <1>7 DEF Goto
<1>8. ASSUME NEW answer, Reply(r, answer)
      PROVE  reply'[r] = answer
  BY <1>1, <1>8 DEF Reply
<1>9. CASE GetQueryResult(r)
  BY <1>7, <1>8, <1>9 DEF GetQueryResult, Label, world
<1>10. CASE GetEmbedding(r) \/ SetEmbedding(r)
  BY <1>7, <1>10 DEF GetEmbedding, SetEmbedding, Label
<1>11. CASE Embed(r)
  BY <1>7, <1>8, <1>11 DEF Embed, Label, world
<1>12. CASE TopK(r)
  BY <1>7, <1>8, <1>12 DEF TopK, Label, world
<1>13. CASE Answer(r)
  BY <1>7, <1>8, <1>13 DEF Answer, Label, world
<1>14. CASE SetQueryResult(r)
  BY <1>8, <1>14 DEF SetQueryResult, world
<1> QED
  BY <1>4, <1>6, <1>9, <1>10, <1>11, <1>12, <1>13, <1>14 DEF queryHandler

(* The age of an answer: that of the entry it comes from, or of its own search. *)
LEMMA StepServesCurrent ==
    ASSUME Inv, ServiceNext \/ Grow \/ UNCHANGED vars, NEW r \in Request
    PROVE  ServedCurrent(r)
<1> USE DEF Inv
<1> SUFFICES ASSUME Served(r) PROVE ServedCurrent(r)
  BY DEF ServedCurrent
<1>1. now \in 0 .. Horizon /\ UNCHANGED indexed /\ reply'[r].status = 200
  BY HowAnswered DEF Served, TypeOK
<1>2. CASE ResultHit(r) /\ reply'[r] = OK(results[Key(r)].answer, TRUE)
  <2> DEFINE entry == results[Key(r)]
  <2>1. /\ Lives(entry, Key(r)) /\ entry.expires > now /\ entry.answer \in AnswerType
    BY <1>2 DEF ResultHit, Entries, TypeOK
  <2>2. reply'[r].answer = entry.answer /\ reply'[r].cached
    BY <1>2 DEF OK
  <2> HIDE DEF entry
  <2>3. entry.answer.found.at \in Nat /\ entry.expires \in Nat
    BY <2>1 DEF Lives, AnswerType, FoundType
  <2>4. TTL > 0 => now - entry.answer.found.at < TTL + Timeout
    BY <1>1, <2>1, <2>3 DEF Lives
  <2>5. ~Misses(entry.answer)
    BY <2>1 DEF Lives, Knows, Misses
  <2> QED
    BY <1>1, <2>2, <2>4, <2>5 DEF ServedCurrent, Misses
<1>3. CASE pc[r] = "setResult" /\ reply'[r] = OK(Made(asked[r], found[r]), FALSE)
  <2> DEFINE made == Made(asked[r], found[r])
  <2>1. made.docs = Documents(asked[r]) /\ made.found = found[r]
    BY DEF Made
  <2>2. reply'[r].answer = made /\ reply'[r].cached = FALSE
    BY <1>3 DEF OK
  <2> HIDE DEF made
  <2>3. /\ started[r] <= found[r].at /\ Knows(Documents(asked[r]), found[r])
        /\ started[r] \in Nat /\ found[r].at \in Nat
    BY <1>3 DEF Searching, TypeOK, FoundType
  <2>4. made.found.at >= started[r] /\ ~Misses(made)
    BY <2>1, <2>3 DEF Knows, Misses
  <2> QED
    BY <1>1, <2>2, <2>4 DEF ServedCurrent, Misses
<1>4. CASE reply'[r] = ServerError
  BY <1>1, <1>4 DEF ServerError
<1> QED
  BY <1>2, <1>3, <1>4, HowAnswered DEF Served

LEMMA StepFailsForCause ==
    ASSUME Inv, ServiceNext \/ Grow \/ UNCHANGED vars, NEW r \in Request
    PROVE  FailedForCause(r)
<1> SUFFICES ASSUME pc[r] # "answered", pc'[r] = "answered", reply'[r].status = 500
             PROVE  Expired(r) \/ Failing \cap {"embedder", "store", "llm"} # {}
  BY DEF FailedForCause
<1>1. EmbedFails \/ Fails(r, "store") \/ AnswerFails(r)
  <2>1. CASE reply'[r] = OK(results[Key(r)].answer, TRUE)
    <3>1. reply'[r].status = 200
      BY <2>1 DEF OK
    <3> QED
      BY <3>1
  <2>2. CASE reply'[r] = OK(Made(asked[r], found[r]), FALSE)
    <3>1. reply'[r].status = 200
      BY <2>2 DEF OK
    <3> QED
      BY <3>1
  <2> QED
    BY <2>1, <2>2, HowAnswered
<1> QED
  BY <1>1 DEF EmbedFails, AnswerFails, Fails

(* The invariant holds throughout.                                            *)
LEMMA InvHolds == Spec => []Inv
<1>1. Inv /\ [Next]_vars => Inv'
  BY ServiceInv, IndexGrows DEF Next
<1> QED
  BY <1>1, InitInv, PTL DEF Spec

(* The requests, the cache and the clock keep their types. *)
THEOREM TypeOKHolds == Spec => []TypeOK
<1>1. Inv => TypeOK
  BY DEF Inv
<1> QED
  BY <1>1, InvHolds, PTL

(* Every answer belongs to the question, the documents and the limit that were *)
(* sent, for any bodies and any sharing of the cache.                          *)
THEOREM AnswersOwnQuestionHolds == Spec => []AnswersOwnQuestion
<1>1. Inv => AnswersOwnQuestion
  BY DEF Inv, Replies
<1> QED
  BY <1>1, InvHolds, PTL

(* A cached answer is younger than TTL + Timeout, a fresh one than its request, *)
(* and all that was searchable before their search was in the scope of it.      *)
THEOREM AnswersAreCurrentHolds == Spec => AnswersAreCurrent
<1>1. Inv /\ [Next]_vars => [\A r \in Request : ServedCurrent(r)]_vars
  BY StepServesCurrent, IndexGrows DEF Next
<1> QED
  BY <1>1, InvHolds, PTL DEF Spec, AnswersAreCurrent

(* No failure of the cache fails a query. *)
THEOREM CacheFailsNoQueryHolds == Spec => CacheFailsNoQuery
<1>1. Inv /\ [Next]_vars => [\A r \in Request : FailedForCause(r)]_vars
  BY StepFailsForCause, IndexGrows DEF Next
<1> QED
  BY <1>1, InvHolds, PTL DEF Spec, CacheFailsNoQuery
================================================================================
