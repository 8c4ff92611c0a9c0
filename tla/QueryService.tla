----------------------------- MODULE QueryService ------------------------------
(******************************************************************************)
(* cmd/query with internal/cache: the handler of POST /api/query, one action  *)
(* per call it makes, over a cache shared by all requests whose entries       *)
(* expire, and documents that become searchable meanwhile.                    *)
(*                                                                            *)
(* An answer is what it was made from: the question, the documents and the    *)
(* limit of the request it was computed for, and the vector search behind it: *)
(* when it was made, the documents in its scope, whose vectors it had to      *)
(* choose from, and those whose rows it returned.  A vector is determined by  *)
(* its question.                                                              *)
(*                                                                            *)
(* The requests are those that pass validation; any other is answered 400     *)
(* before it makes a call.                                                    *)
(******************************************************************************)
EXTENDS Integers, FiniteSets, Sequences

CONSTANTS
    Doc,
    Question,
    Request,       \* the handlers that run concurrently
    Body,          \* the bodies a client may send
    TTL,           \* CACHE_TTL
    Timeout,       \* the router's and the gateway's limit for one request
    Horizon,       \* the last moment the model's clock shows
    Failing        \* which calls may fail: a subset of FailureKinds

\* "client": who asked hangs up.
FailureKinds == {"cache", "embedder", "store", "llm", "client"}

ASSUME QueryAssumption ==
    /\ Body # {} /\ Body \subseteq [question : Question, ids : Seq(Doc) \ {<<>>}, topK : Nat]
    /\ TTL \in Nat /\ Timeout \in Nat \ {0} /\ Horizon \in Nat
    /\ Failing \subseteq FailureKinds

VARIABLES
    now,
    indexed,       \* when the vectors of a document were stored
    results,       \* the entries under query:*, by key
    vectors,       \* the entries under embed:*, by question
    pc, asked, started, gone, found, reply    \* the requests

world == <<now, indexed>>
cache == <<results, vectors>>
vars == <<world, cache, pc, asked, started, gone, found, reply>>

Never == Horizon + 1
NoReply == [status |-> 0]
NothingFound == [scope |-> {}, docs |-> {}, at |-> 0]

Init ==
    /\ now = 0
    /\ indexed = [d \in Doc |-> Never]
    /\ results = <<>> /\ vectors = <<>>
    /\ pc = [r \in Request |-> "idle"]
    /\ asked = [r \in Request |-> CHOOSE body \in Body : TRUE]
    /\ started = [r \in Request |-> 0]
    /\ gone = {}
    /\ found = [r \in Request |-> NothingFound]
    /\ reply = [r \in Request |-> NoReply]

--------------------------------------------------------------------------------
Documents(body) == {body.ids[i] : i \in DOMAIN body.ids}
TopKOf(body) == IF body.topK = 0 THEN 5 ELSE body.topK

\* A key that forgets the documents.
GenerateCacheKeyNoDocs(body) ==
    [question |-> body.question, docs |-> [d \in Doc |-> 0], topK |-> TopKOf(body)]

\* The ids are sorted, not made unique: the key tells how often each occurs.
GenerateCacheKey(body) ==
    [question |-> body.question,
     docs |-> [d \in Doc |-> Cardinality({i \in DOMAIN body.ids : body.ids[i] = d})],
     topK |-> TopKOf(body)]

Key(r) == GenerateCacheKey(asked[r])

Made(body, rows) ==
    [question |-> body.question, docs |-> Documents(body), topK |-> TopKOf(body),
     found |-> rows]

\* An entry of the embedding cache is found by its text alone.
EmbeddingKey(r) == asked[r].question

\* An expiry taken for a moment, not for a duration.
ExpiryAbsolute == IF TTL = 0 THEN Never ELSE TTL

\* Redis takes an expiration of 0 for none.
Expiry == IF TTL = 0 THEN Never ELSE now + TTL

\* The request's context ends with its client or after the timeout.
Expired(r) == r \in gone \/ now - started[r] >= Timeout

\* A call made under the request's context.
Works(r) == ~Expired(r)
Fails(r, kind) == Expired(r) \/ kind \in Failing

(******************************************************************************)
(* The cache, as a request sees it.  An error of a read counts as a miss; one *)
(* of a write is only logged.                                                 *)
(******************************************************************************)
ResultHit(r) == Works(r) /\ Key(r) \in DOMAIN results
ResultMiss(r) == Fails(r, "cache") \/ Key(r) \notin DOMAIN results

VectorHit(r) == Works(r) /\ EmbeddingKey(r) \in DOMAIN vectors
VectorMiss(r) == Fails(r, "cache") \/ EmbeddingKey(r) \notin DOMAIN vectors

\* SET gives a key a value and an expiration, whatever it had before.
Set(entries, key, value) ==
    [k \in DOMAIN entries \cup {key} |-> IF k = key THEN value ELSE entries[k]]

CacheResult(r, made) ==
    \/ /\ Works(r)
       /\ results' = Set(results, Key(r), [answer |-> made, expires |-> Expiry])
    \/ Fails(r, "cache") /\ UNCHANGED results

CacheVector(r) ==
    \/ Works(r) /\ vectors' = Set(vectors, EmbeddingKey(r), Expiry)
    \/ Fails(r, "cache") /\ UNCHANGED vectors

\* The clients of OpenAI: Embed runs under a context of its own, which no
\* request can end; Answer runs under the request's, for 30 seconds at most.
EmbedFails == "embedder" \in Failing
AnswerFails(r) == Fails(r, "llm")

Goto(r, label) == pc' = [pc EXCEPT ![r] = label] /\ UNCHANGED <<reply, asked, started, gone>>

Reply(r, answer) ==
    /\ pc' = [pc EXCEPT ![r] = "answered"]
    /\ reply' = [reply EXCEPT ![r] = answer]
    /\ UNCHANGED <<asked, started, gone>>

OK(answer, fromCache) == [status |-> 200, answer |-> answer, cached |-> fromCache]
ServerError == [status |-> 500]

--------------------------------------------------------------------------------
Arrive(r) ==
    /\ pc[r] \in {"idle", "answered"}
    /\ pc' = [pc EXCEPT ![r] = "getResult"]
    /\ \E body \in Body : asked' = [asked EXCEPT ![r] = body]
    /\ started' = [started EXCEPT ![r] = now]
    /\ gone' = gone \ {r}
    /\ found' = [found EXCEPT ![r] = NothingFound]
    /\ reply' = [reply EXCEPT ![r] = NoReply]
    /\ UNCHANGED <<world, cache>>

GetQueryResult(r) ==
    /\ pc[r] = "getResult"
    /\ \/ ResultHit(r) /\ Reply(r, OK(results[Key(r)].answer, TRUE))
       \/ ResultMiss(r) /\ Goto(r, "getEmbedding")
    /\ UNCHANGED <<world, cache, found>>

\* A cache error that fails the query.
GetEmbeddingStrict(r) ==
    /\ pc[r] = "getEmbedding"
    /\ \/ VectorHit(r) /\ Goto(r, "topK")
       \/ EmbeddingKey(r) \notin DOMAIN vectors /\ Goto(r, "embed")
       \/ Fails(r, "cache") /\ Reply(r, ServerError)
    /\ UNCHANGED <<world, cache, found>>

GetEmbedding(r) ==
    /\ pc[r] = "getEmbedding"
    /\ \/ VectorHit(r) /\ Goto(r, "topK")
       \/ VectorMiss(r) /\ Goto(r, "embed")
    /\ UNCHANGED <<world, cache, found>>

Embed(r) ==
    /\ pc[r] = "embed"
    /\ \/ Goto(r, "setEmbedding")
       \/ EmbedFails /\ Reply(r, ServerError)
    /\ UNCHANGED <<world, cache, found>>

SetEmbedding(r) ==
    /\ pc[r] = "setEmbedding"
    /\ CacheVector(r)
    /\ Goto(r, "topK")
    /\ UNCHANGED <<world, results, found>>

Searchable(d) == indexed[d] # Never

\* The rows of the search: of those in its scope some that are similar enough
\* to the question, at most as many as its limit, and perhaps not all of these,
\* for the loop that reads them never asks rows.Err.
Choices(scope, body) ==
    {[scope |-> scope, docs |-> docs, at |-> now] :
        docs \in {some \in SUBSET scope : Cardinality(some) <= TopKOf(body)}}

\* A variant: what was searchable before the request arrived.
FoundAtArrival(r) ==
    Choices({d \in Documents(asked[r]) : indexed[d] < started[r]}, asked[r])

Found(r) == Choices({d \in Documents(asked[r]) : Searchable(d)}, asked[r])

TopK(r) ==
    /\ pc[r] = "topK"
    /\ \/ /\ Works(r)
          /\ \E rows \in Found(r) : found' = [found EXCEPT ![r] = rows]
          /\ Goto(r, "answer")
       \/ Fails(r, "store") /\ Reply(r, ServerError) /\ UNCHANGED found
    /\ UNCHANGED <<world, cache>>

\* An LLM error that is retried from the search, without a limit.
AnswerRetried(r) ==
    /\ pc[r] = "answer"
    /\ \/ Works(r) /\ Goto(r, "setResult")
       \/ AnswerFails(r) /\ Goto(r, "topK")
    /\ UNCHANGED <<world, cache, found>>

Answer(r) ==
    /\ pc[r] = "answer"
    /\ \/ Works(r) /\ Goto(r, "setResult")
       \/ AnswerFails(r) /\ Reply(r, ServerError)
    /\ UNCHANGED <<world, cache, found>>

\* An entry stored under a context of its own.
SetQueryResultDetached(r) ==
    LET made == Made(asked[r], found[r])
        entry == [answer |-> made, expires |-> Expiry]
    IN  /\ pc[r] = "setResult"
        /\ results' = Set(results, Key(r), entry)
        /\ Reply(r, OK(made, FALSE))
        /\ UNCHANGED <<world, vectors, found>>

\* The answer goes into the cache, if it can, and then to the client.
SetQueryResult(r) ==
    LET made == Made(asked[r], found[r])
    IN  /\ pc[r] = "setResult"
        /\ CacheResult(r, made)
        /\ Reply(r, OK(made, FALSE))
        /\ UNCHANGED <<world, vectors, found>>

queryHandler(r) ==
    \/ GetQueryResult(r) \/ GetEmbedding(r) \/ Embed(r) \/ SetEmbedding(r)
    \/ TopK(r) \/ Answer(r) \/ SetQueryResult(r)

--------------------------------------------------------------------------------
\* The client, or the gateway that forwards for it, hangs up.
ClientGone(r) ==
    /\ "client" \in Failing
    /\ pc[r] \notin {"idle", "answered"} /\ r \notin gone
    /\ gone' = gone \cup {r}
    /\ UNCHANGED <<world, cache, pc, asked, started, found, reply>>

\* The analysis stores the vectors of a document.  Nobody calls
\* InvalidateDocument then.
Index(d) ==
    /\ indexed[d] = Never
    /\ indexed' = [indexed EXCEPT ![d] = now]
    /\ UNCHANGED <<now, cache, pc, asked, started, gone, found, reply>>

\* Redis drops what has expired.
Tick ==
    /\ now < Horizon
    /\ now' = now + 1
    /\ results' = [key \in {k \in DOMAIN results : results[k].expires > now'} |-> results[key]]
    /\ vectors' = [q \in {p \in DOMAIN vectors : vectors[p] > now'} |-> vectors[q]]
    /\ UNCHANGED <<indexed, pc, asked, started, gone, found, reply>>

\* Redis keeps nothing on disk.
RedisRestart ==
    /\ "cache" \in Failing /\ cache # <<<<>>, <<>>>>
    /\ results' = <<>> /\ vectors' = <<>>
    /\ UNCHANGED <<world, pc, asked, started, gone, found, reply>>

ServiceNext ==
    \/ \E r \in Request : Arrive(r) \/ queryHandler(r) \/ ClientGone(r)
    \/ Tick \/ RedisRestart

Next == ServiceNext \/ \E d \in Doc : Index(d)

Spec == Init /\ [][Next]_vars

\* Every call returns, and the handler goes on.
FairSpec == Spec /\ \A r \in Request : WF_vars(queryHandler(r))

--------------------------------------------------------------------------------
Label == {"idle", "answered", "getResult", "getEmbedding", "embed", "setEmbedding", "topK",
          "answer", "setResult"}
FoundType == [scope : SUBSET Doc, docs : SUBSET Doc, at : 0 .. Horizon]
AnswerType == [question : Question, docs : SUBSET Doc, topK : Nat, found : FoundType]

TypeOK ==
    /\ now \in 0 .. Horizon
    /\ indexed \in [Doc -> 0 .. Never]
    /\ \A key \in DOMAIN results :
         results[key].answer \in AnswerType /\ results[key].expires > now
    /\ DOMAIN vectors \subseteq Question /\ \A q \in DOMAIN vectors : vectors[q] > now
    /\ pc \in [Request -> Label]
    /\ asked \in [Request -> Body]
    /\ started \in [Request -> 0 .. Horizon]
    /\ gone \subseteq Request
    /\ found \in [Request -> FoundType]
    /\ \A r \in Request :
         /\ reply[r].status \in {0, 200, 500}
         /\ pc[r] = "answered" <=> reply[r].status # 0
         /\ reply[r].status = 200 => reply[r].answer \in AnswerType

(******************************************************************************)
(* The answer a client gets, fresh or cached, was computed for its question,  *)
(* its documents and its limit: in whatever order it listed the documents and *)
(* whatever other requests share the cache.                                   *)
(******************************************************************************)
AnswersOwnQuestion ==
    \A r \in Request : reply[r].status = 200 =>
        LET answer == reply[r].answer
        IN  /\ answer.question = asked[r].question
            /\ answer.docs = Documents(asked[r])
            /\ answer.topK = TopKOf(asked[r])

(******************************************************************************)
(* Nothing tells the cache that a document became searchable, and a slow      *)
(* request may replace a newer entry by its older one.  Still, a cached       *)
(* answer was searched for less than TTL + Timeout ago, a fresh one after its *)
(* request arrived, and each document that was searchable then was in the     *)
(* scope of the search, though its rows may have been less similar than       *)
(* others.  What keeps slow requests from making entries that outlive this is *)
(* that the context the search runs under is the one the entry is stored      *)
(* under.  (All this for a TTL above 0: with a TTL of 0 no entry expires and  *)
(* a miss may be kept for ever.)                                              *)
(******************************************************************************)
Served(r) == pc[r] # "answered" /\ pc'[r] = "answered" /\ reply'[r].status = 200

Misses(answer) == \E d \in answer.docs \ answer.found.scope : indexed[d] < answer.found.at

ServedCurrent(r) ==
    Served(r) =>
        LET answer == reply'[r].answer
        IN  /\ IF reply'[r].cached
                 THEN TTL > 0 => now - answer.found.at < TTL + Timeout
                 ELSE answer.found.at >= started[r]
            /\ ~Misses(answer)

AnswersAreCurrent == [][\A r \in Request : ServedCurrent(r)]_vars

(******************************************************************************)
(* A cache that fails, in any of its calls and at any time, fails no query:   *)
(* an error answer means that another call failed or the time was up.         *)
(******************************************************************************)
FailedForCause(r) ==
    pc[r] # "answered" /\ pc'[r] = "answered" /\ reply'[r].status = 500 =>
        Expired(r) \/ Failing \cap {"embedder", "store", "llm"} # {}

CacheFailsNoQuery == [][\A r \in Request : FailedForCause(r)]_vars

(******************************************************************************)
(* Every query is answered, whatever fails.                                   *)
(******************************************************************************)
EveryQueryAnswered ==
    \A r \in Request : pc[r] = "getResult" ~> pc[r] = "answered"
================================================================================
