------------------------------- MODULE Embeddings ------------------------------
(******************************************************************************)
(* internal/embeddings: what EmbedBatch makes of a list of texts.  A text is  *)
(* the set of its words, and some words consist of control characters only.   *)
(* The vector of a text is determined by what is left of it after cleaning,   *)
(* so here it is that.  (Failing calls are the callers' affair.)              *)
(******************************************************************************)
EXTENDS Integers, FiniteSets

CONSTANT Control    \* the words made of control characters only

preprocessText(text) == text \ Control

\* Texts that are empty after cleaning are left out.
Sent(texts) == {i \in DOMAIN texts : preprocessText(texts[i]) # {}}

\* The n-th of the places in S.
Nth(S, n) == CHOOSE i \in S : Cardinality({j \in S : j <= i}) = n

\* One vector for each text that was sent, in the order in which they were sent.
EmbedBatch(texts) ==
    [n \in 1 .. Cardinality(Sent(texts)) |-> preprocessText(texts[Nth(Sent(texts), n)])]
================================================================================
