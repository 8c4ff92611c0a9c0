------------------------------- MODULE MCIndexing ------------------------------
(* Instances of Indexing for TLC: every small text with every small window, and *)
(* texts around the limits of the options that cmd/parser passes.               *)
EXTENDS Indexing

Small == [words : 0 .. 12, opts : [maxTokens : -1 .. 5, overlap : -1 .. 6]]
Parsers ==
    [words : {319, 320, 321, 399, 400, 401, 719, 720, 721, 800},
     opts : {[maxTokens |-> 400, overlap |-> 80], [maxTokens |-> 0, overlap |-> 80]}]
MCCalls == Small \cup Parsers
================================================================================
