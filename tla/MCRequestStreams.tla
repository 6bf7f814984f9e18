--------------------------- MODULE MCRequestStreams ---------------------------
(***************************************************************************)
(* The run of RequestStreams: one stream that may carry frames of every kind, *)
(* or a crowd of streams that share the budget, each with one HEADERS frame   *)
(* that comes byte by byte.                                                  *)
(***************************************************************************)
EXTENDS RequestStreams, TLC

CONSTANTS CrowdFrames, CrowdChunk     \* bounds: of a stream, of a chunk, in the crowd

Alone == \A s, t \in Streams : phase[s] # "new" /\ phase[t] # "new" => s = t

Crowd ==
    \A s \in Streams :
        /\ Len(script[s]) <= CrowdFrames /\ chunk[s] <= CrowdChunk
        /\ \A i \in DOMAIN script[s] :
              script[s][i].kind = "HEADERS" /\ script[s][i].length \in 1 .. MAX_BUFFERED_FRAME

MCNext == Next /\ (Alone \/ Crowd)'
MCSpec == Init /\ [][MCNext]_vars

Symmetry == Permutations(Streams)
===============================================================================
