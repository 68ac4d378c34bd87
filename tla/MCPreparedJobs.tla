--------------------------- MODULE MCPreparedJobs ---------------------------
(* TLC instance of PreparedJobs: two dictionaries, two custom APIs.        *)
EXTENDS PreparedJobs
MCApis == <<"a1", "a2">>
MCEnds == [d \in Dictionary |-> d]
=============================================================================
