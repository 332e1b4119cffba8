----------------------------- MODULE MCChannel ------------------------------
(* A small instance of Channel. *)
EXTENDS Channel
CONSTANTS s1, s2, news
MCSubs == {s1, s2}
MCTopics == {news}
MCBufferSizes == {0, 1}
MCLimits == {1, 2}
=============================================================================
