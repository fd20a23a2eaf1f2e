--------------------------- MODULE MCPostProcess ---------------------------
(* A small instance of PostProcess: an obfuscated release with an NFO and a  *)
(* plain one, two workers.                                                   *)
EXTENDS PostProcess

CONSTANTS w1, w2

MCWorkers == {w1, w2}
MCReleases == {1, 2}
MCSegs == [r \in MCReleases |-> IF r = 1 THEN <<"other", "nfo", "par2">> ELSE <<"nfo">>]
=============================================================================
