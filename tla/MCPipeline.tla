----------------------------- MODULE MCPipeline -----------------------------
(* Small instances of Pipeline: a handful of articles of two or three posts. *)
EXTENDS Pipeline

CONSTANTS p1, p2, c1, d1, d2, e1, p, c, d

\* A single-file post, and a collection without a file count whose article
\* tells nothing in its Subject.
MCArticles == {p1, p2, c1}
MCPosts == {p, c}
MCPost == [a \in MCArticles |-> IF a = c1 THEN c ELSE p]
MCFile == [a \in MCArticles |-> 1]
MCCollections == {c}
MCDeclared == [k \in MCPosts |-> IF k = c THEN 0 ELSE 2]
MCHidden == {c1}
MCName == [k \in MCPosts |-> k]
MCBucket(n) == IF n < 3 THEN 0 ELSE 1

\* A collection of two files, the first of two articles.
TwoFiles == {d1, d2, e1}
TwoFilesPosts == {d}
TwoFilesPost == [a \in TwoFiles |-> d]
TwoFilesFile == [a \in TwoFiles |-> IF a = e1 THEN 2 ELSE 1]
TwoFilesDeclared == [k \in TwoFilesPosts |-> 2]
TwoFilesName == [k \in TwoFilesPosts |-> k]
=============================================================================
