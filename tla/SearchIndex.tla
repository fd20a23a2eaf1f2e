---------------------------- MODULE SearchIndex ----------------------------
(***************************************************************************)
(* The derived search index.  Releases live in PostgreSQL; a rebuild pages *)
(* through them by keyset cursor, newest first, and puts each document     *)
(* into OpenSearch with a request of its own.  The pipeline creates,       *)
(* renames and deletes releases meanwhile, and a second rebuild may be     *)
(* asked for.                                                              *)
(***************************************************************************)
EXTENDS Naturals, Sequences, FiniteSets, SequencesExt

CONSTANTS ReleaseIds,   \* ids in the order of insertion
          Recency,      \* coalesce(posted_at, created_at) of each
          PageSize,     \* the limit of a page
          Rebuilds,     \* requests for a rebuild
          MaxRebuilds   \* bound: rebuilds begun

ASSUME SearchIndexAssumption ==
  /\ ReleaseIds \subseteq Nat \ {0} /\ Recency \in [ReleaseIds -> Nat] /\ PageSize \in Nat \ {0}
  /\ MaxRebuilds \in Nat

VARIABLES rows,    \* the name each release has, 0 before it is inserted
          docs,    \* the documents of the index
          rebuild, \* Reindex of each request
          rebuilds

searchVars == <<rows, docs, rebuild, rebuilds>>

\* stays (history): releases there since the rebuild began, with their names then;
\* alone (history): no other rebuild has been under way.
NoRebuild == [at |-> "idle", cursor |-> 0, page |-> <<>>, more |-> FALSE,
              stays |-> [r \in ReleaseIds |-> 0], alone |-> TRUE]

SearchInit == /\ rows = [r \in ReleaseIds |-> 0]
              /\ docs = [r \in ReleaseIds |-> 0]
              /\ rebuild = [b \in Rebuilds |-> NoRebuild]
              /\ rebuilds = 0

\* A deleted release; its id and its guid are not given out again.
Gone == 9
Present(r) == rows[r] \notin {0, Gone}

Running(b) == rebuild[b].at \in {"page", "index"}
-----------------------------------------------------------------------------
(* The pipeline's releases; nobody tells the index.                          *)

InsertRelease(r) ==
  /\ rows[r] = 0
  /\ rows' = [rows EXCEPT ![r] = 1]
  /\ UNCHANGED <<docs, rebuild, rebuilds>>

\* Post-processing recovers the name.
RenameRelease(r) ==
  /\ rows[r] = 1
  /\ rows' = [rows EXCEPT ![r] = 2]
  /\ UNCHANGED <<docs, rebuild, rebuilds>>

\* Reassembly or the yEnc repair deletes it.
RemoveRelease(r) ==
  /\ Present(r)
  /\ rows' = [rows EXCEPT ![r] = Gone]
  /\ rebuild' = [b \in Rebuilds |-> [rebuild[b] EXCEPT !.stays[r] = 0]]
  /\ UNCHANGED <<docs, rebuilds>>
-----------------------------------------------------------------------------
(* Reindex *)

\* ORDER BY coalesce(posted_at, created_at) DESC, id DESC.
Newer(r, s) == Recency[r] > Recency[s] \/ (Recency[r] = Recency[s] /\ r > s)

\* Mutant: the id is left out of the cursor.
BeyondDate(r, cursor) == cursor = 0 \/ Recency[r] < Recency[cursor]

\* The row comparison with the cursor, which is the last row of the page before.
Beyond(r, cursor) == cursor = 0 \/ Newer(cursor, r)

\* ORDER BY ... LIMIT: the one list of rows found, newest first, that leaves out
\* older rows only and only when it is full.
FirstPage(found) ==
  {p \in UNION {[1..n -> found] : n \in 0..PageSize} :
     /\ \A i, j \in DOMAIN p : i < j => Newer(p[i], p[j])
     /\ \A r \in found \ Range(p) : Len(p) = PageSize /\ Newer(p[Len(p)], r)}

\* SearchReleasesPage: the rows after the cursor as they are now.
SearchReleasesPage(cursor) ==
  {[i \in DOMAIN p |-> [id |-> p[i], name |-> rows[p[i]]]] :
     p \in FirstPage({r \in ReleaseIds : Present(r) /\ Beyond(r, cursor)})}

StartReindex(b) ==
  LET others == {a \in Rebuilds \ {b} : Running(a)}
  IN /\ ~Running(b) /\ rebuilds < MaxRebuilds
     /\ rebuilds' = rebuilds + 1
     /\ rebuild' = [a \in Rebuilds |->
                      IF a = b
                      THEN [NoRebuild EXCEPT !.at = "page", !.alone = others = {},
                              !.stays = [r \in ReleaseIds |-> IF Present(r) THEN rows[r] ELSE 0]]
                      ELSE IF Running(a) THEN [rebuild[a] EXCEPT !.alone = FALSE]
                      ELSE NoRebuild]
     /\ UNCHANGED <<rows, docs>>

FetchPage(b) ==
  /\ rebuild[b].at = "page"
  /\ \E page \in SearchReleasesPage(rebuild[b].cursor) :
       rebuild' = [rebuild EXCEPT ![b].at = "index", ![b].page = page,
                                  ![b].more = Len(page) = PageSize]
  /\ UNCHANGED <<rows, docs, rebuilds>>

\* IndexRelease: the row as the page has it is put under its guid.
IndexRelease(b) ==
  /\ rebuild[b].at = "index" /\ rebuild[b].page # <<>>
  /\ LET r == Head(rebuild[b].page)
     IN /\ docs' = [docs EXCEPT ![r.id] = r.name]
        /\ rebuild' = [rebuild EXCEPT ![b].page = Tail(@), ![b].cursor = r.id]
  /\ UNCHANGED <<rows, rebuilds>>

\* Another page, unless this one was not full.
PageDone(b) ==
  /\ rebuild[b].at = "index" /\ rebuild[b].page = <<>>
  /\ rebuild' = [rebuild EXCEPT ![b].at = IF rebuild[b].more THEN "page" ELSE "complete"]
  /\ UNCHANGED <<rows, docs, rebuilds>>

\* PostgreSQL or OpenSearch fails, or the client is gone.  (A put that timed out
\* and arrived is IndexRelease and then this one; none arrives later than that.)
ReindexFails(b) ==
  /\ Running(b)
  /\ rebuild' = [rebuild EXCEPT ![b] = NoRebuild]
  /\ UNCHANGED <<rows, docs, rebuilds>>

\* Nobody asks for another rebuild.
SearchRests ==
  rebuilds = MaxRebuilds /\ (\A b \in Rebuilds : ~Running(b)) /\ UNCHANGED searchVars

SearchNext ==
  \/ SearchRests
  \/ \E r \in ReleaseIds : InsertRelease(r) \/ RenameRelease(r) \/ RemoveRelease(r)
  \/ \E b \in Rebuilds : \/ StartReindex(b) \/ FetchPage(b) \/ IndexRelease(b) \/ PageDone(b)
                         \/ ReindexFails(b)

SearchSpec == SearchInit /\ [][SearchNext]_searchVars
-----------------------------------------------------------------------------
\* "a rebuild can be re-run safely after an OpenSearch outage or to recover from
\* drift": a rebuild that completes has put every release that was there all the
\* while into the index, although others are inserted, renamed and deleted
\* between its pages, and no older name than it found at its start, unless
\* another rebuild with an older page ran beside it.
ReindexComplete ==
  \A b \in Rebuilds : rebuild[b].at = "complete" =>
    \A r \in ReleaseIds : rebuild[b].stays[r] # 0 =>
      /\ docs[r] # 0
      /\ rebuild[b].alone => docs[r] >= rebuild[b].stays[r]
=============================================================================
