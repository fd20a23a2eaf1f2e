------------------------------- MODULE Enrich -------------------------------
(***************************************************************************)
(* Metadata enrichment.  A pass lists the newest releases without a        *)
(* metadata row, asks each provider in turn by the name that was listed,   *)
(* and writes a row, of a match or of a definitive miss, and the           *)
(* identifiers, in statements of their own.  Providers fail, releases are  *)
(* deleted, post-processing renames them, and the pass is cut short.       *)
(***************************************************************************)
EXTENDS Naturals, Sequences, SequencesExt, Functions

CONSTANTS TvReleases,   \* releases by age: the larger the newer
          Names, NoName,\* readable names; a release with none is not looked up
          Providers,    \* in the order of the configuration
          Knows,        \* the names each provider has, with an identifier
          EnrichBatch,  \* opts.BatchLimit
          MaxRenames    \* bound: renames

\* No provider is called what a row says instead of one.
ASSUME EnrichAssumption ==
  /\ TvReleases \subseteq Nat \ {0} /\ EnrichBatch \in Nat \ {0} /\ MaxRenames \in Nat
  /\ Providers \in Seq(Range(Providers))
  /\ {"miss", "none"} \cap Range(Providers) = {}
  /\ NoName \notin Names /\ \A p \in Range(Providers) : Knows[p] \subseteq Names

VARIABLES tv,      \* releases that are there
          title,   \* their names; NoName: obfuscated, or no TV
          meta,    \* release_metadata: the source of the row, "miss", or "none"
          ident,   \* release_identifiers: the source of each, and (history) the
                   \* name it was asked by
          enrich,  \* Service.Run
          asked,   \* history: the name each row was asked by
          renamed, \* history: releases renamed since they were last listed
          renames  \* renames so far

enrichVars == <<tv, title, meta, ident, enrich, asked, renamed, renames>>
enrichRows == <<tv, title, meta, ident, asked, renamed, renames>>

ProviderSet == Range(Providers)
Titles == Names \cup {NoName}
\* names: those the items were listed by.
NoEnrich == [at |-> "idle", items |-> <<>>, names |-> <<>>, ask |-> <<>>, best |-> "miss",
             hadErr |-> FALSE, found |-> {}]

EnrichInit == /\ tv = TvReleases
              /\ title \in [TvReleases -> Titles]
              /\ meta = [r \in TvReleases |-> "none"]
              /\ ident = [r \in TvReleases |-> {}]
              /\ enrich = NoEnrich
              /\ asked = [r \in TvReleases |-> NoName]
              /\ renamed = {}
              /\ renames = 0

Item == Head(enrich.items)
Asked == enrich.names[Item]
-----------------------------------------------------------------------------
\* ListReleasesNeedingMetadata: newest first.
ListReleasesNeedingMetadata ==
  LET list == SetToSortSeq({r \in tv : meta[r] = "none" /\ title[r] # NoName}, >)
  IN SubSeq(list, 1, IF Len(list) < EnrichBatch THEN Len(list) ELSE EnrichBatch)

\* The lookups of the next item, or the end of the pass.
Ask(items, names) ==
  IF items = <<>> THEN NoEnrich
  ELSE [NoEnrich EXCEPT !.at = "lookup", !.items = items, !.names = names, !.ask = Providers]

RunEnrich ==
  /\ enrich.at = "idle"
  /\ enrich' = Ask(ListReleasesNeedingMetadata, title)
  /\ renamed' = {r \in renamed : meta[r] # "none"}
  /\ UNCHANGED <<tv, title, meta, ident, asked, renames>>

\* One provider: it has the name, has it not, or fails.  The first that has it
\* is the source; the identifiers of all are kept.
Lookup ==
  LET p == Head(enrich.ask)
  IN /\ enrich.at = "lookup" /\ enrich.ask # <<>>
     /\ \/ /\ Asked \in Knows[p]
           /\ enrich' = [enrich EXCEPT !.ask = Tail(@), !.found = @ \cup {p},
                                       !.best = IF @ = "miss" THEN p ELSE @]
        \/ Asked \notin Knows[p] /\ enrich' = [enrich EXCEPT !.ask = Tail(@)]
        \/ enrich' = [enrich EXCEPT !.ask = Tail(@), !.hadErr = TRUE]
     /\ UNCHANGED enrichRows

\* Mutant: what no provider has found is a miss.
NothingLearnedNever == FALSE

\* A provider failed and none has it.
NothingLearned == enrich.best = "miss" /\ enrich.hadErr

Skip ==
  /\ enrich.at = "lookup" /\ enrich.ask = <<>> /\ NothingLearned
  /\ enrich' = Ask(Tail(enrich.items), enrich.names)
  /\ UNCHANGED enrichRows

\* UpsertReleaseMetadata; it fails when the release is gone, and may fail anyway.
UpsertReleaseMetadata ==
  /\ enrich.at = "lookup" /\ enrich.ask = <<>> /\ ~NothingLearned
  /\ \/ /\ Item \in tv
        /\ meta' = [meta EXCEPT ![Item] = enrich.best]
        /\ asked' = [asked EXCEPT ![Item] = Asked]
     \/ UNCHANGED <<meta, asked>>
  /\ enrich' = [enrich EXCEPT !.at = "identifiers"]
  /\ UNCHANGED <<tv, title, ident, renamed, renames>>

\* AddReleaseIdentifier for each; one that fails is left out.  (Of one that two
\* providers give, only the first's is written: here both count.)
AddReleaseIdentifier ==
  /\ enrich.at = "identifiers" /\ enrich.found # {}
  /\ \E p \in enrich.found :
       /\ \/ Item \in tv /\ ident' = [ident EXCEPT ![Item] = @ \cup {<<p, Asked>>}]
          \/ UNCHANGED ident
       /\ enrich' = [enrich EXCEPT !.found = @ \ {p}]
  /\ UNCHANGED <<tv, title, meta, asked, renamed, renames>>

NextItem ==
  /\ enrich.at = "identifiers" /\ enrich.found = {}
  /\ enrich' = Ask(Tail(enrich.items), enrich.names)
  /\ UNCHANGED enrichRows

\* The pass is cancelled, or the process ends.
EnrichStops ==
  /\ enrich.at # "idle"
  /\ enrich' = NoEnrich
  /\ UNCHANGED enrichRows

\* ApplyPostProcessing: a release gets its true name, or leaves the category,
\* also while a pass has it in hand.
Rename(r, name) ==
  /\ renames < MaxRenames /\ renames' = renames + 1
  /\ r \in tv /\ name # title[r]
  /\ title' = [title EXCEPT ![r] = name]
  /\ renamed' = renamed \cup {r}
  /\ UNCHANGED <<tv, meta, ident, enrich, asked>>

\* A release is deleted, and its rows with it.
DeleteTvRelease(r) ==
  /\ r \in tv
  /\ tv' = tv \ {r}
  /\ meta' = [meta EXCEPT ![r] = "none"]
  /\ ident' = [ident EXCEPT ![r] = {}]
  /\ UNCHANGED <<title, enrich, asked, renamed, renames>>

EnrichNext == \/ RunEnrich \/ Lookup \/ Skip \/ UpsertReleaseMetadata \/ AddReleaseIdentifier
              \/ NextItem \/ EnrichStops
              \/ \E r \in TvReleases : DeleteTvRelease(r)
              \/ \E r \in TvReleases, name \in Titles : Rename(r, name)

EnrichSpec == EnrichInit /\ [][EnrichNext]_enrichVars
-----------------------------------------------------------------------------
\* A row is never looked up again, so what it says must be final: a miss is
\* recorded only under a name no provider has, whatever failed on the way and
\* whenever the pass was cut short, a match and an identifier are of providers
\* that have the name, and the name is the release's own, unless the release
\* has been renamed since it was listed.  (Then the row stays, although it was
\* asked by the provisional name.)
MissIsDefinitive ==
  \A r \in TvReleases :
    /\ meta[r] = "miss" => \A p \in ProviderSet : asked[r] \notin Knows[p]
    /\ meta[r] \in ProviderSet => asked[r] \in Knows[meta[r]]
    /\ meta[r] # "none" /\ r \notin renamed => asked[r] = title[r]
    /\ \A i \in ident[r] : i[2] \in Knows[i[1]]
=============================================================================
