-------------------------------- MODULE Auth --------------------------------
(***************************************************************************)
(* Authentication.  An API key is looked up in a cache with a time to      *)
(* live, then in the database; a hit is charged to the key's window of the *)
(* rate limiter.  A session is a signed token nobody looks up.  Keys and   *)
(* users are deleted in the database first and dropped from the cache in a *)
(* second step.  Requests are goroutines that interleave with all of it.   *)
(* Each key stands for an owner of its own.  (Nothing calls SetUserActive, *)
(* so that owners are active.)                                             *)
(***************************************************************************)
EXTENDS Integers, FiniteSets, FiniteSetsExt

CONSTANTS ApiKeys, Requests,
          CacheTTL,     \* apiKeyCache.ttl in ticks
          CacheSize,    \* apiKeyCache.maxEntries
          RateLimit,    \* requests a key has per window
          Window,       \* RateLimiter.window in ticks
          SessionTTL    \* lifetime of a session token in ticks

ASSUME AuthAssumption == {CacheTTL, CacheSize, RateLimit, Window, SessionTTL} \subseteq Nat \ {0}

VARIABLES row,      \* keys in the database, with an active owner
          cache,    \* apiKeyCache.entries: ticks until a cached key expires, or absent
          windows,  \* RateLimiter.windows: count and ticks until the reset
          request,  \* AuthenticateAPIKey of a request
          gone,     \* keys deleted from the database, with or without their owner
          deleting, \* those of them whose handler has not cleared the cache yet
          login,    \* owners whose Login has read the user
          session   \* ticks the owner's session token is still good for, 0 none

authVars == <<row, cache, windows, request, gone, deleting, login, session>>

Absent == -1
NoWindow == [count |-> 0, left |-> 0]
NoRequest == [at |-> "none", key |-> "none"]

AuthInit == /\ row = {} /\ gone = {}
            /\ cache = [k \in ApiKeys |-> Absent]
            /\ windows = [k \in ApiKeys |-> NoWindow]
            /\ request = [r \in Requests |-> NoRequest]
            /\ deleting = {}
            /\ login = {}
            /\ session = [k \in ApiKeys |-> 0]
-----------------------------------------------------------------------------
(* The API-key cache *)

Cached == {k \in ApiKeys : cache[k] # Absent}

\* Mutant: a hit keeps the entry for another TTL.
getSliding(k) == [hit |-> cache[k] > 0, cache |-> [cache EXCEPT ![k] = IF @ > 0 THEN CacheTTL ELSE Absent]]

\* get: an entry past its time is removed.
get(k) == [hit |-> cache[k] > 0, cache |-> [cache EXCEPT ![k] = IF @ > 0 THEN @ ELSE Absent]]

\* put: a new entry may push any other one out.
put(k) ==
  {[[j \in ApiKeys |-> IF j \in out THEN Absent ELSE cache[j]] EXCEPT ![k] = CacheTTL] :
     out \in IF k \notin Cached /\ Cardinality(Cached) >= CacheSize
             THEN kSubset(1, Cached) ELSE {{}}}

InvalidateAll == [k \in ApiKeys |-> Absent]
-----------------------------------------------------------------------------
(* AuthenticateAPIKey *)

CacheLookup(r, k) ==
  /\ request[r].at = "none"
  /\ cache' = get(k).cache
  /\ request' = [request EXCEPT ![r] = [at |-> IF get(k).hit THEN "limit" ELSE "query", key |-> k]]
  /\ UNCHANGED <<row, windows, gone, deleting, login, session>>

\* GetAPIKeyWithUser; an unknown key is refused.
Query(r) ==
  /\ request[r].at = "query"
  /\ request' = [request EXCEPT ![r] = IF @.key \in row THEN [@ EXCEPT !.at = "put"] ELSE NoRequest]
  /\ UNCHANGED <<row, cache, windows, gone, deleting, login, session>>

CachePut(r) ==
  /\ request[r].at = "put"
  /\ cache' \in put(request[r].key)
  /\ request' = [request EXCEPT ![r].at = "limit"]
  /\ UNCHANGED <<row, windows, gone, deleting, login, session>>

\* The window that is running, or a new one after its reset.
Current(w) == IF w.left = 0 THEN [count |-> 0, left |-> Window] ELSE w
Charge(w) == [Current(w) EXCEPT !.count = @ + 1]

\* Allow: granted within the budget of the window, and charged to it.
Allow(r) ==
  LET k == request[r].key
  IN /\ request[r].at = "limit"
     /\ \/ /\ Current(windows[k]).count < RateLimit
           /\ windows' = [windows EXCEPT ![k] = Charge(@)]
        \/ /\ Current(windows[k]).count >= RateLimit
           /\ UNCHANGED windows
     /\ request' = [request EXCEPT ![r] = NoRequest]
     /\ UNCHANGED <<row, cache, gone, deleting, login, session>>

\* The windows Cleanup drops: those past their reset.
Expired(k) == windows[k].left = 0

Cleanup ==
  /\ windows' = [k \in ApiKeys |-> IF Expired(k) THEN NoWindow ELSE windows[k]]
  /\ UNCHANGED <<row, cache, request, gone, deleting, login, session>>
-----------------------------------------------------------------------------
(* Users, keys and sessions *)

CreateAPIKey(k) ==
  /\ k \notin row \cup gone
  /\ row' = row \cup {k}
  /\ UNCHANGED <<cache, windows, request, gone, deleting, login, session>>

\* handleDeleteMyKey and handleDeleteUser: the row goes first ...
DeleteRow(k) ==
  /\ k \in row
  /\ row' = row \ {k}
  /\ gone' = gone \cup {k}
  /\ deleting' = deleting \cup {k}
  /\ UNCHANGED <<cache, windows, request, login, session>>

\* ... then the cache is cleared.
InvalidateCache(k) ==
  /\ k \in deleting
  /\ cache' = InvalidateAll
  /\ deleting' = deleting \ {k}
  /\ UNCHANGED <<row, windows, request, login, session, gone>>

\* Login reads the user, compares the password, which takes its time ...
LoginReads(k) ==
  /\ k \in row \ login
  /\ login' = login \cup {k}
  /\ UNCHANGED <<row, cache, windows, request, gone, deleting, session>>

\* ... and issues the token, or refuses; AuthenticateSession looks at nothing
\* but the token.
LoginEnds(k) ==
  /\ k \in login
  /\ login' = login \ {k}
  /\ session' \in {session, [session EXCEPT ![k] = SessionTTL]}
  /\ UNCHANGED <<row, cache, windows, request, gone, deleting>>

Older(n) == IF n > 0 THEN n - 1 ELSE n
Passed(w) == [w EXCEPT !.left = Older(@)]

\* Time passes.
AuthTick ==
  /\ cache' = [k \in ApiKeys |-> Older(cache[k])]
  /\ windows' = [k \in ApiKeys |-> Passed(windows[k])]
  /\ session' = [k \in ApiKeys |-> Older(session[k])]
  /\ UNCHANGED <<row, request, gone, deleting, login>>

RequestStep(r) == Query(r) \/ CachePut(r) \/ Allow(r)

AuthNext == \/ \E r \in Requests : (\E k \in ApiKeys : CacheLookup(r, k)) \/ RequestStep(r)
            \/ \E k \in ApiKeys : DeleteRow(k) \/ InvalidateCache(k) \/ CreateAPIKey(k)
                                   \/ LoginReads(k) \/ LoginEnds(k)
            \/ Cleanup \/ AuthTick
-----------------------------------------------------------------------------
AuthTypeOK ==
  /\ row \subseteq ApiKeys /\ deleting \subseteq gone /\ gone \subseteq ApiKeys
  /\ login \subseteq ApiKeys
  /\ cache \in [ApiKeys -> Absent..CacheTTL]
  /\ windows \in [ApiKeys -> [count : 0..RateLimit, left : 0..Window]]
  /\ \A r \in Requests : request[r].at \in {"none", "query", "put", "limit"}
  /\ session \in [ApiKeys -> 0..SessionTTL]
  /\ Cardinality(Cached) <= CacheSize

\* Whoever is deleted is locked out in the end, although requests that read the
\* row before the deletion fill the cache after it, a login that read the user
\* before it issues a token after it, and tokens are never looked up.
Locked(k) == cache[k] <= 0 /\ session[k] = 0
RevocationTakesHold == \A k \in ApiKeys : (k \in gone) ~> [](Locked(k))
=============================================================================
