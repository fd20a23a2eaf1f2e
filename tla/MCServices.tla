----------------------------- MODULE MCServices -----------------------------
(***************************************************************************)
(* The services around the pipeline on small instances.  They share no     *)
(* state with one another, so a behaviour is about one of them.            *)
(***************************************************************************)
EXTENDS NntpClient, Notify, Auth, LogStream, Schedule, Maintenance, Servers, Budget, ScanPass,
        SearchIndex, Enrich

CONSTANTS c1, c2, s1, s2, g1, g2, e1, e2, d1, d2, w1, w2, k1, k2, r1, l1, l2, st1, a1, a2, h1, h2,
          v1, v2, b1, b2, p1, p2, n1, n2

TwoDestinations == <<d1, d2>>
WantsMost == (d1 :> {e1, e2}) @@ (d2 :> {e1})
OneLoop == <<"postprocess">>
SomeTasks == ("job-cleanup" :> [enabled |-> TRUE, interval |-> 1]) @@
             ("retention" :> [enabled |-> TRUE, interval |-> 0]) @@
             ("analyze" :> [enabled |-> TRUE, interval |-> 0]) @@
             ("yenc-repair" :> [enabled |-> TRUE, interval |-> 1])
SmallPools == [nntp : 1..20, db : 1..14, reserved : -1..4, scan : {0, 1, 9}]
TwoOfADay == (1 :> 1) @@ (2 :> 1)
TwoProviders == <<p1, p2>>
KnowsSome == (p1 :> {n1}) @@ (p2 :> {n1})

VARIABLE focus

svars == <<focus, nntpVars, notifyVars, authVars, logVars, schedVars, maintVars, serversVars, budgetVars,
           passVars, searchVars, enrichVars>>

Services == {"nntp", "notify", "auth", "log", "schedule", "maintenance",
             "servers", "budget", "pass", "search", "enrich"}

Init == /\ focus \in Services
        /\ NntpInit /\ NotifyInit /\ AuthInit /\ LogInit /\ ScheduleInit /\ MaintInit /\ ServersInit
        /\ PassInit /\ SearchInit /\ EnrichInit
        /\ IF focus = "budget" THEN BudgetInit
           ELSE plan = <<>> /\ setup = CHOOSE c \in BudgetInputs : TRUE
        /\ focus # "enrich" => \A r \in TvReleases : title[r] = NoName

\* The others keep still.
Only(f) ==
  /\ focus = f /\ UNCHANGED focus
  /\ f # "nntp" => UNCHANGED nntpVars
  /\ f # "notify" => UNCHANGED notifyVars
  /\ f # "auth" => UNCHANGED authVars
  /\ f # "log" => UNCHANGED logVars
  /\ f # "schedule" => UNCHANGED schedVars
  /\ f # "maintenance" => UNCHANGED maintVars
  /\ f # "servers" => UNCHANGED serversVars
  /\ f # "budget" => UNCHANGED budgetVars
  /\ f # "pass" => UNCHANGED passVars
  /\ f # "search" => UNCHANGED searchVars
  /\ f # "enrich" => UNCHANGED enrichVars

Next ==
  \/ Only("nntp") /\ NntpNext
  \/ Only("notify") /\ NotifyNext
  \/ Only("auth") /\ AuthNext
  \/ Only("log") /\ LogNext
  \/ Only("schedule") /\ ScheduleNext
  \/ Only("maintenance") /\ MaintNext
  \/ Only("servers") /\ ServersNext
  \/ Only("budget") /\ BudgetNext
  \/ Only("pass") /\ ScanPassNext
  \/ Only("search") /\ SearchNext
  \/ Only("enrich") /\ EnrichNext

\* Time passes, and the goroutines of a scan pass go on.
FairSpec == /\ Init /\ [][Next]_svars
            /\ WF_svars(Only("auth") /\ AuthTick)
            /\ WF_svars(Only("pass") /\ ScanPassStep)
=============================================================================
