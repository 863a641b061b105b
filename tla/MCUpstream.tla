----------------------------- MODULE MCUpstream -----------------------------
(***************************************************************************)
(* Instances of Upstream: retries of two requests of one worker with the   *)
(* cache of connections, two workers and names that are resolved anew, a   *)
(* group of one peer, weights, backup peers with limits, peers probed      *)
(* after fail_timeout, peers that the health checks find down, and a       *)
(* worker that dies while peers are removed.                               *)
(***************************************************************************)
EXTENDS Upstream

AllTypes == {"error", "timeout", "invalid_header", "http_404", "http_503"}

Base == [main |-> <<"a", "b">>, backup |-> <<>>, has_backup |-> FALSE,
         weight |-> [x \in {"a", "b", "c"} |-> 1], down |-> {},
         max_fails |-> 1, max_conns |-> 0, max_tries |-> 0, next |-> AllTypes,
         method |-> [r \in Reqs |-> "GET"], worker |-> [r \in Reqs |-> 1],
         statuses |-> {"http_200", "http_404", "http_503"}, bodies |-> FALSE,
         unbuffered |-> FALSE, timeout |-> FALSE, max_cached |-> 1,
         retry_cached |-> TRUE, answers |-> {}, ticks |-> FALSE,
         max_requests |-> 2, max_resolves |-> 0, max_crashes |-> 0,
         max_checks |-> 0]

CacheConf == [Base EXCEPT !.method = [r \in Reqs |-> IF r = 1 THEN "GET" ELSE "POST"],
                          !.statuses = {"http_200", "http_404"},
                          !.bodies = TRUE, !.max_requests = 2]
LimitConf == [Base EXCEPT !.main = <<"a", "b", "c">>, !.max_tries = 2,
                          !.next = @ \cup {"non_idempotent"},
                          !.method = [r \in Reqs |-> "POST"],
                          !.unbuffered = TRUE, !.timeout = TRUE]
OneConf == [Base EXCEPT !.main = <<"a">>, !.max_cached = 2, !.max_requests = 3]
ResolveConf == [Base EXCEPT !.worker = [r \in Reqs |-> r],
                            !.answers = {<<"b", "c">>, <<>>},
                            !.statuses = {"http_200"}, !.next = {"error"},
                            !.max_cached = 0, !.max_resolves = 2]
WeightConf == [Base EXCEPT !.weight = [x \in {"a", "b", "c"} |-> IF x = "a" THEN 2 ELSE 1],
                           !.max_fails = 2, !.statuses = {"http_200"},
                           !.max_cached = 0, !.max_requests = 3]
BackupConf == [Base EXCEPT !.main = <<"a">>, !.backup = <<"b", "c">>,
                           !.has_backup = TRUE, !.max_conns = 1, !.down = {"c"},
                           !.statuses = {"http_200"},
                           !.worker = [r \in Reqs |-> r], !.max_cached = 0,
                           !.max_crashes = 1]
ProbeConf == [Base EXCEPT !.statuses = {"http_200"}, !.next = {"error"},
                          !.max_cached = 0, !.ticks = TRUE]
HealthConf == [Base EXCEPT !.statuses = {"http_200"}, !.next = {"error"},
                           !.max_cached = 0, !.max_checks = 1]
SickConf == [HealthConf EXCEPT !.main = <<"a">>, !.max_checks = 2]
LostConf == [ResolveConf EXCEPT !.answers = {<<"b", "c">>}, !.max_tries = 1,
                                !.max_resolves = 1, !.max_crashes = 1]
MCConfs == {CacheConf, LimitConf, OneConf, ResolveConf, WeightConf,
            BackupConf, ProbeConf, HealthConf, SickConf, LostConf}
=============================================================================
