---------------------------- MODULE MCFileCache -----------------------------
(***************************************************************************)
(* Instances of FileCache, each small enough to be explored whole: the     *)
(* cache lock among three requests, cache_bypass and cached errors, a zone *)
(* that is still cold, a full zone (also for the loader), Vary, and        *)
(* min_uses.                                                               *)
(***************************************************************************)
EXTENDS FileCache

Base == [mains |-> {"k"}, variants |-> {}, wants |-> {AnyVar}, warm |-> {},
         warm_var |-> AnyVar, cold |-> FALSE, reqs |-> {1, 2}, bypass |-> {FALSE},
         lock |-> TRUE, use_stale |-> FALSE, errors |-> FALSE, min_uses |-> 1,
         max_size |-> 3, inactive |-> TRUE, max_requests |-> 3,
         max_faults |-> 1]

LockConf == [Base EXCEPT !.reqs = {1, 2, 3}, !.inactive = FALSE]
BypassConf == [Base EXCEPT !.bypass = BOOLEAN, !.errors = TRUE, !.max_size = 1,
                           !.max_faults = 0]
ColdConf == [Base EXCEPT !.cold = TRUE, !.use_stale = TRUE, !.max_requests = 2]
FullConf == [Base EXCEPT !.mains = {"k", "l", "m"}, !.warm = {"l", "m"},
                         !.lock = FALSE, !.max_requests = 2, !.max_faults = 0]
LoadConf == [FullConf EXCEPT !.cold = TRUE, !.max_requests = 1]
VaryConf == [Base EXCEPT !.variants = {"b"}, !.wants = {"b"},
                         !.warm = {"k"}, !.warm_var = "a", !.inactive = FALSE,
                         !.max_requests = 2, !.max_faults = 0]
UsesConf == [Base EXCEPT !.min_uses = 2, !.max_requests = 2, !.max_size = 1]
MCConfs == {LockConf, BypassConf, ColdConf, FullConf, LoadConf, VaryConf,
            UsesConf}
=============================================================================
