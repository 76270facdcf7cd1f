----------------------------- MODULE MCRedisQueue -----------------------------
(* Small instances of RedisQueue: an API server and a worker container, each  *)
(* with one goroutine, sharing the list.                                      *)
EXTENDS RedisQueue, TLC

CONSTANTS api, worker, w1, w2

MCProcOf == w1 :> api @@ w2 :> worker
MCMaxAttempts == api :> 2 @@ worker :> 1
=============================================================================
