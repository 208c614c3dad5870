---------------------------- MODULE MCRedisRepository ----------------------------
(* One writer and a worker over two accounts of one pool, for TLC. *)
EXTENDS RedisRepository
=============================================================================
