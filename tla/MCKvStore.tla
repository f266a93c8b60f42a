----------------------------- MODULE MCKvStore -----------------------------
(* The key-value store used by one thread, by two, and by a client beside   *)
(* a saver.                                                                 *)
EXTENDS KvStore

CONSTANTS Game, Pool

Uses == {
    \* One thread alone, a cache too small for the keys.
    [calls |-> [t \in Threads |-> IF t = Game THEN Operations \ {"forceLoad"} ELSE {}],
     size |-> 2, writes |-> 3, failures |-> 0],
    \* A client and saveAll on the pool, no evictions, a failing query.
    [calls |-> [t \in Threads |-> IF t = Game THEN {"set", "remove", "get"}
                                             ELSE {"saveAll"}],
     size |-> 3, writes |-> 2, failures |-> 1],
    \* Two clients, evictions by both, a failing query.
    [calls |-> [t \in Threads |-> IF t = Game THEN {"remove", "forceLoad"}
                                             ELSE {"set", "get"}],
     size |-> 1, writes |-> 1, failures |-> 1]}
=============================================================================
