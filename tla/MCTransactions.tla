--------------------------- MODULE MCTransactions ---------------------------
EXTENDS Transactions

CONSTANTS c1, c2, k1, k2, v1, v2, e1, e2

KeyCmds(k) == {[op |-> o, k |-> k] : o \in {"get", "del", "expire", "expireat_past"}}
              \cup [op : {"set", "setnx", "setex"}, k : {k}, v : Value]

CRDTCmds == [op : {"crdt"}, proc : {"zadd", "zrem"}, e : {e1}, ok : BOOLEAN]

\* Every ordinary command on one key, SET with an expiry on another, FLUSHALL, and CRDT updates.
MCCommand == KeyCmds(k1) \cup {[op |-> "setex", k |-> k2, v |-> v1]} \cup {[op |-> "flushall"]} \cup CRDTCmds

\* The transactions of the passing run: ordinary commands only.
MCQueued == {[op |-> o, k |-> k1] : o \in {"get", "del"}}
            \cup {[op |-> o, k |-> k1, v |-> v1] : o \in {"setnx", "setex"}}
            \cup {[op |-> "unwatch"]}

\* CRDT updates of two elements, sent directly or in transactions.
MCCRDT == [op : {"crdt"}, proc : {"zadd", "zrem"}, e : {e1, e2}, ok : {TRUE}]
=============================================================================
