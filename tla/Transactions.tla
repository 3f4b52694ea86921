---------------------------- MODULE Transactions ----------------------------
(***************************************************************************)
(* How one server runs its clients' commands: processCommand and call()    *)
(* (server.c), MULTI/EXEC/WATCH (multi.c), key expiry (db.c, expire.c),    *)
(* the stream that feeds slaves and the append-only file (propagate) and   *)
(* the hand-over of CRDT commands to replicationBroadcast (rargv, CRDT.h). *)
(*                                                                         *)
(* ks is the keyspace of ordinary keys: their values and whether an expiry *)
(* is set ("live") or has passed ("past").  slave is a replica that has    *)
(* read the whole propagated stream.  Since they last agreed, meant are    *)
(* the CRDT commands local clients sent (those whose prepare phase         *)
(* succeeded), ran the effects run for them, and told the commands         *)
(* broadcast to the peers.  What an effect does to its container is not    *)
(* modelled here; whether its prepare phase succeeds is an input, ok.      *)
(***************************************************************************)
EXTENDS Naturals, SequencesExt

CONSTANTS
  Client, Key, Value,
  Nil,        \* the value of a key that is not in the dictionary
  Command,    \* what clients send, transaction control aside
  Queued,     \* the commands clients put between MULTI and EXEC
  MaxCmds,    \* bound: requests served in a behaviour
  MaxQueue    \* bound: commands of a transaction

VARIABLES
  ks, slave, meant, ran, told,
  multi, cas, bad,     \* CLIENT_MULTI, CLIENT_DIRTY_CAS, CLIENT_DIRTY_EXEC
  queue, rargv,        \* c->mstate, c->rargv (<<>> when NULL)
  watched, watchers,   \* c->watched_keys, db->watched_keys
  asked, changed,      \* histories: see the properties
  cmds

clientVars == <<multi, cas, bad, queue, rargv, watched, watchers, asked, changed>>
vars == <<ks, slave, meant, ran, told, clientVars, cmds>>

NoKeys == [db |-> [k \in Key |-> Nil], ttl |-> [k \in Key |-> "none"]]

Init ==
  /\ ks = NoKeys
  /\ slave = [ks |-> NoKeys, multi |-> FALSE, queue |-> <<>>]
  /\ meant = <<>> /\ ran = <<>> /\ told = <<>>
  /\ multi = [c \in Client |-> FALSE]
  /\ cas = [c \in Client |-> FALSE]
  /\ bad = [c \in Client |-> FALSE]
  /\ queue = [c \in Client |-> <<>>]
  /\ rargv = [c \in Client |-> <<>>]
  /\ watched = [c \in Client |-> {}]
  /\ watchers = [k \in Key |-> {}]
  /\ asked = [c \in Client |-> <<>>]
  /\ changed = [c \in Client |-> {}]
  /\ cmds = 0
-----------------------------------------------------------------------------
(* The keyspace.                                                           *)

dbDelete(D, S) ==
  [db  |-> [k \in Key |-> IF k \in S THEN Nil ELSE D.db[k]],
   ttl |-> [k \in Key |-> IF k \in S THEN "none" ELSE D.ttl[k]]]

setKey(D, k, v, t) == [db |-> [D.db EXCEPT ![k] = v], ttl |-> [D.ttl EXCEPT ![k] = t]]

\* Whether the command modifies the keyspace: server.dirty grows, and
\* signalModifiedKey or signalFlushedDb is called.
Dirties(D, cmd) ==
  \/ cmd.op \in {"set", "setex", "flushall"}
  \/ cmd.op = "setnx" /\ D.db[cmd.k] = Nil
  \/ cmd.op \in {"del", "expire", "expireat_past"} /\ D.db[cmd.k] # Nil

Modified(D, cmd) ==
  CASE cmd.op \in {"set", "setnx"} -> setKey(D, cmd.k, cmd.v, "none")
    [] cmd.op = "setex" -> setKey(D, cmd.k, cmd.v, "live")
    [] cmd.op = "expire" -> setKey(D, cmd.k, D.db[cmd.k], "live")
    [] cmd.op \in {"del", "expireat_past"} -> dbDelete(D, {cmd.k})
    [] cmd.op = "flushall" -> dbDelete(D, Key)

Apply(D, cmd) == IF Dirties(D, cmd) THEN Modified(D, cmd) ELSE D

\* The replica: between MULTI and EXEC it queues, otherwise it runs the command.
\* It never expires a key by itself.
Feed(sl, cmd) ==
  CASE cmd.op = "multi" -> [sl EXCEPT !.multi = TRUE]
    [] cmd.op = "exec"  -> [ks |-> FoldLeft(Apply, sl.ks, sl.queue),
                            multi |-> FALSE, queue |-> <<>>]
    [] OTHER -> IF sl.multi THEN [sl EXCEPT !.queue = Append(@, cmd)]
                ELSE [sl EXCEPT !.ks = Apply(@, cmd)]

Del(k) == [op |-> "del", k |-> k]
-----------------------------------------------------------------------------
(* One command.  x is the part of the server a command can change:         *)
(* [ks, slave, cas, rargv, meant, ran, told, watched, watchers], rargv     *)
(* being that of the client it runs for.                                   *)

touchWatchedKey(x, k) ==
  [c \in Client |-> x.cas[c] \/ c \in x.watchers[k]]

\* Mutant of touchWatchedKeysOnFlush: called once the keys are gone.
touchWatchedKeysOnFlush_late(x) == x.cas

\* The test is made while the keys are still there.
touchWatchedKeysOnFlush(x) ==
  [c \in Client |-> x.cas[c] \/ \E k \in x.watched[c] : x.ks.db[k] # Nil]

\* Mutant of expireIfNeeded: the deletion is not propagated.
expireIfNeeded_silent(x, k) ==
  IF x.ks.ttl[k] # "past" THEN x
  ELSE [x EXCEPT !.ks = dbDelete(@, {k}), !.cas = touchWatchedKey(x, k)]

expireIfNeeded(x, k) ==
  IF x.ks.ttl[k] # "past" THEN x
  ELSE [x EXCEPT !.ks = dbDelete(@, {k}),
                 !.cas = touchWatchedKey(x, k),
                 !.slave = Feed(@, Del(k))]

\* The proc of an ordinary command, and its propagation by call().  EXPIRE with
\* a time in the past rewrites itself into DEL.
NativeCall(x, cmd) ==
  LET y == IF cmd.op = "flushall" THEN x ELSE expireIfNeeded(x, cmd.k)
  IN  IF ~Dirties(y.ks, cmd) THEN y
      ELSE [y EXCEPT !.ks = Modified(@, cmd),
                     !.cas = IF cmd.op = "flushall" THEN touchWatchedKeysOnFlush(y)
                             ELSE touchWatchedKey(y, cmd.k),
                     !.slave = Feed(@, IF cmd.op = "expireat_past" THEN Del(cmd.k) ELSE cmd)]

\* The prepare phase starts rargv from this command's arguments only if there is
\* no rargv yet, and the effect phase reads its arguments from rargv.  The
\* command changed the dataset, so it goes into the stream as well; a slave is
\* not in replication mode and answers it with an error.
CRDTCall(x, cmd) ==
  LET args == IF x.rargv = <<>> THEN <<cmd.proc, cmd.e>> ELSE x.rargv
  IN  IF ~cmd.ok THEN x
      ELSE [x EXCEPT !.rargv = args,
                     !.meant = Append(@, <<cmd.proc, cmd.e>>),
                     !.ran = Append(@, <<cmd.proc, args[2]>>)]

\* call(): the command, then the broadcast of whatever rargv holds.
Broadcast(x) == IF x.rargv = <<>> THEN x ELSE [x EXCEPT !.told = Append(@, x.rargv)]

call(x, cmd) ==
  Broadcast(IF cmd.op = "crdt" THEN CRDTCall(x, cmd)
            ELSE IF cmd.op = "unwatch" THEN x
            ELSE NativeCall(x, cmd))

State(c) == [ks |-> ks, slave |-> slave, cas |-> cas, rargv |-> rargv[c],
             meant |-> meant, ran |-> ran, told |-> told, watched |-> watched, watchers |-> watchers]

\* Mutant of Unwatched: the keys go on listing the client.
Unwatched_one_way(x, c) == [x EXCEPT !.watched[c] = {}]

\* unwatchAllKeys
Unwatched(x, c) ==
  [x EXCEPT !.watched[c] = {},
            !.watchers = [k \in Key |-> IF k \in x.watched[c] THEN @[k] \ {c} ELSE @[k]]]

\* The keys whose value or expiry differs between two keyspaces.
Differ(D, E) ==
  {k \in Key : D.db[k] # E.db[k] \/ (D.ttl[k] = "none") # (E.ttl[k] = "none")}

\* Mutant of freeClientArgv: rargv survives the request.
freeClientArgv_keep(c, x) == [rargv EXCEPT ![c] = x.rargv]

freeClientArgv(c, x) == [rargv EXCEPT ![c] = <<>>]

\* The server once a request has left x: resetClient frees rargv.
Served(c, x) ==
  /\ ks' = x.ks
  /\ slave' = x.slave
  /\ LET agree == x.meant = x.ran /\ x.ran = x.told
     IN  /\ meant' = IF agree THEN <<>> ELSE x.meant
         /\ ran' = IF agree THEN <<>> ELSE x.ran
         /\ told' = IF agree THEN <<>> ELSE x.told
  /\ cas' = x.cas
  /\ rargv' = freeClientArgv(c, x)
  /\ watched' = x.watched /\ watchers' = x.watchers
  /\ changed' = [d \in Client |-> (changed[d] \cup Differ(ks, x.ks)) \cap x.watched[d]]
-----------------------------------------------------------------------------
(* The requests of a client.                                               *)

Request == cmds < MaxCmds /\ cmds' = cmds + 1

\* A command outside a transaction.
Direct(c, cmd) ==
  /\ Request
  /\ ~multi[c]
  /\ Served(c, call(State(c), cmd))
  /\ UNCHANGED <<multi, bad, queue, asked>>

queueMultiCommand(c, cmd) ==
  /\ Request
  /\ multi[c] /\ Len(asked[c]) < MaxQueue
  /\ queue' = IF bad[c] THEN queue ELSE [queue EXCEPT ![c] = Append(@, cmd)]
  /\ asked' = [asked EXCEPT ![c] = Append(@, cmd)]
  /\ UNCHANGED <<ks, slave, meant, ran, told, multi, cas, bad, rargv, watched, watchers, changed>>

flagTransaction(c) == [bad EXCEPT ![c] = TRUE]

\* processCommand refuses a command of a transaction: unknown, wrong arity, out
\* of memory, disk error...  Outside a transaction it is an error reply only.
Refused(c, cmd) ==
  /\ Request
  /\ multi[c] /\ Len(asked[c]) < MaxQueue
  /\ bad' = flagTransaction(c)
  /\ asked' = [asked EXCEPT ![c] = Append(@, cmd)]
  /\ UNCHANGED <<ks, slave, meant, ran, told, multi, cas, queue, rargv, watched, watchers, changed>>

\* MULTI inside a transaction is an error and changes nothing.
multiCommand(c) ==
  /\ Request
  /\ ~multi[c]
  /\ multi' = [multi EXCEPT ![c] = TRUE]
  /\ UNCHANGED <<ks, slave, meant, ran, told, cas, bad, queue, rargv, watched, watchers, asked, changed>>

discardTransaction(c, x) ==
  /\ multi' = [multi EXCEPT ![c] = FALSE]
  /\ bad' = [bad EXCEPT ![c] = FALSE]
  /\ queue' = [queue EXCEPT ![c] = <<>>]
  /\ asked' = [asked EXCEPT ![c] = <<>>]
  /\ Served(c, [Unwatched(x, c) EXCEPT !.cas[c] = FALSE])

discardCommand(c) ==
  /\ Request
  /\ multi[c]
  /\ discardTransaction(c, State(c))

\* One queued command; MULTI is propagated before the first that is not read-only.
ExecStep(y, cmd) ==
  IF y.block \/ cmd.op = "get" THEN [y EXCEPT !.x = call(@, cmd)]
  ELSE [block |-> TRUE, x |-> call([y.x EXCEPT !.slave = Feed(@, [op |-> "multi"])], cmd)]

\* The queued commands; then the call() that runs EXEC itself propagates it, and
\* broadcasts what they left in rargv.
ExecRun(x, cs) ==
  LET y == FoldLeft(ExecStep, [block |-> FALSE, x |-> x], cs)
      z == Broadcast(y.x)
  IN  IF y.block THEN [z EXCEPT !.slave = Feed(@, [op |-> "exec"])] ELSE z

execCommand(c) ==
  /\ Request
  /\ multi[c]
  /\ discardTransaction(c, IF cas[c] \/ bad[c] THEN State(c)
                           ELSE ExecRun(Unwatched(State(c), c), queue[c]))

watchCommand(c, k) ==
  /\ Request
  /\ ~multi[c]
  /\ watched' = [watched EXCEPT ![c] = @ \cup {k}]
  /\ watchers' = [watchers EXCEPT ![k] = @ \cup {c}]
  /\ UNCHANGED <<ks, slave, meant, ran, told, multi, cas, bad, queue, rargv, asked, changed>>

unwatchCommand(c) ==
  /\ Request
  /\ ~multi[c]
  /\ Served(c, [Unwatched(State(c), c) EXCEPT !.cas[c] = FALSE])
  /\ UNCHANGED <<multi, bad, queue, asked>>

\* The client goes away, whatever it was doing; its name stands for the next one.
freeClient(c) ==
  /\ discardTransaction(c, State(c))
  /\ UNCHANGED cmds
-----------------------------------------------------------------------------
(* Time.                                                                   *)

TimePasses(k) ==
  /\ ks.ttl[k] = "live"
  /\ ks' = [ks EXCEPT !.ttl[k] = "past"]
  /\ UNCHANGED <<slave, meant, ran, told, clientVars, cmds>>

\* The background cycle does not touch the watched keys.
activeExpireCycleTryExpire(k) ==
  /\ ks.ttl[k] = "past"
  /\ ks' = dbDelete(ks, {k})
  /\ slave' = Feed(slave, Del(k))
  /\ UNCHANGED <<meant, ran, told, clientVars, cmds>>

Next ==
  \/ \E c \in Client :
       \/ \E cmd \in Command : Direct(c, cmd)
       \/ \E cmd \in Queued : queueMultiCommand(c, cmd) \/ Refused(c, cmd)
       \/ multiCommand(c) \/ discardCommand(c) \/ execCommand(c)
       \/ \E k \in Key : watchCommand(c, k)
       \/ unwatchCommand(c)
       \/ freeClient(c)
  \/ \E k \in Key : TimePasses(k) \/ activeExpireCycleTryExpire(k)

Spec == Init /\ [][Next]_vars
-----------------------------------------------------------------------------
KeySpace == [db : [Key -> Value \cup {Nil}], ttl : [Key -> {"none", "live", "past"}]]

TypeOK ==
  /\ ks \in KeySpace
  /\ slave \in [ks : KeySpace, multi : BOOLEAN, queue : {<<>>}]
  /\ multi \in [Client -> BOOLEAN] /\ cas \in [Client -> BOOLEAN] /\ bad \in [Client -> BOOLEAN]
  /\ \A c \in Client : queue[c] \in BoundedSeq(Queued, MaxQueue)
  /\ rargv = [c \in Client |-> <<>>]
  /\ watched \in [Client -> SUBSET Key] /\ watchers \in [Key -> SUBSET Client]

\* propagate(): replaying the stream gives the keyspace of the server, key for
\* key, and never stops inside a transaction, whatever expired, was flushed or
\* was run by EXEC in between.  Expiry is decided by the server alone.
ReplicaAgrees ==
  /\ Differ(slave.ks, ks) = {}
  /\ ~slave.multi

\* WATCH: if a command, of whatever client, or the expiry of the key on access,
\* has changed a key the client watches, its EXEC will fail.  The deletion of
\* an expired key by the background cycle is not such a change in this version.
WatchedChangeAborts == \A c \in Client : changed[c] # {} => cas[c]

\* EXEC runs exactly the commands sent since MULTI or, if one of them was
\* refused, none of them.
AllOrNothing == \A c \in Client : multi[c] /\ ~bad[c] => queue[c] = asked[c]

\* The two directions of the WATCH relation agree, so that a key never refers to
\* a client that has been freed.
WatchListsAgree ==
  \A c \in Client, k \in Key : c \in watchers[k] <=> k \in watched[c]

\* The clients' records are sound: well typed, nothing left over from an earlier
\* request, both directions of WATCH in step and transactions all or nothing.
Inv == TypeOK /\ WatchListsAgree /\ AllOrNothing

\* call() and rargv: what is broadcast to the peers is what was run here, in the
\* same order, once each.
PeersToldWhatRan == ran = told

\* "The order of the parameters in c->rargv is: The parameters of the initial
\* client calling this command, then the additional parameters" (CRDT.h): the
\* effect phase of a command works on the arguments of that command.
EffectHasItsArguments == ran = meant
=============================================================================
