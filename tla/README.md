# CRDT-Redis: specifications and proofs

CRDT-Redis turns Redis 6.0.5 into a multi-master store: every server accepts
updates from its own clients, executes them at once and sends them to all the
others, and conflict-free replicated data types make the servers agree. This
directory specifies that part of the code in TLA+, model-checks it with TLC and
proves its core with TLAPS. Paths below are relative to `src/redis-6.0.5/src/`
unless they start with `src/`.

## 1. The system

| Part | Code | State | Operations |
|---|---|---|---|
| vector clocks | `vector_clock.[ch]` | a vector and an id | new, now, update, equal, cmp, causally_ready |
| Lamport clocks | `lamport_clock.h` | a counter and an id | cmp_as_tag, cmp, update, now |
| command phases | `CRDT.h`, `call()` in `server.c` | `rargv` of the client | prepare, effect, broadcast |
| replication | `p2p.c` | `server.replicas`, `p2p_count`, `p2p_id` | REPLICATE, handshake, broadcast |
| RWF framework | `RWFramework.[ch]` | header (pid, remove history) of an element | addCheck, updateCheck, removeCheck |
| RWF set, priority queue, list | `t_rwfset.c`, `t_rwfzset.c`, `t_rwflist.c` | header, values, sorted set or linked list | add, incrby / update, rem |
| add-win set, priority queue | `t_oset.c`, `t_ozset.c` | live and cancelled tags, sorted set | add, incrby, rem |
| remove-win set, priority queue, list | `t_rset.c` (unreachable), `t_rzset.c`, `t_rlist.c` | clock, adds, removes, queue of commands not ready | add, incrby / update, rem |
| list positions | `list_basics.[ch]` | digit sequences | leid_cmp, constructLeid |
| transactions, expiry | `multi.c`, `db.c`, `expire.c`, `call()` | keyspace, queue and flags of a client, watch lists | MULTI, EXEC, DISCARD, WATCH, expiry, propagate |
| benchmark | `src/experiment/bench/` | workload pointer, operation count, trace | get_op, exec with one retry |

How they interact. A server is one thread. A command of a client runs its
*prepare* phase (checks, early returns, a stamp or a list of tags appended to
`rargv`) and its *effect* phase in one call, and `call()` then writes `rargv` to
each replica's connection. A command read from a replica runs the effect phase
only. Connections are TCP: each one is FIFO and loses nothing while it lives,
but with three servers a command can overtake, on another connection, one it
depends on. There is no acknowledgement and no resynchronisation.

What is hard to test here: the order in which the effects of concurrent
commands run at each server; commands that overtake what they depend on
(an increment before its add, a remove before the add it cancels); metadata
kept in several places (header, values, pointers into lists, a sorted set for
readers) that must move together; commands put aside until they are ready.
`PROJECT.json` lists these hazards line by line.

## 2. Modules

`VectorClock`, `LamportClock`: the clocks, as operators on records.

`P2P`: the streams between servers. `sent[i]` is everything server `i` has
broadcast and never shrinks; `rcvd[j][i]` counts what `j` has executed of it, so
the content of the stream from `i` to `j` is a suffix of `sent[i]`. `seen` is a
history variable: what a server had executed when it prepared each command. From
these come the notions the properties use: `Executed(r)`, `Observed(o)`,
`SameOps(r, s)`. The mesh is taken as complete and every server as
configured with the same `p2p_count`, which is the state the scripts reach
before they start a workload.

`Streams`: what a container may rely on, as an abstract specification. Each
ordered pair of servers has a stream; once it is joined, the reader runs the
origin's commands one by one from the moment of joining, none twice and none
left out, though it may stop at any point. `P2P` implements it with all streams
joined from the start (`StreamsAsPromised`), `Mesh` with streams that begin and
break (`KeepsPromise`). That both implement the same promise is what connects
the containers to the mesh.

`Mesh`: how the streams come to be and what their loss does. `construct_repl`
sends REPLICATE to the servers in turn (`step`), each with the addresses of those
before it; `replicationHandler` runs when a connection is established *or has
failed*; the handshake is a message ahead of the commands. `replicas` is
`server.replicas` and `dangling` those of its clients that `freeClient` has
freed: it takes slaves and monitors off their lists, not replicas. A broadcast
that meets a freed client is undefined behaviour; the model lets the server go on
or crash. Updates may run at any time after a server is in replication mode, a
connection may be reset and a server killed at any time.

`Transactions`: how one server runs the commands of its own clients. The
keyspace holds ordinary keys with or without an expiry; `slave` is the keyspace
of a replica (or a replayed append-only file) that has read everything
propagated. `call` is an operator on the part of the server a command can
change, so that EXEC is a fold of it over the queue, as in the code. CRDT
commands are modelled by the life of `rargv` alone: which arguments the
effect phase finds there and what is broadcast.

`Workload`: the benchmark's threads. `get_op` is two steps, since the test of
the pointer and its increment are not atomic; RUN_CONDITION, the request, a lost
reply with its retry, and the logging of the trace are the others.

`RWFramework`: the element header and its checks (a check that also assigns in
C is a predicate plus an operator for the assignment).

`RWFSet`, `RWFZSet`, `OSet`, `OZSet`, `RZSet`: one container type each. One
action per command of a local client (prepare, effect and broadcast together),
and `Deliver(i, j)` for a command of a peer. Each models **one element** of one
container: a handler touches only the metadata of the element it names and that
element's entry in the sorted set, so elements do not interact. `zset` is what
readers see (`*contains`, `*size`, `*score`, `*max` only read it).

`ListBasics`: list positions (`constructLeid`, with `rand()` as a choice, and
`leid_cmp`) and linking an element into the list. `RWFList`, `RList`: the two
lists, with several elements, since an insert depends on its neighbours. A list
is one record per server: the elements, the linked list as a sequence with the
invisible elements in it, the length counter and the list's clock. `rlinsert`
and `rwflinsert` are two actions each, for a first insert after a predecessor
and for a re-add. `Creators` says which servers' clients create an element; the
runs give each element one creator, because the code fixes the position of an
element by the first insert a server executes: two servers that create the same
element at once keep different positions for good. Element names that collide
with the keys under which the code keeps the list's own data (`head`, `current`,
`length`, `ops`, and the words `null` and `readd`) are left out.

Abstractions. Lists of tags, adds and removes are sets where order cannot be
observed. Scores are integers; the code's doubles are exact on them, and
rounding is left out. Stamps travel as values: `vcToSds`/`sdsToVC` and their
Lamport counterparts are loss-free. The `value` field of the two sets is the
element itself and is dropped. In `OZSet` the field `x` that `add_ase` does not
set is a choice from `Garbage`. Error replies that return before any state
changes are not actions. Overhead counters and logs are left out.

`P2PProofs`, `RWFSetProofs`, `OSetProofs`, `RWFZSetProofs`, `MeshProofs`,
`WorkloadProofs`: theorems, and the inductive invariants they need. `MC*`: the
instances for TLC.

Operators whose comment starts with "Mutant of" are deliberate bugs. Nothing
uses them in the specification; substituting one for the definition it names
must make the property it is meant for fail, which shows that the property
depends on that piece of code.

## 3. Runs

| Run | Instance | Checks | States |
|---|---|---|---|
| `rwfset` | 3 servers, 3+2+1 commands | `Inv`, `Convergence`, `RemoveWins`, `EventuallyAgree`, `StreamsAsPromised` | 208,462 |
| `rwfzset` | 3 servers, 3+1+1, adds of 1 or 2, increments of 4 | `Inv`, `Convergence`, `ScoreIsSumOfCurrent` | 455,613 |
| `oset` | 3 servers, 3+2+1 | `Inv`, `Convergence`, `AddWins` | 208,462 |
| `ozset` | 3 servers, 2+2+1, adds of 1 or 2, increments of 4, unset field 9 | `Inv`, `MembershipConverges`, `ScoreConverges` | 1,358,637 |
| `rzset` | 3 servers, 2+2+1, adds of 1, 2 and 8 at servers 0, 1 and 2, increments of 4 | `Inv`, `CausalDelivery`, `Convergence`, `RemoveWinsScore`, `EventuallyApplied` | 211,640 |
| `rwflist` | 3 servers, 2+1+1, 2 elements, 2 values | `Inv`, `OrderConverges`, `LastWriteWins`, `LenAgrees` | 278,831 |
| `rlist` | 3 servers, 2+2+1, 2 elements | `Inv`, `Convergence`, `QueueDrains`, `RemoveWins` | 662,211 |
| `rlist_property` | 2 servers, 2+2 | `PropertyConverges` **violated** | |
| `transactions` | 2 clients, 2 keys, 2 values, 7 requests, transactions of at most 2 commands | `Inv`, `ReplicaAgrees`, `WatchedChangeAborts`, `PeersToldWhatRan` | 667,700 |
| `exec_rargv` | 2 clients, CRDT commands on 2 elements, 5 requests | `EffectHasItsArguments` **violated** | |
| `mesh` | 3 servers, 2+1+1 updates, 1 fault | `ConfiguredBeforeUpdates`, `PeerCommandsAreEffects`, `GaplessStreams`, `KeepsPromise`, `StreamsDrain` | 290,233 |
| `workload` | 3 threads, 6 entries with 2 dummies, `total_ops` 3, 2 lost replies | `IndexInBounds`, `HandedOutOnce`, `TraceIsWhatRan`, `Termination` | 1,154,160 |

Why these bounds. Three servers are the least for which delivery is not causal.
Three commands at one server allow add, remove, add again, and one or two at the
others allow each kind of conflict with them, an increment or a remove that
overtakes an add included (in `rzset`, with two commands at most at one server,
the add after a remove comes from another server). Add values and increments are
distinct powers of two, so a score tells which operations are counted in it.
Runs with equal numbers of states have them because at every point a server can
issue the same number of commands (add when absent; increment or remove when
present). Deadlock is not checked where a run ends by itself: the bounded
clients have stopped and the streams are empty. `transactions` checks it: a
client can always disconnect. `MaxOps` and, in `mesh`, `MaxFaults` are the only
bounds on behaviours of the servers. The lists have `BASE = 3` instead of 2^24
and `RDM_STEP = 1` instead of 128, so that two inserts already use up a level
and positions get several digits. In `transactions`, seven requests are enough
for WATCH, MULTI, two queued commands and EXEC of one client with two requests
of the other between any two of them. In `mesh`, one fault is a reset connection
or a killed server at any point of the construction or of the updates; a freed
client that stays listed and the broadcast that meets it follow from the fault
and are not bounded. In `workload`, three threads can pass the test of the
pointer together, which is what the two entries `get_op` keeps back have to
absorb.

The main properties:

* **Convergence**, **MembershipConverges**, **ScoreConverges**, **OrderConverges**:
  servers that executed the same set of commands, in whatever orders, hold the
  same metadata and show the same result.
* **RemoveWins**, **AddWins**, **RemoveWinsScore**, **ScoreIsSumOfCurrent**: what
  is shown is the value a definition over the *causal history* gives, a history
  the code never stores. They say that stamps, tags and remove histories are
  faithful summaries of it.
* **CausalDelivery**, **QueueDrains**, **EventuallyApplied**: a remove-win type
  applies each command once, after all it depends on, and never keeps one back
  without reason.
* **LastWriteWins**: a property of a list element shows the last write of the
  element's current life (since the last remove the server knows of).
* **Inv** of each container: its types, and that copies and pointers follow the
  metadata (the sorted set the readers use, the newest tag, the winning value, the
  linked list in the order of the positions). For `RWFSet` and `OSet` it is the
  inductive invariant of the proofs.
* **StreamsAsPromised**, **KeepsPromise**: refinement of `Streams`.
  **GaplessStreams**: a connection that is up carries every command since its
  reader joined, whatever happened to others. **PeerCommandsAreEffects**: no
  peer's command is taken for a client's and prepared a second time.
  **ConfiguredBeforeUpdates**: no command is stamped before the server has its id.
  **StreamsDrain**: without a fault the mesh gets complete, and what a connection
  that stays up carries is read in the end.
* **WatchedChangeAborts**: EXEC never runs after a change of a key its client
  watches. **ReplicaAgrees**: what is propagated, expiries and MULTI/EXEC
  brackets included, rebuilds the keyspace. **PeersToldWhatRan**: outside
  transactions the effect broadcast is the effect that ran here.
* **HandedOutOnce**, **IndexInBounds**, **TraceIsWhatRan**, **Termination**: the threads
  share the workload without repeating or overrunning it, the trace holds the
  commands the servers ran, and the experiment ends.

Two properties leave out a history in which the code is known not to have them:
`ScoreConverges` servers where an increment ran before its add (`blind`),
`LenAgrees` servers where an update ran before its insert (`early`). They show
that nothing else breaks the property. What happens in these histories:

* `blind`: `add_ase` creates the entry without a value. If a remove makes `resort`
  choose this entry as `innate`, the add that arrives later stores its value but
  does not update the sorted set, since the pointer did not move. The servers
  agree on the tags and, for good, not on the score. It takes three servers.
* `early`: the update makes the element exist (`PID_WAIT_INNATE`) without counting
  it; the insert then finds it existing and does not count it either. From then
  on the length that `rwfllist` announces is not the number of entries it writes.

Fairness. `FairStreams` is weak fairness of reading each stream that is not
empty. The event loop serves every readable socket in turn and no effect phase
blocks, so a connection that lives is read in the end. `Mesh` adds the script,
which goes on to the next server when one has answered, and the completion of a
connection attempt, which the event loop reports either way. `Workload` assumes
that every thread gets to run and that a request is answered or fails, at most
`MaxLost` times. Nothing is assumed of the clients.

### What the violations show

`rlist_property`: the clock of a property is the join of its old clock and the
stamp of the update. Once it is no stamp of any update, `vc_cmp` may find it
incomparable with a later stamp of the same id, and then decides by the first
entry that differs. Two servers and three updates suffice for two values that
stay different. Everything else of the remove-win list converges (`rlist`).

`exec_rargv`: `rargv` is built from the arguments of a command only if it is empty,
and it is emptied when a *request* has been served. The commands of a transaction
run in one request, so the second CRDT command of a transaction appends to the
`rargv` of the first, and its effect phase, here and at every peer, works on the
arguments of the first. `CRDT.h` says that `rargv` holds the parameters of the
command. Outside transactions it does (`PeersToldWhatRan`).

The `rs` commands are not those of `t_rset.c`: the command table (`server.c:1116`)
gives them the handlers of the RWF set, so `RWFSet` is what they run. The two types
differ after two concurrent removes, each followed by an add at its own server:
a remove-win set has the element, the RWF set has not.

A limit of `ListSorted` (a conjunct of `Inv`) and `OrderConverges`: they say
that an element is where its position puts it, the same place everywhere. They
do not say that the position is next to the predecessor the client named, and it
need not be: for `p = [k]` and `q = [k][1]`, `constructLeid` returns
`[k][1][d]`, which is after `q`. It takes four elements to get there, more than
the runs have.

## 4. Proofs

All theorems hold for every value of the constants and every interleaving. The
assumptions are those of the modules: `N` is a positive number, `MaxOps` a
function to numbers, and in `Workload` there are one to three threads (one per
server in every experiment) and a workload that begins with at least two dummies.

**The RWF set** (`RWFSetProofs`): `Inv`, `ZsetAgrees`, `Convergence`.
`Convergence` is not inductive: it compares two servers only at the moments when
they have executed the same commands. The invariant `Inv` says instead what the
header of one server is in terms of the set `Msgs(r)` of commands executed there
(`Summarises`): its vector is the least upper bound of the vectors of those
commands, and its pid the greatest id among the adds that carry exactly that
vector. Then:

1. `RemoveSummary`, `AddSummary`: an effect phase keeps the header a summary when
   its command joins the set, for *any* command. No causality is needed, which
   is why the RWF types need no queue.
2. `UniqueSummary`: two headers that summarise the same set are equal. The order
   of execution drops out here.
3. `P2PProofs`: `BroadcastMsgs` and `ReadMsgs` say that each step adds exactly
   one command to the set of exactly one server.
4. `NextInv` puts 1 and 3 together action by action; `StrongConvergence` follows
   from 2.

**The add-win set** (`OSetProofs`): `Inv`, `ExistIsNewest`, `Convergence` and
`AddWins`. Again the metadata are a function of the set of executed commands: the
cancelled tags are those of the removes, the live ones those of the adds without
them, and the pointer is at the newest live tag. For `AddWins` this is not enough,
since it speaks of what a remove had *observed*. `Issued` relates the two: a
remove lists the tags that are live given the commands its server had executed.
With `Fresh` and the server's id in a tag, no tag is drawn twice
(`TagsAreUnique`), so a tag in a remove means that the remove had observed the
one add that drew it. The converse, that an element is shown only if some add was
observed by no remove, holds where causes are complete (`CausallyClosed`): an
executed remove that did not list the tag had observed another remove that did.

**The RWF priority queue** (`RWFZSetProofs`): `Inv` of `RWFZSet`, and
`MemberConverges`, the part of `Convergence` that is not a sum: servers that have
executed the same commands agree on the remove history, the winning add, the
innate value and membership. The invariant `IInv` is that of the RWF set with two
additions. An increment makes an element exist before any add does
(`PID_WAIT_INNATE`), so `Winner` tells the adds of the current life from its
other updates. The innate value is that of the winning add; for two servers to
agree on it, the winning id must determine the add, which it does because a
server adds an element only where it does not exist and so at most once per life
(`OneAddPerLife`). The acquired value is a sum over the executed commands and
its convergence is only model-checked.

**The mesh** (`MeshProofs`): `ConfiguredBeforeUpdates`, `PeerCommandsAreEffects`,
`GaplessStreams`, and the refinement `Spec => KeepsPromise`. The invariant has one
conjunct per ordered pair of servers (`StreamInv`): the unread content of a
connection that is up is the handshake, if the reader has not joined, followed by
exactly the commands after those it has run. A pair is disturbed only by steps
about that pair (`Untouched`), except for a broadcast, which appends the same command
to every live connection, and a kill, which breaks connections and empties none
that stays up. `Ordered` holds the order of the script, from which a server that
has a peer is configured.

**The streams** (`P2PProofs`, `RWFSetProofs`): `P2P`'s initial state and steps map
to those of `Streams`, and with them the set's (`SetUsesStreamsAsPromised`). Mesh
and containers are proved against the same abstract specification.

**The workload** (`WorkloadProofs`): `IndexInBounds`, and that the count of
operations passes its target by less than the number of threads. Test and
increment are two steps, so the invariant adds to each counter the number of
threads between the two: a thread enters this set only when the counter is below
its limit, and leaves it when it increments the counter. On top of this,
`TraceInv` gives `HandedOutOnce` and `TraceIsWhatRan`: `Holder` says that an entry
in a thread's hands is no other thread's and not yet in the trace, `Ledger` what
the servers' executions of an entry imply about the trace and the retries.

TLC checks `Inv` of `RWFSet`, `OSet` and `RWFZSet` too. Only model-checked: the
other containers, the acquired value of `RWFZSet`, `Transactions` (a fold over
the queue: proofs about it need induction over data), `RemoveWins` (its
reference definition is recursive over the causal past), and everything about
liveness, which is out of the prover's reach.

## 5. Not modelled

* `t_rset.c`: no command reaches its handlers.
* Restarts: the metadata are pointers in memory, and nothing in the CRDT code
  rebuilds them or asks a peer for what was missed. A killed server stays down in
  `Mesh`. A server that cannot persist refuses the commands of its peers too
  (`server.c:3794`); a stream then has a gap that `Mesh` does not have.
* Lua scripts, modules, blocking commands, SELECT and ACLs around `Transactions`.
  All scripts share one client, so that `exec_rargv` concerns them as well.
* More than one property of a list element, and the fields of a new `RWFList`
  element before their first write; concurrent creation of one list element.
* The measurement commands (counters, overhead, logs), which change no replicated
  state; the generators of the benchmark, its timed delays and its readers; the
  scripts that start servers and shape the network, except the order in which
  they connect them.
* Stock Redis. The repository holds the whole of Redis 6.0.5 with its vendored
  libraries (jemalloc, Lua, hiredis, linenoise), more than nine tenths of its
  lines: data types, persistence, cluster, sentinel, modules, networking. The
  CRDT code uses them as they are documented to work, the experiments do not
  exercise most of them, and a model of them would be one of another system. What
  is modelled of it is what the CRDT commands pass through: `call()`,
  transactions, expiry and the freeing of clients. Measured against all lines of
  the repository the models therefore cover a small share; of the files that
  implement the CRDTs and their replication, every operation that changes replicated state
  is an action, except those of `t_rset.c`.
