# MiniPP in TLA+

MiniPP is a family of servers around a relay: terminals (devices) behind NAT open
connections to a device relay server, proxy access servers ask the relay server
for connections through a device, and name servers, collectors and a config
center stand beside them. Every server is single-threaded around an io loop
(`xIoContext::LoopOnce`) whose listener callbacks run one at a time, followed by
`Tick` calls that time out and destroy what the callbacks put aside. Only the dns
service has threads of its own. The network library `xel` (lists, id
pools, tickers, semaphores, connections) is not part of the repository.

This directory models the parts whose state outlives a callback, checks them
with TLC on small instances, and proves their safety properties with TLAPS for all values of the
constants.

Paths below are relative to `src/cpp/`.

## 1. Inventory

For each component: what it keeps, what it does, what it talks to, what is hard,
and what makes it right.

| component | state | operations | status |
|---|---|---|---|
| device connection manager (`src_app/server_relay_device/device_connection_manager.*`) | id pool, three lists (new, idle, to be killed), a stamp per connection, the time of the last `Tick` | `AcceptConnection`, `KeepAlive`, `DeferReleaseConnection`, `Tick` | `DeviceConnections` |
| proxy connection manager (`proxy_connection_manager.*`) | the same, and `ChallengeReady` per connection | the same, and the challenge | `ProxyConnections` |
| device manager, relay connection manager, device relay service (`device_manager.*`, `relay_connection_manager.*`, `relay_service*.cpp`) | devices with plain pointers to their two connections; relay contexts with the ids of both sides | ten listener callbacks: accept, close, keepalive, init of control and data stream, challenge, create, destroy and push by a proxy, report and post by a terminal | `DeviceRelay` |
| request cache (`src_lib_common/pp_common/request.hpp`) | map key -> request, pool, timeout list, list of requests to dispatch | `Query`, `SetData`, `SetNoData`, `Tick` | `AsyncRequest` |
| dns service and job queue (`src_lib_component/pp_component/dns/`, `src_lib_common/pp_common/job.*`) | semaphore queue, finished list, job counter, 50 threads | `Query`, worker loop, `GetAndDispatchResult`, `Clean` | `DnsService` |
| dns server (`src_app/server_dns/`) | the two above and a clock | `Tick`, `OnPacket`, `PostRequest`, `OnLocalDnsResult`, `PostResult` | `DnsServer` |
| server pool client `xPP_Client` (`src_lib_component/ppc_common/client.*`) | four lists by connection state, two by keepalive, the list of server addresses | `UpdateServerAddresses`, `Tick`, `OnConnected`, `OnPeerClose`, `OnData`, `PickConnection`, `Clean` | `PPClient` |
| job wheel (`job.hpp`) | a ring of lists and an index | `DeferJob`, `ProcessJobs`, `Forward` | not modelled; nothing uses it |
| challenge client, backend client (`src_app/common/`) | one client connection, `Ready`, a time stamp | `OnServerConnected`, `OnPacket`, `Tick` | not modelled |
| audit collector (`src_app/server_audit_colloector/`) | connection state, time stamps | `Tick` and callbacks | not modelled; unfinished |
| terminal controller service (`src_lib_component/pp_component/terminal_controller_service.*`) | pairs of connections, a timeout list | create, close, `Tick` | not modelled; no users |
| relay connections of the proxy access server (`src_app/server_proxy_access/`) | lists as in the relay server | unfinished: `Tick` begins with `Todo()`, `main` is empty | not modelled |
| mysql connection, statement, transaction (`src_lib_db/`) | a connection and its version; per statement a handle and the version it was prepared on; a transaction's version and whether it is commited | `Init`, `Clean`, `Tick`, `Execute`, begin, `Commit`, roll back | `MySqlSession` |
| dns dispatcher, config center, config center root, device and user manager, third party relay | none between two packets, or an empty `main` | | not modelled |
| protocol messages (`src_lib_protocol/`) | none | serialization | the ids and their widths, in `DeviceRelay` |
| mysql data binding, static ip table, regions | none, or tables read at start-up | conversions, lookups | not modelled |

**How they interact.** In the relay server the service's callbacks call
`KeepAlive` and `DeferReleaseConnection` of the managers and look up connections,
devices and contexts by id; the managers never call back. A device keeps plain
pointers to its connections, everything else goes by id through pools whose ids
are never reused. In the dns server a packet becomes a query of the cache, the
cache posts a job, a thread resolves it, the server's `Tick` carries the result
back into the cache, and the cache's `Tick` answers everyone who asked. The pool client
hears from the io loop (connected, closed, data) and is told of new server lists by
its owner. Statements and transactions hold a pointer to the mysql connection and
compare its version with their own before they use what belongs to it.

**What is hard.**

- *Deferred destruction.* Callbacks never delete: they mark and move a
  connection, and `Tick` deletes. Until then the connection is found by id and its
  packets are handled. Each list is scanned from its head only, so list order must
  be time order.
- *Order of callbacks.* Control and data connections of a device, reports, closes
  and proxy requests come in any order within one loop, from peers that do not
  know of each other.
- *Pointers and ids that outlive what they name.* Devices point to connections;
  contexts name a proxy connection that may be long gone.
- *Threads.* Queue, result list and wakeup of the dns service; its shutdown.
- *Reconnection.* Connections of the pool client close, time out, answer late and lose
  their server in any order; a mysql session is lost, unnoticed until something fails, and
  replaced under the statements and the transaction that rely on it.
- *Timeouts against late answers.* A cache entry may expire before its lookup ends,
  and be asked for again while the first lookup is still running.

**What makes each component right.**

- *Connection managers:* a connection is in exactly one list until it is destroyed,
  is destroyed exactly once, not before its time and not after it, and a released
  one never comes back. A proxy connection lives long only after its challenge.
- *Relay service:* the right device dies with its control connection and hears of
  nothing after that, packets carry the id the device gave, a rejected connection is
  destroyed. A device that is found can be talked to (it is not so, see section 4).
- *Request cache and dns server:* every query gets at most one answer, of its own
  key; none is forgotten once its result is there; a request is looked up once at a
  time, and its lookup is not lost on the way.
- *Dns service:* no job and no wakeup is lost; `Clean` ends.
- *Pool client:* one connection per configured server, in the list its state says, watched
  by the keepalive lists while it can be picked; nobody silent goes unasked; `Tick` ends (it
  does not always, see section 4).
- *Mysql:* a statement never runs with a handle of an earlier connection; a transaction
  is kept as a whole or not at all, and nothing of it is left when its object is gone.

`PROJECT.json` lists the hazards at their lines.

## 2. Modules

`XList` has the operators for xel's intrusive list, among them `Without`, which unlinks a set of
nodes (by a recursive function, which can be proved about). Every list of the program is
a sequence; a node is in at most one list of its kind, so an action that grabs a
node for one list removes it from the others.

**`DeviceConnections`, `ProxyConnections`.** One variable per member of the manager,
with the member's name; `ConnectionIdManager` is the set of ids in use, `Released`
those given back, `Marked` the connections with `FLAG_MARK_DELETE`. One action per
member function, its early returns as disjuncts. `Tick(NowMS)` is the whole
function: both timeout loops, the loop over the kill list and `DestroyConnection`
for each node (in the proxy manager the timeouts go through
`DeferReleaseConnection` first). Callbacks stamp with the time of the last `Tick`, as the code does.

**`ConnectionReaper`** says what a manager promises without lists: a deadline per
connection, `Refresh` moves it, `Doom` gives the connection up, `Reap(t)` destroys the doomed ones and
exactly those whose deadline is `t` or earlier. Both managers implement it
(`ReaperSpec`), with stamp plus timeout of the list as the deadline.

**`DeviceRelay`** is the server: it instantiates both managers over its own
variables and adds the connection attributes (`Type`, `DeviceId`), the devices, the
contexts and the callbacks of `relay_service*.cpp`. `Posted` is what the last
callback sent to another connection; `Reported` remembers what each device said last, `Gone`
the devices whose own control connection closed, by the device's pointer to it (history; the code removes by the
connection's pointer to the device).
A callback that returns `InvalidDataSize` sets `failing`: the io loop closes that
connection before anything else. A post through a pointer whose connection was
deleted is undefined; the model lets it vanish or reach any other live connection.
`DeviceSideConnectionId` of a new context is never initialised; the model starts it
with any value. The 64-bit `ProxySideConnectionId` is cut by `% IdSpace` where the
message has 32 bits.

**`AsyncRequest`** is `xAsyncRequestManager`. One request is spread over functions of
its id (`State`, `DataNode`, `RequestSources`, ...). A `Source` stands for one query,
so that answers can be counted. The data of a key is represented by the key it
was looked up for.

**`DnsService`** has the threads. `worker[w]` is where thread `w` stands: waiting for the
semaphore, looking up, between listing its job and calling the notifier, or gone.
`owner` is where the thread that owns the service stands. A semaphore operation
with its lambda is one step, so is what is done under the spinlock; everything else
interleaves.

**`DnsServer`** extends `AsyncRequest` (the class inherits it) and instantiates
`DnsService`. The steps of `xDnsServer::Tick` are separate actions, between which
the threads run; `owner` tells which step is next.

**`PPClient`** is `xPP_Client`. A connection object is a member of `Connection`; `ServerAddress[c]`
is `None` while it is free memory, `tcp[c]` is what the io loop knows of it. The lists that the code
empties as a whole (connecting, reconnecting, closing) are sets, the ready list (which
`PickConnection` rotates) and the two keepalive lists (which are read from the head while stamps are old) are sequences.
One action per callback and for `UpdateServerAddresses`. `Tick` is four actions in the order
of the code, of which `CleanTimeoutConnection` is one round of the loop in lines 107-111; between
them nothing else runs (`tick`). `Outlived` (history) holds the connections that were
closing when the servers were last updated, which that function does not look at.

**`MySqlSession`** puts `xMySqlConn`, `xMySqlStmt` and `xMySqlTransaction` together, used by one thread. Version
numbers are 1, 2, ...; 0 is the invalid one. `NativeHandle` and `Native[s]` hold the version of the
connection they belong to. `CheckReconnectionAndPing` is `Tick`; `Execute(s)` is
`CheckReonnection` followed by `InternalBindAndExecute`, with every way it can fail: no connection,
a failed preparation, an error, a link lost before or after the server executed. `Alive`, `AutoCommit`,
`Pending` and `Durable` are the session and the data at the server; `LoseLink` happens at any
moment. `Work`, `Said`, `Reused` and `Failed` are history: what each transaction had
executed, what its first `Commit` or its destructor made of it, which statements were
initialised again, whose assertion failed (after which nothing runs).

**MC modules** name the model values; each `.cfg` beside them is one run.

**Proof modules**: `XListTheorems`, and `DeviceConnectionsProofs`, `ProxyConnectionsProofs`,
`DeviceRelayProofs`, `DnsServiceProofs`, `DnsServerProofs` (of `AsyncRequest` too),
`MySqlSessionProofs` and `PPClientProofs`.

Definitions whose comment begins with *Mutant of* are altered versions of the
definition they name, each the way a slip in the code would alter it; no
specification uses them. Putting one in the place of the original makes TLC
reject the property listed with it in `PROJECT.json`.

### Modelling decisions

- *Time.* `Tick` receives any time not before the last one. `StartTime` is at least
  every timeout, so `Ticker() - Timeout` does not wrap, as with the epoch clock.
- *Ids.* `xIndexedStorage` draws ids with a version, so an id is never drawn twice. A finite
  set of ids bounds how many connections or requests ever exist.
- *Never reached.* The managers' `Clean` and `FreeAllConnections` follow an endless
  loop in `_main.cpp`; `RemoveDevice`, `PostConnectionData` and `xRelayConnectionManager::Destroy`
  have no callers.
- *Not distinguished.* Packet layout, contents of posted data, and the answers sent
  to the very connection that asked.
- *The mysql server.* Autocommit is on in a new session; a session that ends is rolled back, whenever
  the server notices; a statement that is refused undoes itself alone (a
  server that answers a deadlock by rolling back the whole transaction is left out: the owner sees
  that statement fail and has to give the transaction up). One transaction
  object at a time. What `IsEqualTo` says of two invalid versions is the library's: both.
- *Failing calls.* `xTcpConnection::Init` may fail whenever it is called, and pools may be full.
- *First queries.* The dns server cannot have a query before its first `Tick`, as its
  connection to the dispatcher takes at least one loop; the cache's clock is set by then.

## 3. Runs that pass

| run | instance | states | shows |
|---|---|---|---|
| `device_connections` | 3 ids, pool of 2, timeouts 2 and 3, clock 3..8 | 2.7 thousand | one list each, timeouts neither late nor early (`ReaperSpec`), a released connection is destroyed |
| `proxy_connections` | 3 ids, pool of 2, timeouts 1 and 3, clock 3..8 | 3.0 thousand | the same with the challenge |
| `relay_binding` | 3 device connections, 2 devices, no proxy, clock 2..4 | 33 thousand | control connections and devices are one to one; the close of the control connection removes its device; a connection that is closed, rejected or turned away is destroyed by the next `Tick` |
| `relay_traffic` | 3 device connections in a pool of 2, 2 devices, 1 proxy connection, 1 context, ids above and below `IdSpace` = 2 | 337 thousand | nothing is posted to a device whose control connection closed; packets carry the id last reported |
| `dns_service` | 2 threads, 4 jobs, 3 at a time | 21 thousand | jobs, wakeups, shutdown (safety and liveness) |
| `dns_server` | 2 hostnames, 4 queries, 3 requests in a pool of 2, 3 jobs of which 2 at a time, 2 threads, clock 1..3 | 70 thousand | answers: at most one, the right one, none forgotten; no lookup is lost on its way |
| `dns_server_live` | 2 hostnames, 2 queries, 2 requests, 1 thread | 32 thousand | an accepted lookup ends and nobody is left waiting |
| `pp_client` | 2 servers, 3 connection objects, intervals 2 and 1, response timeout 2, clock 2..6 | 150 thousand | one connection per server, lists that agree with the connections, nobody silent goes unasked |
| `mysql_session` | 2 statements, 2 transactions, 2 connections | 1.4 million | statements and transactions across a connection that is lost and replaced |

*Why these bounds are enough for the cases that matter.* Three connections in a
pool of two: the pool is full, an id is given back, a later connection gets another
one, and a list has an old head in front of a young node and the reverse. The clock runs
past both timeouts more than once. In the relay, three device connections are a control
connection and two data connections that claim it, one of them accepted when the other is
gone, or two control connections; two devices are enough for a control connection
that is claimed twice, and the proxy connection can be gone while a context still names
it. In the dns server a request can time out before its lookup ends, its key
be asked for again, and the first result come while the second lookup runs, which is
where `NoLookupIsLost` bites; the request pool and the job limit are both reached. In the pool client the third object lets a
connection close while both servers get a new one; the clock passes the reconnect
interval twice and every keepalive interval several times. In the mysql session the
connection can be lost before, during and after each transaction, a second statement
makes a transaction that could be kept in part, and a second transaction could
inherit what the first one left.

*Symmetry* (`relay_binding`, `relay_traffic`, `dns_server`, `pp_client`, `mysql_session`, `relay_ctrl_gone` and `relay_wide_id`) is over
ids of one kind, which no definition tells apart; runs with liveness have none.

*Deadlock* is checked except in `dns_service`, which stops when `Clean` has finished.
In the others `Tick` is always possible. (`MySqlSession` stutters on purpose once an
assertion has failed, `Aborted`.)

*Fairness.* `main` of both servers is `while (true)` around `Tick`, hence weak fairness
of the tick actions. In `PPClient` only the steps
inside `Tick` are fair: nothing interrupts a function. In `DnsService` no thread is starved and `getaddrinfo` returns, hence weak fairness of
each thread; the owner collects. No fairness is assumed of peers or callers: nobody
has to connect, send, ask, or stop the service.

## 4. Runs that fail, and what they mean

- `relay_ctrl_gone`: `assert(D->CtrlConnection)` (`relay_service._proxy.cpp:59`) takes it that a
  device that is found has a control connection. A control connection that is silent for
  the new-connection timeout is destroyed by `Tick`; only `OnPeerClose` removes its
  device, so the device stays, with a pointer to freed memory through which the next request posts.
- `relay_wide_id`: a proxy that chooses a connection id of more than 32 bits is told a cut
  one, and the data it pushes with that id is dropped.

- `pp_client_tick`: the loop that is to "clean timeout connections" (`client.cpp:106`) pops
  `ConnectingNodeList` and puts each node back at the tail of the same list. One connection that
  has not connected when the reconnect interval is over, and `Tick` never returns.

The first property speaks only of devices whose data connection is alive. The
same holds for the data connection and `assert(D->DataConnection)` (line 105): its close releases it
(`relay_service.cpp:79-82`), the device stays and points to it. That has no run of its own.

Two more things the runs taught, for which no document says what should be: a
connection of the pool client that is closing while `UpdateServerAddresses` runs comes back for
a removed server, or beside the new connection of the same server
(`OneConnectionPerServer` leaves it out by `Outlived`); and a statement that is cleaned and
initialised again while the connection stays keeps its `ConnVersion`, is taken for
prepared, and fails `assert(Native)` (`AssertionNeedsReuse` says that nothing else does, but
for two invalid versions if the library calls them equal).

What the properties leave out on purpose: `PacketsCarryReportedId` begins with the first report (before it the
code sends whatever the memory held); `OneConnectionPerServer` leaves out `Outlived`; `AllOrNothing` speaks of
what ran on the transaction's own connection; and a request made while the dns service has no
room is never looked up, which `NoLookupIsLost` names as the one exception. That a
context's proxy id never leads to another connection is the library's promise (ids are drawn once),
not a property of this code.

## 5. Proofs

Every invariant and action property of the runs that pass is a theorem: TLC shows it on the
instances of section 3, TLAPS for all values of the constants that satisfy the `ASSUME`s of
the module. `PROJECT.json` lists the theorems. Each proof module has an inductive
invariant, written down at the end of the model (*What the properties above rest on*),
a lemma per action that says the action keeps it, and then the theorems. TLC checked each
inductive invariant on the runs before it was proved.

**Assumed of the constants.** Times are natural numbers, the timeouts of connections are not 0 (those of the code are
seconds), and the clock starts no earlier than every timeout
(`TimeAssumption`, `ClockAssumption`, `RequestAssumption`, `ClientAssumption`). `None` is none of the
ids, keys and servers. A connection id is a device's or a proxy's, not both, and the
ids a device can report fit in the field they travel in (`IdAssumption`). There is at least one thread, and finitely many
(`JobAssumption`, `ServiceAssumption`; the code starts 50), at least one
job may be open, and finitely many connection objects exist (`ClientAssumption`): three invariants count
them. `MaxVersion`, `MaxTx` and `MaxTime` are bounds of any size. Nothing else is assumed,
no set of ids has to be finite but these.

**The lists (`XListTheorems`).** What unlinking, grabbing and popping do to a list without
duplicates: which nodes are left, that there are still no duplicates, that stamp order
survives, and that `PopHeadWhile` on a list in stamp order leaves exactly the young nodes
(it stops at the first young node; behind it none is old). The last rests on
`LeastPosition`: a set of positions that is not empty has a least one. It also stands in
for induction in `LeftExists`, which shows of the recursive function `Left` that it is
defined (were it not, take the first position at which it is not). `ConcatInjective`, `ConcatSorted` and
`LengthOfInjective` relate two lists put together, or their lengths, to the sets of their nodes.

**Connection managers.** `NoOverdueSurvivor` is not inductive: `Tick` pops from the head while the
head is too old, so it is right only if the list is in the order of its stamps
(`ListsInStampOrder`). That order survives `GrabTail` only if no stamp is later than
the present (`StampsArePast`), and a stamp belongs to one list only if a connection is
in one list only (`EachInOneList`). With these one `Tick` removes exactly `Overdue` and the doomed,
which is the step of the reaper: `Spec => ReaperSpec`, step by step. The proxy manager needs in addition that no
marked connection is in a timeout list, because `DeferReleaseConnection` ignores a marked one.

**Relay server (`DeviceRelayProofs`).** First, that the server uses its managers as they allow:
every callback makes at most one call that changes a manager's state, so every step is a
step of that manager or leaves it alone, `Spec => Devices!Spec` and `Spec => Proxies!Spec`. Hence all that was
proved of a manager holds in the server, the reaper included (`DevicesAreReaped`, `ProxiesAreReaped`). To cite these
theorems the proof module instantiates the managers' proof modules; for the prover the operators of that
instance are not those of the model's instance, and `SameDeviceInit`, `SameDeviceNext`,
`SameDeviceInvariant` and the like show that they mean the same. Second, the
server's own invariant `RelayIInv`: a device points only to connections that there are or were
(`PointersWereDrawn`), so none accepted later is taken for one of its own; a closed connection is
marked, so the next `Tick` destroys it; a context holds the id reported last. `ClosedDeviceIsSilent` rests on
`GoneIsDeleted`: the close removes the device the connection points to, the property is about the device that points to the
connection, and `CtrlConnectionOfOneDevice` makes them the same.

**Dns service (`DnsServiceProofs`).** `TotalDnsJob` is a count, so the proof is one of
cardinalities: a job is in one place (`JobsInOnePlace`), and a worker holds one exactly while it looks up. No worker
takes the end for a job because permits are exact (`PermitsAreExact`): as many as queued jobs, and from
`Clean` on one more per worker that still runs. A worker
ends only after `Clean` began and when the queue is empty, and there is at least one: so once all have ended no job is queued
or held, and the lists were collected (`OwnerPhases`), which is `CleanLeavesNothing`.

**Request cache and dns server (`DnsServerProofs`).** `RequestsIInv` is about the cache alone:
`AnswersAreRight` needs that who waits has no answer yet and waits with a request for its own
key (`SourcesAreWaiting`), and that a request is never taken for its successor because ids are drawn once. The server then implements the cache's
specification, `Spec => RequestsSpec`, threads and all: a step of the server is one call of the cache or none. The hard
part is the result, which reaches the cache through queue, thread and list: it is for the request
it names (`JobsBelongToRequests`), whose key it was looked up for, though the request
may be gone by then. `OneJobPerRequest` follows from the same invariant, and so does `NoLookupIsLost`, an action property: the
jobs in the queue, with the threads and in both lists are all the jobs there are (`InHandIsAlive`, from
`CounterIsExact`), a job goes away only with the result it delivers, and `JobsBelongToRequests` says to whom. The server is also shown to use the dns service as
that allows (`Spec => LocalDnsService!Spec`), so the service's invariant holds in it.

**Mysql session (`MySqlSessionProofs`).** `AllOrNothing` is about what is durable, and rests on what is
pending: exactly the work of the running transaction while that is open on a live session
(`PendingIsTheWork`), autocommit off just then. Versions make it so: no version that something remembers is later
than the last one given out (`VersionsWereGiven`), so a connection opened later is never taken for an earlier one.
`AssertionNeedsReuse` needs `BareWasReused`: only a statement initialised again remembers the
present connection and has no handle.

**Pool client (`PPClientProofs`).** The state lists partition the allocated connections
(`StateListsPartition`) and agree with what the io loop knows (`StateOfList`); a ready connection is in exactly one keepalive
list (`WatchedOnce`). `NobodyGoesUnasked` is an action property of the last step of `Tick`, which reads
both lists from the head, so it needs `StampOrder`: the nodes that leave one list come, newly stamped, behind what is left of the other,
which keeps both sorted (`ConcatSorted`).

**Only model-checked.** Liveness, which is out of the prover's reach: `DeferredIsDestroyed`, `CleanEnds`,
`LookedUpIsAnswered`; and what the runs of section 4 show, which is false.

## 6. Not modelled

- *Challenge client, backend client:* two flags and a stamp. What drives them (connect,
  kill, reconnect) is in the library, which is not in the repository, so a
  model would show what it assumes.
- *Audit collector, proxy access relay connections:* unfinished. Nothing sets the collector's
  `Ready`; the other's `Tick` begins with `Todo()` and its `main` does nothing.
- *Terminal controller service:* no program uses it; its keepalive condition is inverted and
  its ids are never given back, so there is no working behaviour to state.
- *Job wheel:* nothing uses it.
- *`xPP_Client::Clean`:* nothing calls it. It gathers two lists in a third and frees a fourth.
- *Library-wide initialisation of mysql* (a counter under a mutex), and the rows of a result.
- *No state:* wire layout, mysql binding, `IsLocal` of the dns server, lookup tables, config center,
  start-up and configuration.
- *Empty programs and load tests:* config center root, device and user manager, third party
  relay, dns dispatcher.

## 7. Plan

The model is complete for what the code keeps and finishes, and all its safety properties are
proved. What could be added:

1. An abstract specification of the dns server for its users (a query is pending, answered or
   dropped) that `RequestsSpec` implements, and of a transaction that `MySqlSession` implements.
2. Smaller leaves where a proof step still cites more definitions than it needs.
