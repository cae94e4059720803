# tinyFaaS in TLA+

Models of tinyFaaS: the Docker handler that runs one function, the server that
deploys, calls, scales and deletes functions, its locks, its shutdown, one
deployment and one invocation with every error path, prewarming, and the gateway's
invocation statistics. TLC checks them on small instances; TLAPS proves their
safety properties for every value of the constants.

## The system

| Component | State | Operations | Interacts with | What is hard |
|---|---|---|---|---|
| Docker handler, `pkg/docker/handler.go` | network, containers, IPs, running flag; `opMux` held for a whole operation | Start (= Restart), Stop, Destroy, IPs, IsRunning, Logs | the Docker daemon; called by the server from many goroutines | every Docker call may fail; clean-up after a failed step; one readiness goroutine per container; a Start after a Destroy |
| Docker back end, `pkg/docker/backend.go` | none | Create (image, network), Stop | makes handlers | clean-up of a failed Create |
| Routing table, `pkg/server/server.go:196-324` | route per function, function per address; `routingTableMux` | Add, Del, Update, Get | written by deployments, deletes and scaling, read by calls | two tables that must agree |
| Function lifecycle, `server.go` | `functionHandlers` under `mux` | UploadArchive → createFunction, Delete, Wipe, Get, List, Logs | back end, routing table, autoscaler | a redeployment spans many steps without a lock; Delete holds `mux` across Docker calls |
| Scaling operations, `scaleop.go` | none | ScaleDown, ScaleUp | called by the autoscaler; use the handler and the routing table | handler looked up, then used without `mux` |
| Dispatch, `server.go:325-530` | in-flight requests | Call, invoke, waitForRouteReady, PickIP | routing table, autoscaler, the containers | snapshot of the route used later; cold start; counting every end of a request |
| Prewarming, `server.go:560-760` | budget, per-target admission, timers | prewarm after a call | call graph, autoscaler | timers outliving functions; slots to be given back |
| Autoscaler, call graph (libraries) | state per function | outside this repository | | |
| Gateway, `pkg/gateway` | statistics per function; one RWMutex | forward, Record, Reset, query | the server over HTTP | reset and record of concurrent requests |
| HTTP front end, `cmd/server/main.go` | temporary archives | upload, delete, list, logs, invoke; shutdown | the server | |
| Resource limits, `resources.go` | none | parse and validate limits | createFunction | numeric edges |
| Utilities, runtimes, journal reader | none | file copying, address predicates, the servers in the containers | | I/O |

Correctness, in a sentence each:

- a handler that says it is running runs all of its replicas, each of them
  healthy; one that is not publishes no address; no network is lost;
- a request reaches a running container of the function it names, and its end is
  counted once, on every path;
- a function being scaled is settled by exactly one goroutine, and containers are
  stopped only when they serve nobody;
- whatever fails, a running handler is listed or in somebody's hands, and a
  listed function can be started from zero;
- scaling operations, deletes and wipes end, readers are answered, goroutines never
  wait for each other in a ring, and a signalled process exits;
- a deployment is what was uploaded, with the limits asked for, or leaves the old
  one; what it leaves on disk and on Docker is known for every way out;
- an invocation that meets a cold start gets a route or gives up, and leaves the call
  graph the edge and the execution context that belong to it;
- statistics lose no invocation and an answer is one moment of them.

## Modules

    HandlerContract   what a caller of server.Handler may rely on (outcome sets)
      Handler         the contract as a state machine, one step per operation
      DockerHandler   handler.go step by step            => implements Handler
        DockerHandlerProofs   theorems
      Deployment      one deployment from the request to its answer
        Files         Unzip and CopyAll on trees of paths
        Resources     parsing and scaling of limits
        DeploymentProofs      theorems
        MCDeployment  TLC instance
    FunctionService   a function as its clients see it
      Server          deployments, deletes, calls and scaling, over HandlerContract
                                                     => implements FunctionService
        RoutingTable  instantiated by Server
        Autoscaler    instantiated by Server; EXTERNAL
        ServerProofs  theorems on tables, counts and scaling claims
        MCServer      TLC instances of Server
        Shutdown      SIGTERM to exit, around the requests of Server
          LifecycleProofs     theorems on handlers, routes and requests in flight
          MCShutdown  TLC instance
    Dispatch          one invocation from the request to its answer
      Autoscaler      instantiated by Dispatch; EXTERNAL
      DispatchProofs  theorems
      MCDispatch      TLC instance
    Locking           mux, opMux and scaling claims; List, Get, Logs
      LockingProofs   theorems
      MCLocking       TLC instance
    Prewarm           speculative scale-ups: timers, marks, budget
      Autoscaler      instantiated by Prewarm; EXTERNAL
      PrewarmProofs   theorems
      MCPrewarm       TLC instance
    GatewayStats      the gateway's statistics
      GatewayStatsProofs      theorems
      MCGatewayStats  TLC instance

**DockerHandler.** The variables are the fields of `dockerHandler`, the Docker
daemon's containers, network and image, and the operation that holds `opMux`
with its place in the code (`op`, `pc`). Since `opMux` is held throughout there
is one operation at a time; what interleaves with it are the readiness
goroutines (`Addressed`, `Healthy`, `TimesOut`) and containers removed from
outside (`ContainerLost`). Each Docker call is an action of its own with a
failing variant; the loop that creates containers is one action per container.
A Docker call that fails is taken to have had no effect; a removal may also fail
when the item is gone already. `removeContainers` removes its containers one by one;
nothing can observe the order, so it is one action that chooses which of them fail.

**HandlerContract / Handler.** The state a caller can tell apart - `phase`
(`up`, `down`, `partial`), whether the image exists, the published addresses -
and for every operation the set of allowed outcomes. `Handler` turns that into a
specification; `DockerHandler!Implements` says every operation with all of its
Docker calls is one step of it. `Server` uses the same outcome sets, so what is
checked about `Server` rests on what is proved about `DockerHandler`.

**Server.** A goroutine of every kind (`Deployers`, `Deleters`, `Callers`,
`Scalers`) has a program counter and local variables; one action is the code
between two points at which another goroutine can get in: a critical section of
`mux` or `routingTableMux`, a handler operation, a call into the autoscaler. The
local variables keep what the code keeps: the handler that was looked up, the
addresses read, the route snapshot, the registration a scaling operation was
claimed under. `Delete` holds `mux` from its lookup to its end, so `mux` is a
variable; all other uses of it lie within one action. A scaling operation runs in
whichever goroutine claimed the function: a deployment draining the old handler,
a call in its cold start, the idle check, a prewarm.

**FunctionService.** What all of `Server` comes to for the clients of functions
that are deployed once: a function is absent, up, down, leaving or gone, and a
request is in flight to it or not. It is stopped only while it serves nobody, a request
begins only when it is not stopped, and what was deleted never comes back. `Life` and
`Requests` of `Server` are the mapping: a listed function is leaving while a delete of
it holds `mux`, otherwise up or down as its handler is. So a scaling operation of six
steps is seen at one of them, where the handler stops or starts, and a deployment at
its commit or when it removes what it made in vain. `Begin` under or after a delete
is what the code allows: a delete waits for nobody.

**Autoscaler.** The library is not in this repository. The module states what
`pkg/server` relies on, as its calls and tests use it: a state and an in-flight
count per registered function, claims of idle and of scaled-down functions, and
a result that settles the registration it was claimed under. `StateBlocked`,
which the tests mention, is an active function with requests in flight. A second
`RegisterFunction` starts a new count.

**RoutingTable.** `routingTable` is a function over the functions that have a
route, `reverseRoutingTable` attributes every address.

**Prewarm.** Goroutines again have a program counter and local variables. A call
starts a scout (`prewarmDownstreamEager` before its cold start, `prewarmDownstream`
when it begins), which goes through the predictions of the call graph - any subset
of `Targets` - and starts a prewarmer for each: a goroutine, or a timer that fires
at any later moment. A prewarmer is admitted by its target's mark
(`prewarmInFlight`) and a slot (`prewarmSem`), tries the scale-up, records it when
it performed it, and gives slot and mark back in the order of the deferred calls.
Only the sign of a delay matters, since nothing else is timed. What `Server` models
in detail is coarse here: a deployment or a delete is one step, a route is
active, inactive or absent, and a scale-up is claim, restart with route, result.
Call graph and autoscaler are enabled for every function. `unrecorded` counts
scale-ups performed less `RecordScaleUp` calls, by mode.

**Dispatch.** `Server` follows one call to the container it reaches; `Dispatch`
follows the same code for what it tells others. Every return of `invokeHandler`,
`Call` and `invoke` is an action: request not readable, function unknown, cold start
failed, route not ready or gone, `StartInvocation` refused, request not built,
exchange failed. An asynchronous call is answered 202 and goes on. `edge` and
`context` are what the call graph was told by each invocation; the caller is any
function the source address may be attributed to, and counts as external unless its
own route is tracked. `PickIP` cannot fail here: line 429 has checked that the
snapshot has addresses. Deployments, deletes and scale-downs are one step. A delete
between the restart of a cold start and its `Add` leaves a route without a function:
it is found by later calls, which the autoscaler then refuses.

**Deployment.** The code of `uploadHandler`, `urlUploadHandler`, `createFunction` and
`Backend.Create` in one sequence, each call that may fail an action with a failing
variant; `failed` remembers which did, so that the properties can say exactly what
excuses what is left over. `disk` and `docker` are what the request has made and not
removed, `new` and `listed` are handlers in the state of `HandlerContract`, whose
outcome sets `Drain`, `Start`, `Discard` and `DestroyOld` use. `Return` forgets what
was left: a later deployment has folders and images of its own names. Routes are in
`Server`; here `Add` only refuses a handler without addresses. Parts come in any
order, are missing, duplicate or unreadable; the replicas asked for may be negative.
`Files` maps paths to data: folders exist or not, `os.Create` replaces, `CopyFile`
skips what exists. A path is what `path.Join` leaves of a text, and `IsPath` says that
it does not lead out of its folder; the assumptions on `Archives` and `Subfolders` ask
for it, so everything said about files is said of such names only. `Resources` works
on numbers: a quantity is a fraction with a unit, scaled without ever computing
anything larger than the result. `MaxInt` stands for 2^63 - 1, `Kilo` and `Kibi` for
the 1000 and 1024 that all units are powers of. TLC's integers hold neither a `tib`
nor what overflows, so the instance takes 10 and 16, and a `MaxInt` between 1 `t` and
1 `tib`; the proofs hold for any positive three.

**Locking.** Three kinds of lock in one map `holder`: `mux`, the `opMux` of every
handler, and the right to scale a function, which the autoscaler gives to one
goroutine at a time. An operation on a handler is a step that takes `opMux`, one in
which Docker works, one that releases it; critical sections that cannot wait inside
are one step that needs the lock free. The lock of the routing table is never held
across a wait and is left out. `List` and `Get` are the readers that hold `mux`
while `IsRunning` waits for `opMux`; `Logs` takes `mux` once per name.

**Shutdown.** Extends `Server`: `main` goes through draining, stopping and wiping,
the latter as a deletion request of `Server`'s own (`Main` is one of its
`Deleters`). After the signal no HTTP request starts; idle checks stop with the
autoscaler; asynchronous calls and prewarms go on to the end.

**GatewayStats.** One goroutine per request. `Record` is split into the read of
the map entry and the write, both under the mutex, so that the lock is what the
properties depend on; a query copies, asks the server, and answers later.

## What TLC checks

| Run | Instance | Properties |
|---|---|---|
| `docker_handler` | 3 replicas, all Docker calls may fail, containers get lost | `TypeOK`, `RunningMeansAllReady`, `NetworkTracked`, `DestroyedNeverServes`, `OpReturns` (liveness), `Implements` (refinement) |
| `server_scale` | 1 function, 2 replicas, 2 calls, 2 deleters, 1 scaler, start/stop/destroy may fail | `Pickable`, `ScalingOwned`, `StoppedIdle`, `ScalingEnds`, `DeletesEnd` (liveness) |
| `server_redeploy` | 1 function deployed twice, 2 calls, 1 scaler, 1 deleter, start/stop may fail | `TypeOK`, `InFlightNotLeaked`, `NoOrphans`, `ListedRestartable` |
| `server_routes` | 2 functions sharing 2 addresses | `RouteServed`, `ReverseOwned`, `ServesFunctions` (refinement) |
| `prewarm` | 2 functions, one of them deleted at any time; budget 1, 2 prewarmers, a call, the idle check | `TypeOK`, `AdmissionBalanced`, `OnePrewarmPerTarget`, `ScaleUpOwned`, `RecordedOnce`, `MarksReturn` (liveness) |
| `dispatch` | 2 functions, one tracked by the call graph, one removable; 2 invocations | `TypeOK`, `InFlightExact`, `CallGraphAccounted`, `ColdStartsResolve` (liveness) |
| `locking` | 2 functions, one removable; a reader, a deleter, a deployer, a scaler; Docker calls may fail | `NoWaitCycle`, `ReadersSeeDeployed`, `RequestsAnswered` (liveness) |
| `deployment` | 6 archives, 3 subfolders, 7 CPU and 6 memory quantities, -1 to 1 replicas; everything may fail | `LeftoversAccounted`, `AllOrNothing`, `DeployedExactly`, `LimitsApplied` |
| `shutdown` | a deployer, an asynchronous call, a prewarm or idle check; start/stop may fail | `ExitCleansUp`, `ShutdownEnds` (liveness) |
| `gateway_stats` | 2 invocations at a time, a delete, a reader, 5 requests | `SummaryAgrees`, `CompletionsCounted`, `ReplyConsistent` |

`CallGraphAccounted`, `LeftoversAccounted` and `AllOrNothing` are conjunctions of named
parts: contexts and edges; archive, folders and Docker; failure and success.
`ReadersSeeDeployed` speaks of `List`, `Get` and `Logs`, the latter over a redeployment.
The type invariant of `Locking` is proved only.

Bounds. Three replicas let one container be ready, one fail and one be lost in the
same start. A function needs two deployments to be replaced and two concurrent calls
for one to be in flight while the other cold-starts; two addresses are enough for one
to be freed and given to the other function. In `prewarm` two prewarmers exhaust a
budget of one, also for two targets; one function calls itself and the other, so
prewarms meet cold starts, and the other is deleted, and deployed again, under timers
and prewarms. Its predictions reach the immediate prewarm, both kinds of timer and the
skip of a target that is needed too soon. `Handlers` bounds the deployments of a
behaviour; each handler is used once, as each `Create` makes a new one. An invocation
of `dispatch` runs once; two let one cold-start while the other waits for it, or is
refused what the first was given. In `locking` two functions make `List` and `Logs`
take locks one after the other, and two handlers make a redeployment; every ring would
need at most the four goroutines there are. The archives of `deployment` are one for
every case of `Files`: a file twice, files below and beside the subfolder, a folder
entry missing or given, a file where a folder is; two cannot be extracted. Its
quantities are absent, malformed, negative, below one nano-CPU, truncated, in an
unknown unit and too large by one unit; with `Kilo` 10 and `Kibi` 16 no two units have
the same factor. In `shutdown` one goroutine of each kind that outlives the signal
meets the main goroutine. `dispatch` and `shutdown` stop, when all invocations have
run or the process has exited (`CHECK_DEADLOCK FALSE`). In `GatewayStats`
`MaxRequests` bounds the requests and deployments, so behaviours there stop
(`CHECK_DEADLOCK FALSE`); the violation run of `Server` stops as well when deployments
have run out. In all other runs deadlock is checked. Handlers, addresses, callers and
scalers are only compared for equality and are symmetric in the runs of safety
properties; the runs of liveness properties use no symmetry.

`Faults` names the handler operations that may fail in an instance. `RouteServed`
is checked without failing stops and without redeployment, where it does not
hold (below). `StoppedIdle` and `RouteServed` are checked without redeployment.
`ExitCleansUp` is checked without failing destroys: `Wipe` ignores the error of one,
and what it could not remove is left.
`InFlightNotLeaked` bounds the count from above only: under redeployment the
autoscaler starts a new count while requests of the old registration are still
being served, so the reverse does not hold.

Fairness. `DockerHandler!FairSpec` is weak fairness of the steps of an operation
under way: Docker calls return, and both readiness waits have deadlines. Callers
owe nothing. `Server!FairSpec` has weak fairness of the steps of every goroutine
that has something to do, and strong fairness of the steps that lock `mux`: Go's
`sync.Mutex` hands the lock to a waiter that has waited for a millisecond, so a
waiter is not overtaken for ever. Clients start requests or not, and a container
need not ever answer (`CallFinish` is unfair: the HTTP client has no timeout), so
nothing is claimed about the end of calls, nor of a deployment that waits for
calls. `Prewarm!FairSpec` is weak fairness of every prewarmer: its timer fires and
its goroutine runs on, since `TryScaleUp` waits for nobody and a restart returns
(`OpReturns`). `Dispatch!FairSpec` is weak fairness of every step of an invocation
except the exchange with the container; the deadline of `waitForRouteReady` may
pass at any moment. `Locking!FairSpec` is strong fairness of the steps of every
goroutine, since `opMux` and `mux` go to whoever waited long enough, except of a
wait for the autoscaler, of which nothing is known; nothing is claimed of
deployments. `Shutdown!FairShutdown` is `Server`'s fairness while the process runs,
and the passing of the 30 seconds; nobody owes a signal.

## Disagreements between code and documentation

Two are kept as runs that TLC finds violated; the quoted lines are in `PROJECT.json`.

- `server_redeploy_route`: between the drain of the old handler and the commit of
  the new one a request finds the function scaled down and cold-starts the *old*
  handler; its `ScaleUp` overwrites the new route with the old addresses, and the
  old handler is then destroyed: the function is listed and routed to nothing.
- `docker_containers_tracked`: a Start after a failed clean-up forgets the
  containers that could not be removed; their fixed names block later starts.

Others were seen while modelling and are excluded by the bounds or the wording of
the properties:

- a call picks an address from the route snapshot it took before (`server.go:466`);
  the function may have been scaled down and up since, and the address be another
  function's container;
- after a failed stop `ScaleDown` restores the old route "so the function keeps
  serving" (`scaleop.go:49`), although the handler is not running any more;
- two first deployments of a name at once: the second commit overwrites the first
  handler, which keeps running and is listed nowhere (`NoOrphans` is checked with
  one deployment at a time);
- the gateway resets statistics before it forwards a delete (`gateway.go:184`), so an
  invocation in flight is recorded for a function that is gone; a body that it cannot
  decode but the server can deletes the function and leaves its statistics;
- a scale-up that looked its handler up before a delete adds its route after it, so a
  deleted function keeps an active route; a delete between the `Add` and the commit
  of a redeployment leaves a listed function without a route; a delete whose Destroy
  fails leaves a route to containers that are gone;
- a delete between the commit of a deployment (`server.go:873`) and
  `RegisterFunction` (879) unregisters what is registered right after: the autoscaler
  then counts in a request admitted earlier, for a function that is gone (`Begin` of
  `FunctionService`), and keeps the function: a second delete finds nothing listed;
- an old handler may be destroyed under a request that cold-started it after the
  drain (same interleaving as `server_redeploy_route`);
- eager prewarms are started in order of urgency but in goroutines of their own, so
  with one slot left a later one may be admitted and "the most imminent callee [...]
  warmed first" (`server.go:568`) is skipped;
- a scale-up recorded after a delete gives the deleted function call graph data, as
  `CallgraphEnabled` answers true without a route;
- with the autoscaler disabled a redeployment leaves the old addresses in the reverse
  table;
- a Start after Destroy fills the network name again, against the comment at
  `handler.go:530` - it cannot serve (`DestroyedNeverServes`), but the network it
  creates is removed only because the failed Start cleans up;
- a failed `Unzip` leaves its folder, a subfolder upload leaves everything beside the
  subfolder (`server.go:789` removes what `tempDir` names by then), a failed
  `Create` leaves its build folder and may leave image and network, the image also when
  the stream of the build's answer ends in an error after the build (`backend.go:208`);
- the comment of `CopyFile` (`copy.go:37`) says an existing destination is replaced;
  the code skips it (`copy.go:50`). `DeployedExactly` holds since the destination is
  always new;
- a negative number of replicas panics in `Create` (`backend.go:132`): the client
  gets no answer, and the deferred clean-ups run;
- a CPU limit below one nano-CPU becomes 0, no limit for Docker; the test
  `resources_test.go:25` expects the 0;
- when the old handler cannot be destroyed, `createFunction` answers 500 although the
  replacement is listed and serving;
- an edge recorded at `server.go:445` stays when `StartInvocation` refuses the call
  (459), and the execution context stays open when the exchange fails (509).

## What is proved

The theorems hold for every value of the constants that satisfies the named
assumptions of the modules, which TLC evaluates in every run: goroutines of
different kinds are different and `None` is none of the values it stands beside;
replicas are a natural number where they are started, a budget is positive
(other settings fall back to a default), limits are numbers with a unit, absent or
malformed. The invariants of the runs are not inductive as they stand; every
proof module defines the invariant that is, `IInv` or what its comment names,
proves it step by step, one lemma per action, and derives the properties.

**DockerHandlerProofs**, for every natural number of replicas (the code does not
check the number, and a negative one panics):

- `TypeCorrect`: `TypeOK` always. Inductive together with `Labels`, which says
  which operation can be at which place of the code - without it a clean-up
  could end an operation that never began.
- `RunningCorrect`, `NetworkNeverLost`, `DestroyedStaysSilent`: the three safety
  properties of the run, for every state. `SafetyInv` adds
  `Building` - the containers tracked are exactly those below the loop counter,
  the network exists while containers are being created, `isRunning` survives
  only until the containers are removed - and `BuiltFromImage`: while a start has
  not failed, containers imply the image. The last is why a handler whose image is
  gone stays silent: its next Start cannot make a container.
- `DockerHandlerImplementsContract`: `Spec => Implements`. The refinement mapping
  shows the state in which an operation began until it returns.
  `Beginning` relates that state to the current one (the image is the same, Start
  did not begin running), `Leftovers` says an error is reported exactly when
  something stayed tracked. Every other step is a stutter.

**ServerProofs**, for any number of functions, deployments and goroutines, with or
without autoscaler, redeployments and failing operations: `TypeCorrect`,
`AlwaysPickable`, `NeverLeaksInFlight`, `AlwaysScalingOwned`. The invariant says
which goroutine may be where and what it has set by then (`Roles`, `Operands`),
that a deployment is registered under an entry nobody used before (`Fresh`), that a
claim and its goroutine belong together both ways (`Claims`), and what is counted
(`Counts`). `Fresh` is the core: a scaling operation that outlives a redeployment or
a delete settles nothing since its entry never comes back.

**LifecycleProofs**, over the invariant of `ServerProofs`:

- `ListedAlwaysRestartable` assumes that no Destroy fails. `HInv` says that a
  handler in hand or listed was created for that function (`Lineage`), that a
  replacement is known to its deployment only until it is listed (`Unlisted`), that
  one that was replaced is never listed again (`Superseded`), and that what a delete
  destroys stays listed until its critical section ends (`Locked`). So whoever
  destroys a handler destroys one that is not listed, or the one being deleted.
  With a failing Destroy it is false: Delete then leaves a function listed that
  may have lost its image, as the contract allows.
- `NeverOrphans` and `ExitAlwaysCleansUp` assume besides that there is a replica to
  run - a function with none is "up" without an image - and that no function is
  deployed twice at the same time (`Alone`), where the code does lose handlers
  (above). `OInv` says that whatever has an image is listed or in hand
  (`Accounted`), and that only deletes change a function's entry between a
  deployment's lookup and its end (`Undisturbed`, `Kept`). For the shutdown every step
  is shown to be one of `Server`'s, so both invariants carry over; `Serial` adds that
  once the requests with a client have ended, what is listed is ahead of `Main`.
- The routes, for functions that are deployed once (`~Redeploy`; the code allows
  more, and what is lost then is shown above) and not by two requests
  at the same time (`Alone`, which one deployer gives by itself), with any number of
  functions, deletes, calls and scalers:
  - `ReverseAlwaysOwned`, whatever fails. Add leaves the addresses of the entry it
    replaces in the reverse table, so what matters is that it only ever replaces an
    empty one. `RInv` says which goroutines rely on a route that lists nothing, and
    that whoever scales a function or deploys it has the route to itself.
  - `RouteAlwaysServed`, when Stop and Destroy do not fail: a failed Stop routes back
    to containers that may be gone. `VInv` follows the addresses from the handler into
    the variables of the goroutine and on into the route: they are those of
    running containers, or the function is being deleted (`Leaving`). Starts may fail.
  - `ScalesUnserved`, whatever fails: whoever scales a function does so while no
    request to it is in flight. `SInv` strengthens the counts of `ServerProofs`, which
    bound what the autoscaler counts, to equality - true only as long as nobody
    registers a function again while its requests are in flight. `AlwaysStoppedIdle`
    is what follows for containers when there is one function; with several, an
    address may have passed to another function after the request took it.
- `ServerImplementsService`: `ServesFunctions`, on the same conditions as
  `RouteAlwaysServed` and with the autoscaler enabled (without one nothing is scaled,
  and a request may begin as soon as there is a route, before the commit). `AInv` is
  what it takes besides the invariants above: whoever is about to tell the autoscaler
  that a function is active knows that nobody needs to start it (`Vouches`, `Available`).
  `StepServes` says that a step that touches no listed handler is not seen; what is
  left are the eight steps that are. No scale-down can overtake a request since both
  `Exact` (of `SInv`) and `AInv` speak of the state the autoscaler guards.

**LockingProofs**: `TypeCorrect`, `NeverWaitCycle`, `ReadersAlwaysSeeDeployed`, for
any number of functions, handlers and goroutines. `Held` says where the holder of
each lock is; from it the locks have a rank - a scaling claim before `mux`, `mux`
before `opMux` - in which everybody waits upwards only, so the highest goroutine of a
ring would wait for none. `Owned` and `ListedLive` keep handlers that are
listed apart from those being destroyed.

**PrewarmProofs**, for any budget, predictions and number of prewarmers:
`TypeCorrect`, `AdmissionAlwaysBalanced`, `NeverTwoPrewarms`, `ScaleUpAlwaysOwned`,
`AlwaysRecordedOnce`. Slots and recorded scale-ups are cardinalities of sets of
goroutines, so each step is one element more or less; `Lineage` and `Claims` say, as
in `Server`, that nobody settles another's scale-up.

**DispatchProofs**: `TypeCorrect`, `InFlightAlwaysExact`,
`CallGraphAlwaysAccounted`, for any number of invocations. `Stories` says for every
place of the code what the invocation has told the call graph by then.

**DeploymentProofs**: `LeftoversAlwaysAccounted`, `AlwaysAllOrNothing`,
`LimitsAlwaysApplied`, `AlwaysDeployedExactly`, for any quantities, numbers of
replicas, negative ones included, and any largest integer, and for any archives and
subfolders whose names do not lead out of their folder (`ArchivesAssumption`,
`DeploymentAssumption`): a name that begins with ".." once `path.Join` has cleaned it
is not covered.

- The limits, in every unit that `resources.go` accepts, rest on arithmetic:
  `RatToInt64` scales whole part and remainder separately and checks for overflow
  without ever computing anything that does, and `ScaleExact` and `RatToInt64Exact`
  show that the result is the exact quotient, or the refusal of one that does not fit.
- What is deployed rests on the two ways through the file system. `Unzip` is a fold
  over the entries; `UnzipUnfolds` shows, by a least counterexample among the
  prefixes of the archive, that it treats entry after entry, and `UnzipHolds` that the
  folder then holds the last file of every path. `CopiedExactly` shows that a copy
  into a fresh folder loses nothing although `CopyFile` skips what exists, and
  `Sourced` carries both from the request to the image.

**GatewayStatsProofs**: `SummaryAlwaysAgrees`, `CompletionsAlwaysCounted`,
`ReplyAlwaysConsistent`, however many requests there are. The first two follow from
`Exclusive`: what Record read is still what it will replace. An answer is sorted by
`Rank`, the number of invocations that come no later; `RankGrows` and `PlacesFilled` show
that every place is taken exactly once, `InOrderSorted` that nothing is lost or
doubled on the way, and `ReadersHold` that what a reader copied under the lock is one
moment of the statistics, whatever is recorded or reset before it answers.

Model-checked only: liveness (`OpReturns`, `ScalingEnds`, `DeletesEnd`,
`MarksReturn`, `ColdStartsResolve`, `RequestsAnswered`, `ShutdownEnds`), which needs
fairness and ENABLED, outside the prover's reach here.

## Not modelled

Logging and the journal reader; the call graph endpoints of the server and the
gateway, which only read or forward; header handling beyond the caller's address;
the environment variables of both processes, the check for runtime images when the
server starts, `gateway/main.go`; the runtimes inside the containers, seen as a
health answer and an HTTP answer; the address and name predicates of `pkg/util`, and
`copyembed.go`, which nothing calls. The autoscaler and the call graph are libraries
outside this repository: `Autoscaler`, `Dispatch` and `Prewarm` state what the calls
and tests here use. File permissions, symbolic links, and Docker errors after which
the call took effect all the same, but for the build of an image, are left out. So are
entries of an archive and a `subfolder_path` that lead out of their folder: `Unzip`
(`zip.go:26`, `43`) and `createFunction` (`server.go:798`, and the `RemoveAll` deferred
at 789) join them with `path.Join` and do not check the result, so with a leading ".."
files are made, copied or removed elsewhere. `IsPath` excludes them, and what is shown
of files and folders does not speak of them.

## Plan

1. Done: all models; every safety property and both refinements of the passing runs
   are theorems.
2. Open: what is left of `RouteServed`, and of `ServesFunctions`, when a stop fails and
   the route is restored to containers that may be gone. (Of `StoppedIdle` with
   several functions `ScalesUnserved` is what is left.)
