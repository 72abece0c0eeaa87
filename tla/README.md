# TLA+ verification of algogateway's service discovery, routing and HTTP pipeline

This directory models algogateway in TLA+. It covers four things:
- the service-discovery client under `src/Common/RegisterCenter/`;
- the gRPC picker that routes calls to backends;
- the register-center protocol and the application lifecycle that drives it;
- the HTTP request pipeline that uses all of them.

TLC model-checks small instances. TLAPS proves the main safety invariants for every value of
the constants.

## 1. The system

| Part | Source | State | Operations |
|---|---|---|---|
| VersionGate | `UnifiedClient.go` Init 50-81, `checkVersion` 163-192 | `relySemver` | Admits a node's version if it is not older and has the same major version. |
| UnifiedClient | `UnifiedClient.go` | `si_map`, `rn_map` | `updateAddr(si)` records `si` under the lock, then adds or removes the address in the resolver, then pushes. `callService` sets the pick filter and calls gRPC. |
| ServiceResolver | `ServiceResolver.go` | `address`, `nodes` (two `sync.Map`s) | `setAddr`, `addNodes`, `delAddr`, `update` (`cc.UpdateState`). |
| Picker/Balancer | `ServiceBalancer.go`, `Options.go` | the picker snapshot: `k2conn`, `addr2conn`, the ring | `Build` from the READY SubConns; `Pick` by consistent hash, random weight or specified address. |
| ConsistentHash ring | `GateWayCommon/ConsistentHash` (not in this repository) | the sorted keys | `Add`, `GetN`. |
| RegisterCenter protocol | `RegisterCenter.go` | `serviceInfo.Status`, the crontab | `Online`, `Offline`, the `ping` (3 s) and `check` (30 s) cron jobs, `OnNotify`, `updateClient`. |
| Application lifecycle | `Application.go` `Start` 130-201 | | Listen, then `Online`, then Serve, then wait for quit, then `Offline`, then Shutdown. |
| HTTP pipeline | `HTTPMessage/Common.go` `common_request_v3`, `download_message.go` | per request | Checks the method, decodes the parameters, sets the deadline, makes the call, and writes the response. |

How the parts interact:
- The Online reply, Notify requests and Check replies all end in `updateClient`, then
  `updateAddr`.
- `updateAddr` changes the resolver, which pushes the node list to gRPC.
- gRPC connects a SubConn per virtual node. It rebuilds the picker whenever the set of READY
  SubConns changes.
- Every RPC, including the HTTP pipeline's `CallService`, picks a SubConn from the current
  picker.

## 2. Modules and correspondence to the code

`PROJECT.json` "map" lists, for every definition, the source lines it models.

- **`VersionGate.tla`** models version strings by what `golang.org/x/mod/semver` tells apart.
  `checkVersion` is the Go function line for line.
- **`UnifiedClient.tla`** models one client with its resolver, and a set of `Callers`
  goroutines each running `updateAddr`.
  - Every `sync.Map` operation is one atomic step, and so is the write under `rwlock`.
  - `UpdateAddrStart` is lines 117-150. `Work` groups the resolver steps that follow:
    `SetAddr`, the `addNodes` loop, the `delAddr` loop, `UpdateSnapshot` and `UpdateState`.
  - `UpdateAddrBegin` bounds the number of calls by `MaxCalls`.
- **`ServiceView.tla`** is the abstract specification of a client.
  - One atomic `Update(si)` records `si` and makes the routed addresses exactly the admitted
    ones.
  - `UnifiedClient` instantiates it as `Abs` with `view <- si_map` and `routed <- Routed`.
  - `Routed` is the addresses of gRPC's last node list when no call is in progress. During a
    call it is the admitted addresses the call is bringing gRPC to.
- **`RegisterCenter.tla`** composes the protocol with the client through
  `UC == INSTANCE UnifiedClient`.
  - `Main` runs `Application.Start` (`phase`), `Checker` runs the check job, and `Handlers`
    serve Notify.
  - `ApplyInfo(t)` is `updateClient` for the next entry of a reply. The `todo` list is in
    the order the registry chooses.
  - `PingSend` marshals the status as it is at that moment. `CheckSend` copies `si_map`
    (`getWatchServiceInfo`). `CheckReply` applies the registry's list unless it replied `ok`.
  - `Quit` writes the status and `CronStop` stops the crontab; neither waits for a running
    job.
  - The registry is modelled from the specification (§4.6), because its code is not in this
    repository: `RegOnline`, `RegOffline`, `PingRecv` and `RegChange` (which sends a Notify
    when the gateway is registered).
  - Failures are `OnlineFail`, `OfflineLost`, `PingFail`, `CheckFail` and `NotifyLost`. They
    are bounded by `MaxFailures`, and registry changes by `MaxChanges`.
  - `siVer` records the registry version of each `si_map` entry. It is history only.
- **`Picker.tla`** models gRPC's READY set (`ready`), the current picker, and the last pick.
  - A SubConn is identified by its virtual-node key, and `NoConn` is the nil SubConn.
  - `ConnUp` and `ConnDown` rebuild the picker with `Build`. When nothing is ready, `Build`
    gives the error picker.
  - `addr2conn` may keep any SubConn of the address, because the range order over a Go map is
    unspecified.
  - `Pick` dispatches to `PickConsistentHash`, `PickRandWeight` or `PickSpecifyAddr`.
    `filterNode` accepts everything.
  - The ring is modelled from the package's specification, because its source is not in this
    repository. `Sorted` orders the keys by hash, and `GetN` scans from the first key at or
    after the query's hash, wrapping around. No `RECURSIVE` operator is used.
- **`HTTPMessage.tla`** models `common_request_v3` for the one route, `api_v1_web_download`.
  - Each request runs `RejectMethod`, `RejectParams` or `CallStart`, then `PickConn` (a pick
    on `P == INSTANCE Picker`), then `Reply` or `CallFail`, then `Respond`.
  - `Respond` follows the code's order of checks: the error, then the result code, then the
    literal `ok` body, then Unmarshal.
  - `written` is the sequence of responses a request got.
  - The SubConns change independently of the requests (`Conns`).
- The **`MC_*.tla`** modules give the constants: model values, small sets of addresses,
  callers, requests and ServiceInfos, and explicit hash values for the ring.
- **`UnifiedClientProofs.tla`**, **`UnifiedClientSerialProofs.tla`**,
  **`UnifiedClientRefinementProofs.tla`**, **`PickerProofs.tla`** and **`HTTPMessageProofs.tla`**
  hold the TLAPS proofs (section 6).

## 3. Runs

| Run | Instance | Checks | Result |
|---|---|---|---|
| `uc_serial` | 1 caller, 2 addresses, one weight each (a1 takes the default 2, a2 weight 1), 4 calls | `ResolverAgreesWithView`, `PushedMatchesNodes`, `RInv` (the refinement proof's inductive invariant), `AbsSpec` (refinement of ServiceView) | pass |
| `uc_concurrent` | 2 callers, 2 addresses, 4 calls | `AcceptedAddrsCovered`, `IInv` (the proof's inductive invariant) | pass |
| `uc_shrink` | 1 caller, 1 address, 3 calls | `VirtualNodesMatchLatestInfo` | violation |
| `uc_race_view`, `uc_race_push` | 2 callers, 1 address | `ResolverAgreesWithView`, `PushedMatchesNodes` | violation |
| `rc_converge` | 1 address, 1 handler, 2 registry changes, 1 failure | `SiMapConverges` | pass |
| `rc_revert` | as `rc_converge` | `NoStaleRevert` | violation |
| `rc_offline` | as `rc_converge` | `OfflineIsFinal` | violation |
| `rc_routing` | as `rc_converge` | `RoutingConverges` | violation |
| `picker_routing` | 2 addresses × 2 virtual nodes, 3 queries, ring of 8 | `PickHashNearest`, `SpecifyAddrRoutesToAddr` | pass |
| `picker_nilconn` | as `picker_routing` | `PickedConnIsReady` | violation |
| `http_answer` | 2 requests, 2 backends, Timeout 1000 | `ResponseReflectsCall`, `RequestAnswered` | pass |

What the passing runs show:
- **Resolver coverage.** Under any interleaving of callers, every address the resolver keeps
  has all of its virtual nodes.
- **Refinement.** With one caller and weights that do not change, `updateAddr` implements the
  atomic `ServiceView`.
- **Check convergence.** Notify requests may be lost or reordered, Checks may fail, and the
  Offline request may be lost. Even so, the periodic Check brings `si_map` back to the
  registry's view for good while the gateway serves.
- **Consistent-hash routing.** Under any sequence of SubConn changes, a consistent_hash pick
  goes to the ready key nearest clockwise to the hash. `Nearest` is the reference definition.
  It is computed from distances on the ring, not from the sorted scan.
- **Specified address.** A specify_addr pick of an address with a ready SubConn goes to that
  address.
- **HTTP responses.** Every HTTP request gets exactly one response, and OK only for a good
  call. The deadline answers every request even when no backend ever becomes ready or
  replies.

**Bounds.**
- Two callers and two addresses reach every pair of conflicting resolver operations.
- In RegisterCenter, one address is enough for the protocol questions:
  - two registry changes give a Notify that can be reordered against a Check reply built
    before it;
  - one failure can lose a Notify, a Check or the Offline request.
- The picker's hash values put keys of both addresses interleaved on the ring. A query falls
  exactly on a key (q2), and another falls past the last key, so the scan wraps (q3).

**Mutants.** Each property of a passing run is violated by a plausible bug in the code it is
about:
- `checkVersion` without the major-version check;
- `delAddr` not deleting the address record, and not calling `update()`;
- `setAddr` recording one node fewer;
- a Check reply that is not applied;
- the ring search skipping a key exactly at the hash;
- `addr2conn` filled regardless of the address;
- the response written without checking the result code;
- a context made without the route's deadline.

## 4. Findings

1. **Weight shrink leaves stale virtual nodes** (`UnifiedClient.go:151`, `uc_shrink`). If the
   address then goes Offline, it stays routed. This is why `uc_serial` fixes one weight per
   address: with weights that shrink, `updateAddr` is not the atomic step `ServiceView`
   describes, and TLC finds `AbsSpec` violated.
2. **The lock covers too little** (`UnifiedClient.go:135`, `uc_race_view`). Racing Online and
   Offline updates leave the resolver keeping an address that `si_map` marks Offline.
3. **Stale push** (`ServiceResolver.go:62`, `uc_race_push`). An older snapshot pushed last
   leaves gRPC with an outdated list.
4. **Check cannot repair routing** (`RegisterCenter.go:306`, `rc_routing`). Check reports
   `si_map`, not the resolver. After finding 2 the registry replies `ok`, and gRPC's node list
   stays wrong for good.
5. **Check can revert a newer Notify** (`RegisterCenter.go:352`, `rc_revert`). A reply built
   before a change, applied after that change's Notify, puts the older ServiceInfo back until
   the next Check.
6. **A heartbeat after Offline** (`RegisterCenter.go:110-111`, `rc_offline`). `crontab.Stop`
   does not wait for a running ping. A ping that marshalled Status Online before line 110
   reaches the registry after the Offline request.
7. **Nil SubConn for an unknown address** (`ServiceBalancer.go:131`, `picker_nilconn`).
   `PickSpecifyAddr` returns a nil SubConn with a nil error. gRPC then re-picks until the
   deadline instead of failing with a not-found error.

## 5. Fairness

- **UnifiedClient.** Weak fairness on each caller's steps inside `updateAddr`. Nothing there
  blocks except the short `rwlock`.
- **RegisterCenter.** Weak fairness on:
  - each goroutine that calls `updateClient`;
  - the Main goroutine's lifecycle steps;
  - the cron jobs (the timer fires every 3 s and 30 s while the crontab runs);
  - the registry serving Online, Offline and Ping (modelled from its specification);
  - the gRPC server taking Notify requests.

  Registry changes, the quit signal and failures are the environment's, and carry no
  fairness. `SiMapConverges` is stated under `<>[](phase = "serving")`, because a gateway
  that stops owes no convergence.
- **HTTPMessage.** Weak fairness on each handler's own steps, and on `CallFail`: the
  context's timer fires once the deadline passes. No fairness makes a backend answer or a
  SubConn become ready, so `RequestAnswered` rests on the deadline alone.
- **Picker.** No fairness. Its properties are action properties.

## 6. What is proved (TLAPS)

`UnifiedClientProofs.tla` proves the following under `InfoAssumption`, `WeightAssumption` and
`BoundAssumption`:
- `IInvariant`: `Spec => []IInv`.
- `TypeCorrect`: `Spec => []TypeOK`.
- `AddrsCovered`: `Spec => []AcceptedAddrsCovered`.

`AcceptedAddrsCovered` is not inductive, because inside a call a kept address can lack keys.
`IInv` adds `CoverInv`: every missing key of a kept address has a caller `Responsible` for it.
That caller is in the `delAddr` loop of the address, or in an `addNodes` loop that has not yet
passed the key.

`HTTPMessageProofs.tla` proves `ResponseCorrect: Spec => []ResponseReflectsCall` for any
requests, addresses, weights and ring, under `HTTPAssumption` and `PickerAssumption`.
- The strengthening is `HInv`. It holds `TypeOK`, `ready ⊆ Keys`, and a `Stage(r)` fact per
  handler location.
- The stage facts say that nothing is written before `done`, and that a sent request has a
  real SubConn.
- They also say that a failed call carries `ERR_Call_Service`. Without that, the error branch
  of `Respond` could write OK.
- `StepHInv` has one step per action, and `Respond` is split on its four branches.
- The picker needs no invariant. `PickConn` fires only on a pick that returns a READY SubConn.

TLC checks `IInv` in `uc_concurrent`. TLC checks `ResponseReflectsCall`, which `HInv` implies,
in `http_answer`.

### One caller of `updateAddr`

`UnifiedClientSerialProofs.tla` proves results for one caller (`Callers = {c}`), for any
addresses, ServiceInfos and weights. That is how the gateway uses the client when one
goroutine applies replies. With two callers the same properties fail: see runs `uc_race_view`
and `uc_race_push`. So the hypothesis is needed, not a convenience.
- `GateAgrees`: `checkVersion(v, relySemver)` holds iff the spec's `AcceptNode(v, RelySemver)`
  does, for every version. It rests on `RelyAssumption`: `Init` refuses an invalid configured
  version.
- `SerialInvariant`: `Spec => [](Typed /\ SerialInv)`.
  - An address no call is working on has the count `Target` that `si_map` asks for.
  - The working call's `pc` says which branch it took and what it has written.
  - Once the call returns, `pushed = nodes`.
  - `SerialStep` has one step per action. Each step shows that the other addresses keep
    their counts, and then follows the caller's own address.
- `ViewAgreement`: `Spec => []ResolverAgreesWithView`. It follows from `SerialInv` and
  `GateAgrees`.
- `PushedCurrent`: `Spec => []PushedMatchesNodes`.

`UnifiedClientRefinementProofs.tla` proves the refinement. It adds the hypothesis
`FixedWeights`: each address announces one weight.
- Without `FixedWeights` the refinement is false. Run `uc_shrink` shows why: a smaller weight
  leaves keys beyond the new count. A later `delAddr` then leaves the address routed although
  `si_map` rejects it.
- `RInvariant`: `Spec => []RInv`. `RInv` is `SerialInv` plus `NodesInv`.
  - `NodesInv` says that an idle address has exactly the keys `KeysOf(a, addrs[a])`.
  - Its `NodesLoop(t)` says how far the caller's `addNodes` loop or `delAddr` loop has got.
  - `RInv` is also checked by TLC in `uc_serial`.
  - `NodesStep` uses `KeysGrow` and `KeysShrink`: one loop turn adds or removes one key.
    Its `AddNodesSkip` case is vacuous, because `SerialInv` gives `addrs[a] = Weight` and the
    loop index is below it.
- `Refinement`: `Spec => AbsSpec`. The proof follows the TwoPhase pattern:
  - the initial states map to `Abs!Init`;
  - `RefineStep` maps each step under `RInv` and `RoutedAtRest'`.
  - `UpdateAddrBegin` is `Abs!Update(si)`, because `Routed` off quiescence is `Routable(si_map)`
    by definition.
  - The loop steps leave `si_map` and `Routed` unchanged.
  - `UpdateState` is a stutter by `RoutedQuiescent`. At rest, `pushed = nodes`, and an address
    has keys iff its count is non-zero (`KeysEmpty`), iff `si_map` admits it.

### The picker

`PickerProofs.tla` proves, for every set of addresses, keys and hash function:
- `SpecifyAddrCorrect`: `Spec => SpecifyAddrRoutesToAddr`. `SpecifyPick` shows that a picker
  built from a ready set with a key of the named address maps that address, in `addr2conn`,
  to a ready key of the address. The lemma `PickerBuilt` supplies the picker: gRPC rebuilds
  it from the READY set on every change of that set.

**Left to TLC.**
- The liveness properties: `SiMapConverges`, `RequestAnswered` and the two violated ones.
  TLAPS does not handle fairness or `ENABLED`.
- `AcceptedAddrsCovered` with several callers is proved. `ResolverAgreesWithView`,
  `PushedMatchesNodes` and `AbsSpec` are proved only under the hypotheses above. Under
  concurrent callers they are false.
- `PickHashNearest`. It rests on `Sorted`, a `CHOOSE` of the ring sorted by hash. Showing that
  such a sequence exists for every finite ring needs induction over the ring's size.
- Everything about the violated properties.

## 7. Not modelled, and why

- **The nil-resolver return** in `updateAddr` (line 138). gRPC calls the resolver's `Build`
  during `Dial` in `Init`, before `Online` delivers any ServiceInfo, so the running gateway
  never takes it.
- **Dead HTTP options.** `withCheckIP`, `withLBPolicy` and `withGroundRules` are commented out,
  so the IP check, the LB-key branch and the ground rules are unreachable.
  - `GetClientIP` cannot fail on a TCP connection: `RemoteAddr` is always `ip:port`.
  - The nil-argument check is not reachable from the route.
- **Data conversion.** `kvmap2pb.go`, JSON formatting and the logger are reduced to success or
  failure, or left out. No property depends on them.
- **`OnHello` and the unknown-service branch of `CallService`.** `OnHello` changes no state.
  The unknown-service branch is not reachable for the configured dependency.
- **The gRPC internals.** The lag between a resolver push and the SubConn state changes is
  gRPC's (`ServiceBalancer.go:34`). The picker is immutable and is swapped atomically, which
  `Picker` models.
- **The AddrLimiter.** It is a read-only allow-list lookup with nothing to interleave.
- **Config loading** (`LoadJson.go`, `main.go`). It is I/O at start-up only.
