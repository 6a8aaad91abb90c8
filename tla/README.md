# Link-Failover-Fabric: a verification project in TLA+

This directory holds TLA+ models of the coordinator (`lff-fabricd`), of the library beneath it,
of the client side of its protocol and of the worker that applies what it grants, TLC
configurations that check them on small instances, and theorems that TLAPS checks for all values
of the constants. `PROJECT.json` maps every
definition to the lines it models. Paths below are relative to the repository root; bare file
names such as `engine.cpp` are under `src/`, headers under `include/lff/`.

## 1. The system

### Parts, state, operations

| Part | State | Operations |
| --- | --- | --- |
| `Engine` (`engine.cpp`) | publisher registry, failure and replacement evidence, `last_observation_seq`, tick, `store_failed`; one mutex over everything | `publish_failure_report`, `publish_replacement_report`, `set_policy`, `set_topology`, `request_failover`, `record_application`, `record_verification`, `request_rollback`, `resolve_interrupted`, `checkpoint`, `open`, `close`; reads: `pending_directives`, `take_directive`, `inspect`, `explain` |
| `LineageStore` (`store.cpp`) | `DurableState`: epoch, policy, topology, attempts keyed by (subject, sequence), fences, idempotency index, decisions; sticky `failed` | `open`, `commit`, `checkpoint`, `fence_restart_authority`, evictions, queries such as `active_authority` |
| Journal, snapshot (`journal.cpp`, `detail/fsutil.cpp`) | `lineage.jrnl`, a staging journal, `lineage.snap` | append, replay with tail repair, rotation, atomic replacement |
| Selector (`selector.cpp`) | none | `select_replacement`, `validate_selection` |
| `Server` (`server.cpp`) | stop flag, registry of sessions and their socket handles, thread lists; one accept thread, one thread per session | `start`, `run`, `shutdown`, `request_stop`, `teardown`, `serve`, `handle_frame` |
| `lff-fabricd` (`tools/lff-fabricd.cpp`) | signal flag, watcher thread | main: start, run, join the watcher, close the engine |
| `Client` (`client.cpp`) | socket, handshake, incarnation, request sequence | `connect`, `refresh_handshake`, the calls, `close` |
| Wire (`wire.cpp`) | `FrameDecoder`'s buffer | `encode_frame`, `push`, message codecs |
| `lff-worker` (`tools/lff-worker.cpp`) | its place in the round, the directives claimed, an effect directory | claim up to 8 directives, write an effect file, report, read it back, report the verification; `--reject`, `--verify=false` |
| `lffctl` (`tools/lffctl.cpp`) | none | makes one call and prints the answer |

### How they interact

A client writes a frame; the session thread reads a chunk, cuts it into frames (`FrameDecoder`),
checks the session envelope (`handle_frame`) and calls `Engine`, which runs the handler under its
mutex. A handler appends records to the lineage one at a time; each append is durable before the
next. A worker polls for directives, brings them about outside the coordinator and reports back by
the same protocol, any time later; an operator tells the coordinator what became of attempts a
restart interrupted. Observers publish evidence over sessions of their own. Signals reach the daemon's watcher,
which calls `Server::shutdown`.

### What is hard

* A handler is atomic towards other handlers, and not towards a crash: a grant is three or four
  records, a redefinition two per grant fenced.
* An append may fail with the record on the medium or not.
* A restart must not forget a grant somebody acts on, and must not trust it either.
* Reports come late, twice, out of order, or from a process that has been replaced.
* All tables are bounded and evict, and other decisions rely on what they hold.
* Directives are copies: a worker may act on one after its attempt was fenced, rolled back or
  interrupted, two workers may act on the same one, and either may die between effect and report.
* Session ids start again with every boot; responses are matched to requests by position.
* Stopping involves four kinds of threads, a condition variable, sockets closed by one thread and
  shut down by another, and peers that may not read.

`hazards` in `PROJECT.json` lists them line by line, with the property that watches each.
What depends on sizes in bytes, power loss or platform limits is at the end of this file.

### What makes each part correct

* Attempts: at most one authority per link generation, bound to current definitions, durable when
  answered, never revived (repository README, invariants 1-10).
* Lineage: an append that succeeded is never lost, duplicated or reordered, and damage is refused
  rather than cut away.
* Workers: nothing is brought about without a durable grant, a committed attempt is in effect, and
  every directive is answered while a worker is there.
* Evidence: verdicts depend on what publishers last said and not on how it was delivered.
* Selection: the objective is a strict total order; infeasible is claimed only on evidence.
* Daemon: a requested stop ends it once no answer is stuck on its way to a peer, with everything joined, closed and unused.
* Sessions: a request runs once, in the session it was made for; every call returns,
  unless nothing is left to take its connection from the backlog.
* Frames: what is decoded follows from what has arrived, and chunks matter to overflow only; memory is bounded.

## 2. Modules

| Module | Models | Used by |
| --- | --- | --- |
| `AttemptPhases` | sets of attempt phases (`attempt.cpp`) | `Coordinator` |
| `Coordinator` | engine handlers over the lineage, crash and restart | `Applier`, `MCCoordinator`, `CoordinatorProofs` |
| `Applier` | workers and an operator composed with `Coordinator` | `MCApplier`, `ApplierProofs` |
| `DurableLog` | what the store promises, abstractly | `Lineage` |
| `Lineage` | journal, snapshot, compaction, recovery | `MCLineage`, `LineageProofs` |
| `Selector` | the selector as operators | `Selection`, `Evidence` |
| `Selection` | every bounded request to the selector | `MCSelection`, `SelectionProofs` |
| `Evidence` | evidence tables, failure verdict, candidate resolution followed by `Selector` | `MCEvidence`, `EvidenceProofs` |
| `Server` | the daemon's threads, start to end | `MCServer`, `ServerProofs` |
| `Session` | `Client` and `handle_frame` over coordinator restarts | its run, `SessionProofs` |
| `Frames` | `FrameDecoder` | its run, `FramesProofs` |
| `...Proofs` | theorems about the module of that name | `CoordinatorProofs` by `ApplierProofs`; `SelectionProofs`, which has the selector's too, by `EvidenceProofs` |

A definition such as `Holders_InFlightOnly`, just above `Holders`, is a seeded fault: `Holders` the
way a plausible bug would write it. No specification uses one; each is there to show that a
property fails when the code is wrong in that way.

### Coordinator

`mem` is the in-memory `DurableState`, `durable` what a replay of the medium would give. Since
every public method of `Engine` holds one mutex, a handler is one action; since its appends are
separate, the action builds the chain of lineage states its appends go through and `Handler` chooses
the end: all written, death after any of them, or failure of any of them with the record on the
medium or not. `HandlerMayCompact` adds `maybe_checkpoint`, with its own failures. `Open` replays,
writes the boot record and runs the restart fencing pass, which can be interrupted too. `Openable`
carries over two facts established in `Lineage`: an uncovered fence, or a journal left behind by
its snapshot, keeps the lineage from opening (section 6).

`standing` and `acked` are history: grants as callers know them, independent of the tables. The
evidence verdict and the chosen alternate are inputs (`Evidence`, `Selector`), so a request may be
refused, left indeterminate or granted at any time. Requests that return before any append are not
actions.

### Applier

`Applier` extends `Coordinator`: the coordinator's own actions are taken over unchanged, except
that reports of the application and of its verification are made by workers only, and verdicts by
an operator. `worker[w]` is a process of `lff-worker` with its place in the loop, its options, the
boot it is connected to and what is left of the directives it claimed; `effects[w]` is its effect
directory, which outlives it and is its own. A directive is the attempt and the generation it was
made for, which is what the effect file is named after. The file is opened, which truncates it, in one
step and written in another. A call and its answer are one step: a worker that waits does nothing
else, so dying before the answer arrives and dying just after it look the same to everybody.

The operator's verdict is true when it is given, and Applied and NotApplied are given only when the
workers that served earlier boots are gone (`Settled`). The coordinator checks neither. Without the
second, a worker that claimed before the restart may write its file after the verdict, and
`DeniedHasNoEffect` fails.

`redone` is history: directives whose effect file was truncated by a second attempt to write it.

### Lineage and DurableLog

A `DurableState` is represented by the sequence of records it is the fold of. `checkpoint` takes
four steps with a crash possible between any two: snapshot, staging journal, rename, Checkpoint
record. Files are absent, shorter than their header, or whole with an optional torn record. `Decay`
damages one record or the snapshot at any time: it is there in full and fails a check. `Replay` refuses
such a journal as a whole; only an incomplete end is cut off.
`DurableLog` is an append-only log whose failed last append may or may not surface at the next
start; `ImplementsDurableLog` maps its log to the state in memory while the store is open, and to
the replay of the medium otherwise.

### Evidence, Selector, Selection

`publish_failure_report` and `publish_replacement_report` are one action, `Publish`, over a report
of either kind, as they share registry, sequence and counter. `set_policy` may change the
policy at any time, but neither the tables nor what they accept depend on it: a deployment, chosen initially,
has one policy, under which its tables are judged in every state. `heard` is history: every
report delivered with the tick it first arrived; `Testimony` reads the publishers' last words from
it alone, and the properties compare the tables' verdicts with that. A report that a later one of
either kind on the same link has overtaken does not count as said, because the sequence is shared. `Resolved` is the candidate
resolution in `request_failover`, and `Assess` is the selector's. `Scan` is the selector's loop, a
recursive function over the candidates in link order.

### Server

A step is one critical section or one access to shared data, for `main`, the watcher, the accept
thread and each session thread. The descriptor table is explicit, with reuse of closed
descriptors, the listener's included, and so is the interval in `request_stop` between loading a
session's handle, or the listener's, and shutting it down. A `send` that has begun (`InSend`) may block on a peer
that does not read. Shutting the socket down may release it or not, which depends on the platform; a `send` begun
afterwards fails at once. The accept loop gives up after too many failures in a row (`AcceptRepeats`).

### Session

Connections are numbered, and a client makes a new incarnation with each. `told` in an envelope
is history: the connection over which the client learnt session and epoch. `Stray` and `Stranger` put
frames seen before on any connection. Client errors keep or destroy the `Client` object as in
`client.cpp`: a failed `connect` destroys it, a failed `call` or `refresh_handshake` leaves it usable.
`accepting` says that the accept loop runs: it gives up after eight failures in a row (`AcceptEnds`), and the listener stays
open, so that connections still reach the backlog and are not served before the next boot.
`ping` copies epoch and coordinator from its answer (`client.cpp:407-414`). The model leaves this out: an answer to an accepted ping repeats
the epoch the client has, and a refused one has no body. The late answer of a call given up, read in its place, can
at most make the coordinator refuse what follows.

### Frames

A stream is a sequence of frames, each with the position it ends at, and sound or bad in its header or
checksum; `Push(n)` gives the decoder the next `n` bytes. Whatever follows a bad header counts as further
frames, as the decoder looks at none of it. `waits` is history: no frame was sent before the one before it had been
delivered.

## 3. Runs

`tlc -workers 2 -config <run>.cfg <module>`; modules are listed in `PROJECT.json`.

| Run | Shows |
| --- | --- |
| `coordinator_generations` | One link, one policy, which requires verification, three topologies of which the last advances the link generation, three boots, one idempotency key. `SingleWinner`, `StandingIsActive`, `OneClaim`, `LiveBinding`, `AckedDurable`, `GrantedOnce`, `NoResurrection`, `TypeOK`. |
| `coordinator_small_table` | Two links, one of which leaves the topology, and `MaxAttempts` below the number of possible records: evictions keep `AttemptsBounded`, and redefinitions, of the policy too, fence both links' grants (`LiveBinding`). |
| `applier` | Two workers in any of their modes, a policy that verifies and one that does not, two boots, one operator: `NoStaleDirective`, `EffectHasGrant`, `CommittedHasEffect`, `DeniedHasNoEffect`, `ApplierTypeOK`, and the liveness property `PendingAnswered`. |
| `lineage` | `Contiguous`, `MemoryMatchesMedium`, and refinement of `DurableLog`, with damage to any record or to the snapshot. |
| `selection` | All requests with up to three candidates drawn from sound, tied and flawed ones: `SelectionValidated`, `ObjectiveTotal`, `InfeasibleCertified`. |
| `evidence` | Five deployments: rival processes at a full registry and table; a unanimous policy with a topology change; a majority of three; an alternate's offers; a link with reports of both kinds. `EntriesCounted`, `OnlyCurrentProcesses`, `EstablishedByTestimony`, `AlternatesByTestimony`. |
| `daemon` | With and without `--exit-after`: `EngineOutlivesThreads`, `SessionsBounded`, `DescriptorsOwned`, `ListenerNotRecycled`, and the liveness property `Stops`, for behaviours in which no `send` stays blocked on a socket that was shut down. |
| `session` | `RunsWhereMade`, `RunsOnce`, `AnswerIsOwn`, and the liveness property `CallReturns`, which excepts a handshake left in the backlog by an accept loop that has ended. |
| `frames` | `BufferBounded`, `SoundNeverRefused`, and `DecodingFollowsArrival`: what was handed over and what was rejected is what the bytes received so far call for, and an overflow means that more than one frame had arrived. |
| `eviction`, `fence_replay`, `rotation_crash` | Violations: what the repository says and the code does not do (section 6). |

Deadlock checking is off in every run, because every model may really stop: bounds are reached, the daemon ends, a
lineage may have become impossible to open.

### Bounds and why they are enough

* Coordinator: two attempts per generation and three boots allow grant, crash, revalidation,
  grant, crash, revalidation. Three topologies distinguish a change that keeps the link's
  generation from one that advances it. A fence table of one entry makes every second fence evict.
  Links do not interact except through the bounded tables and the fencing pass, which two links
  exercise; therefore the other runs use one link.
* Applier: one attempt in each of two boots, two workers. The directive of the first boot can be claimed
  by both, reported by either, interrupted, and still be in a worker's hands when the second boot
  serves; each directory can hold its effect. With one link and one attempt per generation at most
  one directive is pending, so that the order and the limit of a claim are not exercised: they
  decide which directives come first and change nothing in the tables.
* Lineage: six records allow two complete compactions with appends before, between and after, and
  a failure in the second.
* Evidence: four or five ticks with a window of two let a report expire while a later one is current.
  Two sequence numbers, two processes in succession, and a rival claiming the second's epoch cover the
  cases of `Recognised` and `Advances`. Three sequence numbers over two kinds let a report be superseded
  by one that is itself overtaken. In `contended` the second publisher exists to be refused.
* Server: two connections with `max_sessions` 1 make one wait, be rejected or reuse the other's
  descriptor; two requests reach the budget of `--exit-after=2`.
* Session: two connections, two boots, two calls, two strays give one reuse of a session id across
  boots, with a replayed request of each.
* Frames: header and payload of two bytes each and chunks of four cut a frame at every position and put up to two
  frames in one chunk.

### Fairness

`Server`: weak fairness for each thread, which is what the operating system's scheduler gives a
runnable thread. `accept` and `select` return because the code gives `select` a timeout. Nothing is assumed of
peers, nor of a `send` in progress: it may drain, fail, or block for ever, after the socket was shut down too. `Stops` says as a premise that none
blocks for ever on a socket that was shut down, which the platform or the peer has to see to (section 6). `registry_mu` is
taken with weak fairness only: it is free again and again but its holders are finitely many stops.

`Session`: weak fairness for the server's work on each connection and for the client's receive.
Once the accept loop has ended, no fairness takes a connection from the backlog.
Crashes, restarts, calls and failed receives are never assumed to happen.

`Applier`: weak fairness for each worker's own steps: a running process is scheduled, and the
calls it makes return (`Session`'s `CallReturns`, whose exception is about handshakes, and `PendingAnswered` about workers that are connected). Nothing makes a worker start, stay up or remain
connected, the coordinator restart, or the operator speak; `PendingAnswered` is stated for behaviours in
which some worker does stay connected.

`Coordinator`, `Lineage`, `Evidence`, `Selection` and `Frames` are checked for safety only.

## 4. Proofs

`tlapm <module>.tla` checks a module's proofs. The theorems hold for every value of the constants that
satisfies the module's named assumptions, which TLC evaluates in the runs; where a theorem needs
more, it says so as a hypothesis. Each inductive invariant was checked by TLC before it was proved.

### Coordinator

For every finite set of links (natural numbers), every sequence of policies and topologies, and all
limits and bounds on boots.

* `TypeCorrect`: `Spec => []TypeOK`. Besides shapes, it says that fences and idempotency entries stay
  within their limits in memory and in what a replay rebuilds. `TypeOK` is inductive. `TypeChain`
  shows that every state a handler's appends go through is a lineage state, and `Outcomes` that each
  way a handler can end picks states of its chain; together they give `TypeNext` action by action.
* `LiveBindingHolds`: `Spec => []LiveBinding` (invariant 9 of the repository's README). `LiveBinding`
  is not inductive: it says nothing of a stopped coordinator, from whose lineage the next one
  starts, and nothing that keeps an old attempt from having the next epoch. The inductive
  invariant `LiveInv` adds `TypeOK` and `EpochsWithin`, that no attempt, in memory or on the
  medium, is from an epoch beyond the lineage's. The argument: a redefinition fences every holder
  before the chain ends (`FencedAllHolders`), so the new definition has no holders left; a boot
  advances the epoch, so that by `EpochsWithin` no replayed attempt is current (`OpenLive`); a grant
  and an Applied verdict bind to the current definitions; any chain that stops early either ends
  the process or closes the store (`LiveChain`).
* `AttemptsBoundedHolds`: `Spec => []AttemptsBounded` (invariant 10). `evict_attempts` erases terminal records
  only, so the bound rests on how many records can be in flight: one per link, for which `LimitsAssumption`
  leaves room. The inductive invariant `SparseInv` is `LiveInv` with: at most one attempt of a link is in flight
  (`OneFlying`), what is in flight has the generation of the topology it names (`FlyingBound`), and between requests
  everything in flight is past its intent and of the current epoch (`Ready`). A request that reaches evaluation
  then finds nothing in flight for its link (`NoneFlying`: it would be a holder, bound by `LiveInv` to the current topology,
  hence of the current generation, hence in `active_authority`). `EvictionFits` is the counting argument: if a
  terminal record is left, the first one left has at least the excess before it, and all of that was erased.

The next six have hypotheses. `Roomy`: the attempt table has a place for every attempt identity, so nothing
is evicted. `Advancing`: the generation of a link does not go back from one topology to the next that has
the link. Both hold in the run `coordinator_generations`, which checks the same properties. Neither can be
dropped: the run `eviction` shows a standing attempt that `active_authority` no longer finds, its committed
record evicted, and `set_topology` compares the generations of topologies, not of their links, so an operator can return to a generation whose records
are still in the table. `GrantedOnceHolds` needs `Ample` too, an index with room for every key.

* `SingleWinnerHolds`, `StandingIsActiveHolds`, `OneClaimHolds`, `AckedDurableHolds`, `GrantedOnceHolds`
  (`Spec => []...`) and `NoResurrectionHolds` (`Spec => NoResurrection`, an action property), all from
  `AuthorityInv`. It has three parts.
  `LineageInv`: memory and medium are `Orderly`, and while appends succeed they are equal and `Ready`. A lineage is
  orderly when every slot is empty or of a generation that some topology so far gave its link (`Generated`), the
  generations of a link do not rise with the sequence number (`Layered`), a claim is the latest attempt of
  its generation (`ClaimIsLatest`) and no key is indexed twice (`IndexedOnce`). This is what makes
  `count_attempts + 1` a slot that holds an older generation or none, and what makes the two checks of `request_failover`,
  `active_authority` and `interrupted_attempt` of the latest attempt only, enough (`NoClaims`, `NewAttempt`).
  `StandingInv`: what was granted or re-bound in this boot is active in the table, or superseded in its slot by a newer
  generation, and no later attempt is of its generation (`Stands`).
  `AckedInv`: what callers were told is on the medium (`Remembers`), once.
  For each request `Outcome` says how it continues the lineage, whatever append fails (`Continues`), and `Takes` or `Gives`
  what it does to the history; `ServesKinds` collects the requests, and `LineageNext`, `StandingNext` and
  `AckedNext` need no more of them than that.

### Applier

For any number of workers, any claim limit, and everything `Coordinator`'s theorems are general in.

* `ApplierImplementsSpec`: `ApplierSpec => Spec`, where `Spec` is `Coordinator`'s. Workers' reports and an operator's truthful verdicts are
  requests the coordinator serves anyway, so that all theorems above hold of the composition.
* `ApplierTypeCorrect`, `CommittedHasEffectHolds`: without hypotheses, from `WorkInv`. `CommittedHasEffect` is not inductive: that a report commits
  only what is in effect depends on where the worker is. `WorkInv` adds `LoopInv` (an effect is in place from writing it to reporting it; a process
  that has exited holds nothing) and `BootKnown` (nobody is connected to a boot that has not begun, and memory and medium agree on the epoch).
  `Leaves` sums up what a request may do to a record, `WorkerStep` what a worker's step may do to its process and directory, and
  `CompositionSteps` that every step is one of each.
* `NoStaleDirectiveHolds`, `EffectHasGrantHolds`, `DeniedHasNoEffectHolds`: under `Roomy` and `Advancing`, which hold in the run `applier`, from `HandInv`. It
  relates what is in a worker's hands, in its directory, in memory and on the medium: whatever is in hand or in effect has its grant on the
  medium (`WorkRemembered`); what is pending was granted in this boot and the medium, ahead by a record after a failed append, holds no verdict on it
  (`PendingGranted`); what is interrupted is of an earlier boot (`InterruptedEarlier`); what was denied is in nobody's hands and not in effect
  (`DeniedIsOver`). The last is inductive only together with `NoStaleDirective`: a verdict is given on an attempt of an earlier boot once the
  workers are of this one (`DenialIsSafe`), and nothing that carries a verdict is offered again.

### Lineage

For every set of records and any number of appends, compactions, crashes and damages.

* `LineageTyped`, `ContiguousHolds`, `MemoryMatches`: the three invariants of the run. Together they
  are not inductive: between the four steps of `checkpoint` the process relies on what the earlier
  ones left behind. `Underway` says what that is: the snapshot covers all that is in memory once it
  has been replaced, and the staging journal is empty and based at it.
* `Refinement`: `Spec => ImplementsDurableLog`. The argument is about replay. A journal whose records lie
  at the positions after its base, and whose base and end enclose the snapshot's watermark, replays to the
  snapshot's state followed by a suffix of its records (`BeyondSuffix`, `ReplayedProperties`); an append adds
  one record to that (`ReplayedAppend`); the snapshot, the rotation and the rename change the files and not
  the replay (`ReplayedAlike`, `ReplayedCovered`). Hence each step of a compaction stutters in
  `DurableLog`, an append is its append, and a crash its crash.

### Selector, Selection

* `AssessmentSound`: for every candidate, `assess_candidate` answers eligible or disproven only on
  current, agreeing evidence of the confidence required, and disproven with a conclusive reason. It is a fact about the
  twelve tests in their order (`FirstTestDecides`): what an early test lets pass is what a later one relies on.
* `ObjectiveIsTotal`: `objective_better` is total and transitive on the candidates of a request, from
  `ObjectiveDecides` and `ObjectiveTransitive`. It needs that no two candidates of a request have the
  same link, and links are ordered.
* `InfeasibleIsCertified`: follows from `AssessmentSound`.
* `SelectionIsValidated`: whatever `select_replacement` answers, `validate_selection` accepts, for requests of any length. The candidates
  can be listed in link order (`ListedInOrder`), the loop over the list has a result (`TurnsExist`), and after every turn the choice is no worse than any
  candidate seen (`TurnsKeepBest`, from the order's totality and transitivity).

### Evidence

* `EntriesAreCounted`, `OnlyCurrentRetained`: from `EvidenceInv`, which adds that what is retained is a
  report received at some tick so far. `ReplaceCounted` is the arithmetic of the counter.
* `EstablishedAsTestified`, `AlternatesAsTestified`: the verdicts from the tables are those of the
  testimony, for finitely many possible reports and publishers whose processes differ in their epochs
  (`OneProcessPerEpoch`; the run's rival process, which claims a used epoch, is in a deployment where the properties make no
  claim as its tables overflow). The invariant `VerdictInv` characterises all tables by `heard`, the reports delivered:
  a stamp is heard once, the registry has the latest process of every publisher, `last_observation_seq`
  the highest sequence of that process, and the table exactly the reports that were not overtaken when they arrived
  and not superseded since. `TestimonyIsTable` then identifies what is retained and in force with `Testimony`.

The proof attempt of the last corrected the property: where the policy admits degraded links, `AlternatesByTestimony`
has to allow for an alternate about which all say Degraded.

### Server

For any number of connections, descriptors and requests.

* `EngineOutlives`, `SessionsStayBounded`, `DescriptorsAreOwned`, `ListenerKept`: from `ServerInv`. Its heart is
  `Torn`: both `main` and the watcher may tear down, the second to come returns at once, and
  may not conclude from that that the first is through. The invariant says who is past the test of
  `torn_down`, how far the joins are, and what has been joined; `Joinable` that every running
  thread is one that teardown will join; `Owned` that descriptors and handles name each other although closed
  descriptors are reused.

### Session

For any number of clients, connections, boots, calls and frames repeated or misdirected.

* `RunsWhereMadeHolds`, `RunsOnceHolds`: from `SessionInv`. A session id names one connection within an
  epoch (`Ids`, `Grants`), envelopes on the way and in the hands of anybody claim only sessions so named (`Claimed`),
  a connection made by a client is opened with its own Hello (`Own`), and a session
  remembers the last sequence it ran (`Remembered`). Epochs matter because ids start again with every boot.
* `AnswerIsOwnHolds`: from `AnswerInv`: on a connection that only its client writes to, and where
  no call was given up, there is one question at most on its way in either direction (`Exchange`),
  and no two clients use one connection (`Separate`).

### Frames

For any sizes of header, payload and chunk, and streams of any length.

* `BufferIsBounded`, `DecodingFollows`, `SoundStreamsPass`: from `FramesInv`. None of the three properties says where in the stream the
  decoder is. `NextFrame` does: a decoder that goes on has the next frame incomplete and nothing wrong with what it has of it; one that
  rejected a frame rejected the next one, whose fault shows in what has arrived; one that overflowed has received all of the next frame and bytes beyond it. `Spaced` says that frames lie one behind the other, each of at most the largest size, `Within` that
  what was handed over is sound and has arrived, `OneAtATime` that a waiting peer has one frame on the way. `ReachesFacts` is what one call of `push` does.
  `DecodingFollows` then compares the decoder's place with the first bad frame (`LeadingFacts`) by the order of their ends (`EndOrder`).

### How induction over data is done

The loops (`Scan`, the order of a claim, the frames of one `push`) need facts for lists of any length. Where such a fact needs induction, the proof takes the least
position at which it fails (`LeastOf`, `LeastIn`, from the well-foundedness of the naturals) and derives a contradiction there; recursive
functions are shown to exist in the same way (`TurnsExist`).

### What is only model-checked

Liveness: `Stops`, `CallReturns`, `PendingAnswered`. Fairness and `ENABLED` are out of the prover's reach. Every safety property that a
passing run checks is stated by a theorem; the hypotheses some of them need are given above.

## 5. Plan

Done: `AttemptPhases`, `Coordinator`, `Lineage` with `DurableLog`, `Selector`, `Selection`,
`Evidence`, `Server`, `Session`, `Frames`, `Applier`, and the theorems of section 4. The order was by
what a mistake costs: authority and its durability first, then the evidence it rests on, then transport,
then the effects outside.

Next: what of the single-winner argument survives eviction, that is, which records an eviction may take without harm, so that
`Roomy` can be weakened.

## 6. Where the code and what is said of it differ

With a run that shows it:

* `eviction`: `evict_attempts` (`store.cpp:382`) erases terminal records, and Committed is terminal
  although it holds authority. At `max_attempts` a standing grant leaves the table and its link
  generation can be granted again.
* `fence_replay`: a Fence payload is encoded with sequence 0 before `commit` assigns its position,
  and replay requires the two to be equal (`store.cpp:502`). A lineage with a fence beyond its
  snapshot is refused at open; a clean close, which ends in a checkpoint, covers it.
* `rotation_crash`: after a crash between the snapshot and the journal's rotation,
  `JournalWriter::open` (`journal.cpp:311`) refuses the journal, whose base is not the snapshot's
  watermark; the comment at `store.cpp:889` says that replay skips the covered prefix.

Met while modelling. The models keep the behaviour, and the properties state the condition under
which the promise is kept:

* A fencing pass that stops at a failed append leaves the remaining grants in memory under the old
  definition (`engine.cpp:834`); `LiveBinding` is stated while the store accepts appends.
* A crash between the two records of the restart pass leaves an Interrupted attempt whose fence is
  never written (`store.cpp:932`).
* The index entry is appended after the grant and its failure is not reported (`engine.cpp:205`): the
  same key can then be granted again. `GrantedOnce` is stated for keys whose entry was written.
* Records are keyed by (subject, sequence), so the first attempt of a new generation replaces an
  Interrupted one of the old (`store.cpp:421`). `AckedDurable` and `NoResurrection` allow for it.
* A Committed attempt of an earlier boot does not exclude a new grant: `active_authority` compares epochs. That is the
  design: after a restart nothing is authoritative until it is granted or revalidated.
* The objective compares generations before names (`selector.cpp:79`); `selector.hpp:28-29` gives
  the opposite order.
* Reports refused for lack of room still create a key in the evidence map (`engine.cpp:623`).
* An unqualified first observation can mark a candidate conflicted (`engine.cpp:1144`), where
  `selector.hpp:77-78` speaks of qualified ones only. It errs towards refusal.
* `request_stop` may shut down a descriptor that has been closed and reused since its handle was read
  (`server.cpp:122`); `docs/CONCURRENCY_AUDIT.md:162` calls the worst case a no-op.
* With `--exit-after`, a signal ends the watcher without a shutdown (`lff-fabricd.cpp:270`), after
  which neither the signal nor the budget stops the daemon. `Stops` excludes that signal.
* Sound frames that arrive together can exceed the bound meant for one (`wire.cpp:145`).
  `SoundNeverRefused` is stated for a peer that waits for answers, and `DecodingFollowsArrival` says what else an
  overflow implies.
* The comment in `request_stop` (`server.cpp:119-120`) says that shutting the sockets down leaves no thread waiting on one. The
  repository's README (382-385) and `docs/CONCURRENCY_AUDIT.md` (66-70, 159) say that a blocked `send` is not forcibly
  interrupted. The model takes the second as true, and `Stops` has the premise that such a `send` ends.
* The accept loop gives up after eight failures in a row (`server.cpp:633`, `:647`), for example for want of descriptors, and the
  listener stays open while the daemon runs on. A client can still connect, and its handshake waits until the daemon
  ends. `CallReturns` excepts it.
* A `call` that fails after its send leaves its answer in the stream for the next one
  (`client.cpp:150`). `AnswerIsOwn` excludes such connections.
* A failure report overtaken by a replacement report of the same publisher is refused, and the older
  failure report stays the publisher's last word (`engine.cpp:612`), although the two kinds are kept
  apart everywhere else.
* A verification is accepted from any client that knows the attempt (`engine.cpp:1569`): neither the
  applier bound by the acknowledgement nor the authority vector is compared. `lff-worker.cpp:9-11` says
  that the coordinator refuses anything else, and `engine.hpp:64-66` that the applier must present
  the same authority vector; the reports have no field for it.
* `pending_directives` offers Authorized attempts even when the store has failed (`engine.cpp:1968`).
  If the failed append had put a Committed record on the medium, a worker that claims the directive
  again truncates the effect in place (`lff-worker.cpp:77`) and may die before writing it.
  `CommittedHasEffect` excepts files that were opened twice.
* An attempt whose worker died between acknowledging and verifying is offered to nobody
  (`engine.cpp:1980`): it waits for a rollback, a redefinition or a restart.
* A worker takes every decision for an acknowledgement, a Conflict included (`lff-worker.cpp:214`), and
  prints so.
* Compaction is triggered by the records since the open (`store.cpp:801`), not by those in the
  journal. A coordinator that is killed again and again before `snapshot_every_records` records, by
  default 1024, never compacts; the repository's README (365-367) gives compaction as the journal's bound. Beyond
  `kMaxJournalBytes` replay refuses the file.
* `checkpoint` does not compare the snapshot with `kMaxSnapshotBytes` before it replaces the old one
  (`store.cpp:880`), and `open` does; full tables of long entries exceed it.
* The first boot's policy and topology are its options (`store.cpp:707`) and reach the medium with the
  first checkpoint or redefinition. After a crash before that, the next boot uses the options it is
  given, whatever their generations. Every boot of `Coordinator` has the same options.
* The threads of finished sessions are joined at teardown only: `reap_finished_sessions`
  (`server.cpp:182`) erases the sessions and leaves `session_threads` to grow.

## 7. Not modelled

* Message codecs, hashes, identifiers, name tables, the version: pure functions without state.
* Option parsing and `lffctl`, which makes one of the requests the modules have.
* Power loss: the death of a process keeps what was renamed, and no directory is ever synced. What a
  file system may undo is not the program's to say.
* Sizes in bytes, of the journal, of the snapshot and of entries.
* Workers that share an effect directory, which the repository's README (318) rules out.
* The wording of certificates, explanations and decisions, and decision history beyond its place in
  the order of appends.
* Structural validation of requests: it returns before anything changes.
* Numeric descriptor values, and so `FD_SETSIZE`.
* Counter overflow: the generations, epochs and sequences are checked 64-bit counters.
