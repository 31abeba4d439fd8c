# Chau7: a TLA+ development

Chau7 is a terminal for macOS with coding agents in its tabs. This project
models three parts of it that hold state across threads, processes and crashes:

* *remote control*: a phone watches the terminals of a Mac, types into them, and
  allows or denies the commands that agents ask permission for; four processes,
  two of them concurrent inside, connected by links that drop;
* *session restore*: windows, tabs and terminal texts are saved by a writer
  thread and found again after a quit or a crash;
* *runtime sessions*: an orchestrator drives an agent in a tab through MCP calls,
  while the agent's hook events, a monitor and the user do things of their own.

The remote part is this chain; the other two live in the Mac app.

    Mac app (Rust)  --IPC-->  relay helper (Go)  --WebSocket-->  relay (Durable Object)  --WebSocket-->  phone (Swift)
    RemoteHost                Agent                              SessionDO                              RemoteClient

## 1. Inventory

Paths are relative to `src/`.

### Modelled parts

| Part | Source | State | Operations | Talks to |
| --- | --- | --- | --- | --- |
| Relay helper, session | `services/chau7-remote/internal/agent/agent.go` | key, the two HELLO nonces, current identity and peer, `sessionReady`, provisional pairing with its 60 s, pairing code, refusal counter and lockout, paired devices in memory and in the state file | dial/close the relay, HELLO, PAIR_REQUEST, SESSION_READY, CLIENT_STATE, save, revocation, restart, code refresh | relay by WebSocket, app by IPC |
| Relay helper, sealed sends | same | `sendSeq`, `maxReceivedSeq`, `encryptedRelaySendMu`, `sessionMu` | `sendEncryptedToRelay`, `decryptPayload` from the *relay* and the *ipc* goroutine | both |
| Relay helper, pending store | same | pending approvals and prompts, epoch, version | update, clear, copy, number and POST a snapshot | relay by HTTP, app by IPC |
| Relay | `services/chau7-relay/src/session.ts` | one socket per role; the last snapshot | forward a frame or drop it; store and return the snapshot | helper, phone |
| Phone, session | `RemoteSessionController.swift`, `RemoteReplayGuard.swift`, the handshake part of `RemoteClient.swift` (all under `apps/chau7-ios`) | key, nonces, replay guard, retry, timeout and reconnect tasks, stored trust | connect, retry, time out, HELLO, PAIR_ACCEPT, PAIR_REJECT, SESSION_READY, undecryptable frame | relay |
| Phone, transport | `RemoteTransport.swift`, `RemoteClient.processIncomingMessage` | socket generation, decrypts under way, outgoing frames | open, close, detached decrypt, fenced completion | relay |
| Phone, approvals | `PendingStateReconciler.swift`, `ApprovalCoordinator.swift`, `RemoteClient.swift` | cards, queued/sending/deferred answers, local resolutions, fetch fence, last epoch and version | upsert, snapshot fetch and merge, answer, flush, drain | relay |
| Session restore | `session_store.rs`, `restore.rs`, `restore/writer.rs` under `apps/chau7-next/crates/chau7_next/src`, `session_restore/*.rs` under `chau7_next_core/src` | canonical scrollback files, sidecars named by hash, bundle, index, latest.json, archives; the ledger of captured texts; the writer's one-place queue; the store lock | capture, submit, commit, back up, prune, load, close/reopen/activate a tab, Reset Window Positions, quit | tabs and windows on the UI thread, a writer thread, the file system |
| Runtime sessions | `runtime/*.rs` under both crates | session state, current turn, pending approval, initial prompt, journal; the manager's active sessions | send a turn, respond to an approval, stop, hook events, monitor, clean-up | MCP threads, the main thread, the agent in the tab |
| Mac app, approvals | `remote/host.rs`, `remote/mod.rs`, `remote/ipc.rs`, `mcp/approval.rs` under `apps/chau7-next/crates/chau7_next/src` | the request the app waits for, approvals the host keeps, whether a helper is connected | ask, answer on the Mac, take the phone's answer, stop, start and lose the helper, resend to a new session or helper | helper by IPC |

What is hard here: frames are lost whenever a peer is absent and a replaced
socket swallows what it was handed; either end may re-key while frames of the
old epoch are in flight; two phones may fight over one relay slot; the helper's
two goroutines share a counter, a socket and the session fields, and ask and use
them under separate locks; the phone's decrypts and fetches finish after an
`await` in a world that may have moved on; the same approval list reaches the
phone over two channels of different age; the helper may restart with nothing
but its state file, which the app rewrites when a device is revoked. The restore files are written by two threads, one step at a
time, and the process may end or a write fail after each step; a text may be
captured, closed or reopened while an older one of the same pane is committed. A
session's turn may be completed by a hook event, by the monitor or by a failing
delivery on another thread, and keys reach the agent before the app's own state
follows. PROJECT.json lists these as hazards, each at its line.

What makes the parts correct:

* the helper's key belongs to the identity it names, only an identity that
  proved its key becomes trusted, and only a trusted one gets a live session;
* after any faults both ends converge on one confirmed session;
* no AEAD nonce is used twice, no authentic frame is taken for a replay, and
  input reaches the app only in a confirmed epoch;
* an answer the user gave is neither lost nor claimed to be on its way when it
  is not, and a request the Mac blocks on is settled or shown in the end;
* a launch finds the last acknowledged capture with its texts, wherever the
  process ended, and quitting ends with the final capture on disk;
* a turn ends exactly once, an approval that is shown can be answered, and
  nothing is typed before the agent is there to read it.

### Parts that are not modelled

Push notifications and APNs token broker, relay admission (tokens, nonces, rate
limit), viewer sharing, tabs/grids/output and protected inputs of the host,
interactive prompts, the phone's inbound queue, the Mac's own notifications, the
proxy's task life cycle: models of these are candidates (section 7). Terminal emulation, rendering, settings, telemetry
queries, credentials, vendored crates and scripts are data processing, user
interface or third-party code. PROJECT.json gives the reason for each.

The repository has some 300,000 lines. Most of them are an emulator, painting,
settings panes, parsers, SQL and their tests on one thread: state machines of
bytes and layout, in which a small instance shows nothing that a unit test does
not. The modules here cover the parts whose correctness depends on order, and
they are a small share of the lines by that choice.

## 2. Modules

| Module | Models | Notes |
| --- | --- | --- |
| `RemoteReplayGuard` | `RemoteReplayGuard.swift` as operators that return a verdict and the next guard | shared by the next and `SealedFrames` |
| `RemoteHandshake` | pairing and session establishment: helper, any number of phones, relay | one received frame or timer is one step; the relay goroutine alone and the main actor alone write this state |
| `PairingTrust` | what pairing promises, abstractly: an identity becomes trusted, and listed in the file, as its session goes live; a live session never passes from one identity to another; a revoked identity is off the list, and trust is what the list says each time it is read | implemented by `RemoteHandshake` (`KeepsPairingTrust`) |
| `RemoteHandshakeProofs` | theorems about `RemoteHandshake` | section 5 |
| `SealedFrames` | the data path of one paired phone, the helper's goroutines interleaved at every lock, the phone's decrypts detached | refines the grain of a handler into its steps |
| `SealedFramesProofs` | theorems about `SealedFrames` | section 5 |
| `PendingApprovals` | approvals from the app to the phone and answers back, with the snapshot channel | the handshake is reduced to numbered sessions |
| `PendingApprovalsProofs` | theorems about `PendingApprovals` | section 5 |
| `RestoreStore` | capture, ledger, writer thread, store transaction, load and Reset Window Positions | one step per file written; a crash between any two |
| `RestoreStoreProofs`, `RestoreTextsProofs`, `RestoreCommitsProofs` | theorems about `RestoreStore`: the manifests, the captured texts and the ledger, the order of commits; each extends the one before | section 5 |
| `RuntimeSession` | one agent session, its callers and the agent in its tab | a closure on the main thread is one step; `complete_turn` and `fail_turn` are two |
| `RuntimeSessionProofs`, `RuntimeDialogsProofs` | theorems about `RuntimeSession`: turns and approvals, keys and dialogs | section 5 |

Definitions carry the names of the code. Records follow the fields: in
`RemoteHandshake`, `agent.pub` is `currentIOSPub`, `agent.peer` is
`currentPeerID`, `agent.pending`/`agent.stale` the provisional identity and the
end of its 60 s, `agent.paired` the devices in memory, `agent.stored` those in
the state file and `agent.ending` a process that was told to end; `ios[p].retry` says the HELLO retry and timeout tasks run. In
`SealedFrames`, `pc` and `slot` are a goroutine's place in
`sendEncryptedToRelay` and the frame it sealed, `todo` the rest of
`handleHello`; `opening` holds the detached decrypts. In `PendingApprovals`,
`mac.waiting` is the request of the open dialog, `mac.host` `RemoteHost.approvals`,
`mac.ipc` `ipc_connected`, `agent.helper` whether the helper's process runs,
`pc`/`job` are a goroutine's place in `syncPendingState`, `posts` and `fetches`
the HTTP requests under way, `outbox` what the phone's socket has taken. In
`RestoreStore`, `tx[t]` is a thread's place in `save_transaction` or
`remember_restore_source`, `writer` its place in `commit`, `ui` the UI thread's
place in a capture or in `load`; `ledger`, `nextVersion` and `pendingBytes` are
the fields of `BufferLedger`. In `RuntimeSession`, `sess` holds the fields of
`Inner`, `send[s]`, `respond[r]` and `stop` the places of the MCP calls, `closing`
the turn between the two halves of `complete_turn`, `snap` what the monitor's
snapshot says and when.
Operators named `X_Something` are faulty variants of `X`: the way the property
that cites them would break. No specification uses them.

### Abstractions

* A key is the tuple it is derived from; a frame opens under its own key only.
  A fresh nonce is one that nothing in the state still refers to (or, in
  `SealedFrames`, the next number): all that sixteen random bytes promise.
* Wall-clock windows become choices: the guard's window may keep any part of
  its record (`WindowSlides`), timers fire when the code lets them. In
  `PendingApprovals` a comparison with the start of a fetch is the set of what
  arrived since.
* `SealedFrames` leaves out PONG (the phone sends no PING) and takes the phone
  as paired, so that SESSION_READY always confirms. Unsealed frames other than
  HELLO also take numbers of the counter; they would only widen gaps.
* In `PendingApprovals` an answer has no value: Allow and Deny travel alike, and
  a card whose answer is queued takes no second one. A failed fetch is one that
  is never answered. Interactive prompts are left out. The IPC link breaks only
  with the helper, which the app restarts (`agentRestart`, for a new code, a
  changed relay or a revocation) or which ends by itself (`agentExits`; the app
  does not start it again). Between the two the host keeps no request. Push notifications are left out, except that a
  notification may be answered before the phone knows the request; `Settled`
  holds requests of an earlier time whose notification is still on the screen.
* In `RestoreStore` a text is a number that is its own hash and size. There is
  one window, and a tab has one pane. A save token is the next number; archives
  are ordered by it as their names are by time. `shown`, `sess.want` and
  `used.durable`/`used.final` are observed by the properties and read by no
  action. `atomic_write` is one step, because it renames a synced temporary file;
  its error may come after the rename, from the sync of the folder. Manifests
  may become unreadable between launches (`Damage`). Left out are the
  recovery of resume metadata and of legacy tabs and windows from backups, which
  for a tab without panes also writes the canonical files of the panes it brings
  back (`session_store.rs:325-332`), and limits of size and age beyond the free
  choice in pruning archives.
* In `RuntimeSession` the agent is external: it boots, reads what is typed, uses
  a tool, asks, finishes or exits, and its hook events arrive in order. They
  are not lost. At each capture the terminal's own status is any status, the
  history has an entry of any state or none, and `launch_snapshot`, `is_ready`
  and `is_settled` are applied to both as in the code. A status that calls a
  turn settled while the agent is at it counts as a rare event (`wrongStatus`).
  The time of a snapshot, `snap.seen`, is the number of turns submitted when the
  history's last prompt was written, and `NoTime` without an entry. Reads off
  the main thread that only anticipate a refusal of `start_turn` are merged with
  it. `request_approval` holds the lock twice (`session.rs:640-650`) and is one
  step here: in between, an approval is pending in a session that is still busy.
* In `RemoteHandshake` a revocation changes the state file at once and the
  helper ends some time later, going on as before until then. It saves all it
  has in memory at each new key of a known peer, each CLIENT_STATE and each first
  confirmation. A save that the old process would finish after the new one has
  read the file is left out: it only shows at the restart after that. Saves other
  than the confirmation's do not fail, which would leave the file as it was.

## 3. Runs

| Run | Instance | Shows |
| --- | --- | --- |
| `two_phones` | a paired and an unpaired phone on one relay slot, a second code, a lockout, one fault of four kinds (revocation, restart, expired claim, failing save) | types; the key never outlives a change of identity; only a proven identity is persisted, also when the save fails, the claim expires, the device is revoked or the helper restarts; a connected phone has a key of its own nonce; the inductive invariant; refinement of `PairingTrust` |
| `live` | one paired phone, two faults of four kinds (drops of either side, restart, early timeout), fair | `SessionRecovers`: both ends settle in one confirmed session |
| `sealed` | two nonces a side, one restart or drop | no reused number, no reordering, no authentic frame dropped by either end, no input before confirmation; the inductive invariant behind them |
| `answers` | a request and an old notification, room for one deferred answer, two fetches, one rare event of five kinds | types and the ledger's bound; a queued answer keeps its card; a deferred answer is applied by whichever channel lists the request; snapshots merge as promised, overtaken fetches included; the inductive invariant |
| `shown` | one request, one drop, restart, crash of the helper, closed tab or discard, fair | `WaitingIsShown`, for the requests the host keeps; "sending" means on the wire |
| `restore_crash` | two panes, two texts, two captures, one closed tab, one crash, one failing write or damaged manifest | every manifest finds its sidecars; the bundle is never behind; an acknowledged capture survives with its texts; texts given up are on disk; reopened tabs show what they had; the budget is counted exactly |
| `restore_quit` | one pane, a capture, a final capture, a failing write, Reset Window Positions, fair | the inductive invariants of the manifests, the texts, the commits and the final capture; the final capture wins; `QuitDrains` |
| `runtime_live` | two turns, a permission request under policy *auto*, one rare event of five kinds, fair | `TurnSettles` |
| `runtime_faults` | two turns, a permission request under policy *pend*, one rare event of eight kinds | the two inductive invariants, of turns and of dialogs; turns end once, approvals are awaited, nothing is typed early, a key answers the dialog it was typed for |
| `first_pairing`, `restore_reset`, `runtime_approval` | small | disagreements of section 6 |

### Bounds

Thresholds of the code are scaled so that both sides of each are reached: eight
decrypt failures become two, twelve HELLO attempts at most three with the
re-pairing fallback at one, five reconnects two. Only the lockout is at its
limit, after one refusal instead of five, because a second one takes a third
code or a retry; the theorems hold for any number of refusals. Every nonce of a
fault-free handshake and of each re-key a fault can cause fits into six
(`RemoteHandshake`) or two a side (`SealedFrames`, where one fault makes one new
epoch). `MaxInFlight` restrains only sends that a timer, a user or the app
begins; replies are never held back. `two_phones` gives each phone one HELLO
with its pair request, no retry, no automatic reconnect and no drop but those a
replaced socket causes (`live` has them all); the users may connect again at any
time, which already interleaves every frame of one phone with every frame of the
other. The theorems hold for every kind of fault in any number. `FaultKinds`/`MaxFaults` and
`RareEvents`/`MaxRare` choose and count the rare events. One or two of them let
every pair of processes disagree about the epoch, the socket or the list once,
and recover: a further one starts from a state of the same kind. `MaxFetches` allows one
fetch to overtake another where a property is about that.

In `RestoreStore` the two texts of sizes 1 and 2 with a budget of 2
(3 in `restore_quit`) make captures fit, replace one another and be refused; two captures let one be recorded while
the other is committed, which is all the one-place queue distinguishes; one
archive is kept, so that pruning happens; one crash starts a launch from every
state of the disk, and the second process runs under the same bounds. In
`RuntimeSession` two turns let an event or a snapshot of the first reach the
second, and one request lets a key that is typed late or twice meet the prompt
instead of its dialog; that it never meets the dialog of another request either
is what the theorem adds. Any
status and any history entry at each capture already make captures disagree with
the agent and with one another; one rare event comes on top. `runtime_live` has
no approvals to answer: `TurnSettles` says nothing of policy *pend* once a
request was made (section 4). `DialogInv` and `KeyAnswersItsDialog` are stated
for one orchestrator and until something disturbs the tab (`used.disturbed`): the
user types or answers there; the session is stopped; the responder loses its
connection or its grant between typing the key and resolving the approval; or
the turn of an agent that is still at it is closed, by a late Stop hook or by the
monitor from a status that was wrong or that has no time. With two hands at one
keyboard it does not hold, nor could it.

Deadlock is not checked: every bounded instance comes to rest, either connected
with nothing left to send or with its bounds used up.

## 4. Fairness

Weak fairness is assumed of what a running process does unasked: both run loops
dial and read, the relay forwards or drops, the retry timer fires, the lockout
ends, goroutines and socket writers proceed, a scheduled reconnect happens, a helper
that was told to end does and its successor starts and connects, a
socket the relay replaced is seen to be closed. In `RemoteHandshake` the user
also opens the app again in the end (there are only finitely many automatic
reconnects); the handshake timeout is fair only while nothing is in flight, as
twelve seconds are long against a round trip, and firing earlier counts as a
fault. Faults and other user actions are never fair, and a GET of the snapshot
may stay unanswered for ever: `WaitingIsShown` must hold over the socket alone.

In `RestoreStore` both threads go on with what they began and the UI thread joins
the writer; nobody is obliged to open, capture or quit. In `RuntimeSession` the
main thread serves its queue and its timers (monitor, clean-up), threads of MCP
calls go on, the agent boots, reads and finishes, and the orchestrator responds
to an approval it is shown. No client is obliged to send a turn, and no tool,
question, exit or user action is fair. `TurnSettles` leaves out sessions of
policy *pend* once a request was made: `runtime_approval` shows why.

`shown` leaves out lost POSTs and a second request: with them a card can really
be lost (section 6, Remarks).

## 5. Proofs

`RemoteHandshakeProofs` proves, for any phones, nonces, thresholds, bounds and
fault kinds, under `HandshakeAssumption` and `GuardAssumption` (`None` is none
of the values, thresholds are positive):

* `TypeCorrect`: the type invariant, by one lemma per operator and one case per
  action;
* `HandshakeInvariance`: the inductive invariant `HandshakeInv`;
* `KeyAlwaysMatchesPeer` and `ReadyPeerAlwaysTrusted`, its consequences;
* `ConnectedPhonesHaveKeys`: a connected phone has a key of its own nonce and an
  open socket, and no reconnect waits for a phone whose socket is open;
* `OnlyProvenIdentitiesTrusted`: the action property, from the same invariant;
* `HandshakeImplementsTrust`: initial states and steps of the handshake map to
  those of `PairingTrust`, or to stutters: a confirmation to `GoLive`, a re-key or
  a drop to `GoDark` (with a save when the next key is derived at once),
  CLIENT_STATE to `Save`, a revocation to `Revoke` and a restart to `Reload`.

`KeyMatchesPeer` is not inductive. `handlePairRequest` keeps the iOS nonce when
no identity was current, and derives a key from it under the requester's name:
this is right only if the nonce is the requester's own (`NonceOfPeer`,
`PairRequestMeetsOwnNonce`). It is, because a phone sends each pair request right
behind a HELLO of its own (`PairRequestsBehindHello`), the relay keeps the order,
and a HELLO that meets no current identity always leaves its nonce. To become
ready with a trusted peer one needs that the current identity is trusted or is
the provisional one that SESSION_READY persists (`PeerIsTrustedOrPending`), and
that a key exists only with everything it is made of (`KeyHasMaterial`). That a
restart brings in nobody needs the file to list trusted devices only
(`FileWithinMemory`): the app takes devices off, the helper writes what it trusts.

`RestoreStoreProofs` proves, for any finite set of panes, any texts, budget and
bounds, under `RestoreAssumption`:

* `StoreAlwaysSound`: the inductive invariant `StoreInv`;
* `ManifestsAlwaysDecode` and `BundleNeverBehindIndex`, its parts.

That every manifest decodes is not inductive: a transaction copies sidecars before
a manifest refers to them, and another may prune in between. `CopiesKept` says
that what a thread has copied is still there while it is past its lock, which
needs `HoldersLock` (only one thread is). That the bundle is never behind needs
`ParentIsIndex` (before the bundle is written, the index still has the token the
transaction took for its parent) and `OwnBundleFirst` (before the index is
written, the bundle is the transaction's own). `DeadIsStill` makes a damaged
manifest harmless: no transaction runs between two launches.

`RuntimeSessionProofs` proves, for any callers, turns, requests and rare events,
under `RuntimeAssumption`:

* `SessionAlwaysSound`: the inductive invariant `SessionInv`;
* `TurnsEndOnce`, `ApprovalsAreAwaited`, `NothingTypedBeforeLaunch`, its parts.

A turn ends once because the current turn has no end yet (`CurrentTurnOpen`) and
whoever ends it takes it in the same hold of the lock. Nothing is typed early
because, while the agent starts, nobody has passed the test that the session is
ready, the monitor's snapshot included (`NobodyAhead`).

`RuntimeDialogsProofs` proves, from the same assumption and with one orchestrator
(`OneResponder`; two could both look up one approval, section 6):

* `DialogsAlwaysSound`: the inductive invariant `DialogInv`;
* `KeysAnswerTheirDialogs`, its first part.

The argument follows two tokens through the system. A prompt is typed by one
delivery at a time, for an agent at rest: a ready session has nothing left in the
tab (`RestsWhenReady`, `InputFits`), a started turn is delivered by one call
(`OneDelivery`), and a snapshot that makes the session ready is younger than the
prompt it settles, where it has a time to tell (otherwise the tab counts as
disturbed from then on). The open question of the agent has one answer under way at
most, whether it still lies in its hook event (`AskIsOpen`), in the session's
approval (`ApprovalIsOpen`) or with the caller that responds (`ReplyIsOpen`).

`SealedFramesProofs` proves, for any number of nonces, sends, drops and restarts,
under `SealedAssumption` and `GuardAssumption`:

* `SealedInvariant`: the inductive invariant `SealedInv`, and from it
  `SealedTypes`, `NoNumberUsedTwice`, `SealsArriveInOrder`, `InputNeedsConfirmation`,
  `PhoneAcceptsAuthentic` and `MacAcceptsAuthentic`.

No number is used twice although both counters restart, because whoever has a
sealed frame in hand holds `encryptedRelaySendMu` (`WriterHoldsMutex`), each
counter is above all that was sealed under its current key (`MacNumbers`,
`IosNumbers`), and the helper never returns to a key it has sealed with and left
(`KeysRetireForGood`; HELLOs arrive in the order of their nonces,
`HellosInOrder`). Neither end drops an authentic frame because all that is on its
way lies above what the receiver accepted, in the order of sealing (`PhoneAhead`,
which counts the frame a goroutine holds and the one decrypt that is still
current, and `MacAhead`). Input is behind a confirmation because the phone
connects only under a key the helper sealed with, and its own SESSION_READY
travels ahead of its input (`ConfirmationFirst`).

`PendingApprovalsProofs` proves, for any finite set of requests, any capacity of
the deferred ledger, fetches and rare events, under `PendingAssumption`:

* `PendingInvariant`: the inductive invariant `PendingInv`, and from it
  `PendingTypes`, `QueuedKeepsCard`, `SendingOnTheWire` and `DeferredStayUnknown`;
* `SnapshotsMerge`: the action property, for any number of overtaken fetches.

A merge keeps what was heard since its fetch began because fetches have numbers
(`FetchesNumbered`) and the reconciler's record belongs to the fetch behind the
fence (`HeardIsKept`). The deferred ledger is a set with an order; that evicting
its oldest answer keeps the capacity needs the order to be total
(`LedgerInOrder`). `AwaitedOnce` says that a goroutine waits for one POST.

`RestoreTextsProofs` proves under `RestoreAssumption`:

* `TextsAlwaysSound`: the inductive invariant `TextInv`;
* `AcknowledgedTextStays`, `SaveCopiesCaptured` and `ReopenedTextIsCaptured`, while
  nobody has used Reset Window Positions (`restore_reset` shows why);
* `LedgerAlwaysWithinBudget`, without that condition.

A text moves from the ledger through the request, the writer and the canonical
file to a sidecar, and comes back at launch. Every pane that somebody counts on
shows its text at one of these places, and nothing under way takes it away
(`Shows`, `Stays`): versions say which text a request carries (`VersionsAgree`,
`CarriedIsKept`, `RequestTexts`), an acknowledged text is in its file and the
writer neither overwrites nor prunes it (`PersistedStays`), tabs and captures
expect no other text (`SavedShows`, `CaptureShows`), transactions copy what was
wanted (`CopiesWanted`), manifests name what was copied (`ManifestTexts`), and a
launch brings it back (`LoadShows`). For the budget, the sum over the ledger is
made a sum first: that the panes may be taken in any order is shown with a
smallest set that would refute it, from the well-foundedness of strict inclusion
on finite sets.

`RestoreCommitsProofs` proves under `RestoreAssumption`:

* `CapturesAlwaysSound` and `CommittedAlwaysSurvives`: a launch finds a capture at
  least as young as the last acknowledged one, with its texts;
* `FinalAlwaysOnItsWay` and `FinalCaptureAlwaysWins`: when the writer ends without
  a failure, a damage or a reset, the final capture is what bundle and index hold.

`CommitInv` adds that captures are committed in the order they were made
(`CommitOrder`), that a transaction's manifests are its own until it ends
(`Published`), and that both manifests stay at or above the acknowledged capture
(`DurableKept`). `FinalInv` follows the final capture through queue and writer
(`FinalOnItsWay`); no commit can fail on the way (`NoCommitFails`), since a pane
that is saved with a text has one (`TextsNonZero`) and the bundle is what was
loaded (`BundleIsLoaded`).

TLC checks each inductive invariant in a run: `HandshakeInv` in `two_phones`,
`SealedInv` in `sealed`, `PendingInv` in `answers`, `StoreInv`, `FinalInv` and
`CaptureInv` (that is `TextInv` and `CommitInv`) in `restore_quit`, `SessionInv`
and `DialogInv` in `runtime_faults`.

Only model-checked: liveness under fairness, which is out of the prover's reach
(`SessionRecovers`, `WaitingIsShown`, `QuitDrains`, `TurnSettles`).

## 6. Where code and comments disagree

Each has a run that ends in a counterexample, and a finding that quotes the line.

* `first_pairing`: a phone whose first pair request was accepted and whose socket
  dropped before SESSION_READY is ignored on return, until the Mac redials.
* `restore_reset`: Reset Window Positions loads the saved session on the UI thread
  and so rewrites canonical scrollback files without the store lock. A text that
  the writer has just written is overwritten by an older one, and the ledger then
  counts it as persisted and lets go of it.
* `runtime_approval`: the key for an approval is typed before the approval is
  resolved. When the agent finishes in between, its turn is closed while the
  session awaits the approval, the move to `ready` is refused, and the late
  resolution leaves the session busy with no turn, for good.

`PersistedTextOnDisk` is checked twice: it holds in `restore_crash`, without Reset
Window Positions, and fails in `restore_reset`.

### Remarks

Observations without a run of their own.

Remote control:

* The ipc goroutine asks `isSessionReady` and reads the key under two holds of
  `sessionMu`; a re-key in between makes it seal data under a key that no
  SESSION_READY confirmed yet (`SealedFrames` takes this step; the phone, which
  has the key, opens the frame).
* `resetForRehandshake` clears the Mac nonce the replay guard compares with, so
  the next change of nonce is accepted without the reset that
  `RemoteReplayGuard.swift:12-14` promises; the phone keeps a key of an older
  nonce until its frames fail to open. It also clears the guard's record of
  resets, so `escalate` is not reached by the client's own calls.
* Merging the approvals of a snapshot forgets when the fetch began
  (`PendingStateReconciler.swift:177`), so the merge of its prompts, which is
  called after it, replaces a list that arrived meanwhile (lines 19-20 say it is
  ignored).
* A snapshot is copied, numbered and sent in three steps (`agent.go:1645-1683`);
  an older copy may get the newer number and take away a card the Mac waits for.
* A resend that crosses the answer (`host.rs:1040`) brings an answered approval
  back into the helper's store, where nothing clears it.
* A revocation rewrites the state file while the helper runs
  (`remote/mod.rs:804-825`) and sends it a SIGTERM afterwards. A save of the
  helper in between writes all it has in memory (`agent.go:1248`, `812`, `1016`),
  and the next process trusts the revoked device again without pairing, against
  `docs/rust-port/inventory/Remote.md:23` ("restarts the agent so it must pair
  again"). `PairingTrust` allows it (`Save` after `Revoke`). Until the old process
  ends the revoked phone also keeps its session.
* A request made while no helper is connected is not kept (`host.rs:903-912`) and
  never reaches the phone; nor does one whose target tab has gone (`919-924`).
  It waits for the Mac's dialog. A helper that crashed is not started again by
  the app, and requests it was told of wait likewise.
* When a connection to the app ends, `ipc.rs` lets go of the client's lock before
  it queues `Disconnected`; `Connected` of a quick successor may be queued first,
  and the host then takes the successor for gone.
* An answer given on the Mac leaves the request in the host's list, the helper's
  store and the snapshot.

Session restore:

* A pane restored through the index alone, after its bundle was lost and the
  process had ended inside `write_contexts`, may be without its file. Every save
  then fails until its tab is activated (such a session
  wants no text there, so `SaveFindsTexts` holds).
* Reset Window Positions saves the session it loaded. Captures committed between
  the two are taken back until the next save, also the final one when it runs
  between `quit_now` and `on_app_quit` (`FinalCaptureWins` leaves resets out).

Runtime sessions:

* After the monitor has settled a turn, the Stop hook of that turn may arrive
  during the next one and close it.
* `fail_turn` takes whatever turn is current. If the monitor closed the failed
  one and a user's prompt started another, it fails that one; if it takes none,
  its TurnCompleted may make a session ready that has a current turn.
* The initial prompt is read, not taken, when the session is ready; a manual turn
  that comes in between cancels it (`session.rs:229`), but it may still be sent
  after that turn.
* A user who answers the dialog in the terminal leaves the session awaiting the
  approval; a second request is then dropped. Of two orchestrators that respond
  to one approval, the second types its key into whatever is there.
* `wait_turn` on a turn of a session that was stopped does not settle.
* A snapshot without a time counts as fresh (`runtime/mod.rs:166-171`), and
  `is_settled` accepts the terminal's own status beside the history's, which
  alone has the time. Either lets a capture taken before a turn, or a wrong
  status, settle that turn under the agent's hands; the session takes the next
  prompt, which a dialog of the agent may read. `RuntimeSession` has these steps,
  and `DialogInv` holds up to them.
* A responder that is cut off after its key was typed (`control.rs:906-923`)
  leaves the approval pending; a retry types a second key into whatever is there.

## 7. Plan

1. Done: `RemoteReplayGuard`, `RemoteHandshake`, `PairingTrust`, `SealedFrames`,
   `PendingApprovals`, `RestoreStore` and `RuntimeSession`; every invariant and
   action property that a run checks is proved, the three disagreements of
   section 6 apart.
2. To state and prove next: abstract specifications of the data path (a channel
   that loses but neither repeats nor reorders, per epoch) and of the store (one
   durable capture that only moves forward), implemented by `SealedFrames` and
   `RestoreStore`.
3. To model next: push notifications (the reservation of a push, its release
   after a failed POST) on the helper of `PendingApprovals`; interactive prompts;
   viewer sharing; the inbound queue of `RemoteTransport`; protected inputs;
   Codex sessions and adoption in `RuntimeSession`; relay nonces and rate buckets.
