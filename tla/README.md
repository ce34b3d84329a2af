# A verification of RustDeskAdmin

RustDeskAdmin is a self-hosted panel for a RustDesk server: a Go backend
(`backend/`), a React single-page client with a browser implementation of the
RustDesk remote-control protocol (`frontend/`), shell scripts on the host
(`setup.sh`, `scripts/`) and a docker-compose stack that ties them to `hbbs` and
`hbbr`. This directory holds TLA+ models of the parts of it whose correctness
depends on the order in which things happen, the TLC configurations that check them
on small instances, and TLAPS proofs of what holds for every instance.

Run, in this directory:

    tlc -workers 2 -config <Config>.cfg <MCModule>     # one run of PROJECT.json
    tlapm <Module>_proofs.tla                          # the proofs of a module

`PROJECT.json` lists the components, the runs, for every property of a passing run a
mutant of the model that breaks it, the source lines each definition stands for,
the hazards the properties are for, the findings and the theorems.

## 1. Inventory

| Component | State it keeps | Operations | Talks to | Hard behaviour | Model |
|---|---|---|---|---|---|
| Panel self-update (`update/panel.go`, three bash scripts in it, `setup.sh`) | checked out tree, archives, `panel-update.json`, the runner container, `active` flag | apply, rollback, backup, delete, reset, status; the script's steps | Docker Engine, GitHub, the stack it rebuilds (itself included) | two handlers racing on one container name; a backend that is replaced by its own update; every command of a script failing, `set -e` and an ERR trap; partial archives | PanelUpdate |
| Server update (`update/service.go`, `docker.go`) | containers `rustdesk-hbbs/-hbbr`, tag cache | check, apply with rollback | Docker Engine, Docker Hub, presence snapshot | no serialisation; failures between remove and start; lost answers; one time-out for work and rollback | ServerUpdate |
| Sign-in and sessions (`auth/service.go`, `sessions.go`) | rows of `settings` and `auth_sessions` | login, refresh, logout, change of credentials | PostgreSQL | statements without a transaction; rotation of single-use tokens; restart between statements | AuthSessions |
| Login rate limiter (`auth/ratelimit.go`) | map of buckets under a mutex | allow, reset, pruning | login and refresh handlers | window boundaries; pruning triggered by other keys; late resets | LoginLimiter |
| Device presence (`device/service.go`, `hbbs_online.go`) | device rows, last snapshot, verdicts, graces, subscribers | discovery, watcher, fan-out, delete | PostgreSQL, hbbs, `presence.json` | two loops that let go of the mutex between the steps of a round; full subscriber queues; failed writes | DevicePresence |
| Token handling of the client (`api/client.ts`, `api/auth.ts`, `stores/auth.ts`) | per-tab store, localStorage, shared refresh promise | interceptors, sign-in, sign-out | refresh endpoint | concurrent 401s, several tabs, reload, sign-out during a refresh | WebTokens |
| Status stream of the client (`api/devices.ts`) | module-level singleton: wanted, connected, controller, timer, snapshot | mount, unmount, connect, frame, end, reconnect | `GET /devices/stream` | stop and start before an aborted call settles; timers; overwritten controller | DeviceStream |
| Device list page (`DevicesPage.tsx`, `api/devices.ts`) | cached pages by filter, dialogs | load, edit, delete, turn, filter, retry | the device handlers | a load that has read before a change; a page that empties; polling that pauses | DeviceList |
| Settings page (`SettingsPage.tsx`, `api/settings.ts`) | one state variable per field, one query, one shared mutation | edit, save, hydrate | the settings handlers | hydration while another form is typed in; saves of several fields that fail in the middle | SettingsForms |
| Panel update card (`SettingsPage.tsx`, `api/panel.ts`) | polled status, previous phase, toasts | start, poll, reset, leave | panel status | polling that stops on a stale end; ends told twice or never | PanelCard |
| Download page (`DownloadConfigPage.tsx`, `settings/download.go`, `cmd/server/main.go`) | one document in the page, in the table, and image files | edit, upload, delete, save | the handlers | read, change and write back without a transaction; uploads answered after edits | DownloadConfig |
| Remote-control session (`lib/rustdesk/session.ts`) | two sockets, timers, how far the login is | rendezvous, relay, login, 2FA, approval, end | hbbs, hbbr, the controlled host | failures of two sockets, five timers, an await in the middle, several ways to end | RemoteSession, SessionLifecycle |
| its encrypted channel (`session.ts`, `crypto.ts`) | key, two counters, first-flight buffer | key exchange, seal, open, plain fallback | the host | a first flight in pieces or with bytes too many; counters that nothing resynchronises | SecureChannel |
| its picture (`decoder.ts`, `codecs.ts`, `session.ts`) | WebCodecs engine, queue, key-frame state; codec tried, pinned, failed; display; options | decode, rebuild, negotiate, pin, switch monitor, choose | browser, host | late probes, failing engines, echoes that get lost, turbo and auto mode over the user's knobs | VideoDecoder, VideoNegotiation, RemoteVideo, DisplaySwitch, StreamOptions |
| its measurements (`session.ts`) | round trip, time of the last frame, target of auto mode | probe, watchdog, ticks of auto mode | host, browser | late echoes, stalls, hysteresis over ticks of three timers | SessionVitals |
| Remote-control hook and page (`useRustdeskControl.ts`, `RemoteControlPage.tsx`) | React state and refs: status, dialogs, retries, second factor | connect, redial, disconnect, submit or cancel a code, change host, leave | session, user | events batched into one render, timers that outlive their reason, one-time codes across redials | RemoteControl |
| Journal and chat (`useRustdeskControl.ts`, `logprefs.ts`, `ChatWidget.tsx`) | entries, messages, unread, preferences, the widget's place | record, filter, send, open, drag | session, localStorage | messages between render and effect, drops told once or twice | SessionChat |
| Remote screen (`RemoteScreen.tsx`, `keymap.ts`) | buttons, fingers, gestures, keys, cursor images | pointer, wheel, key and focus events, pause | session | five references shared by all gestures; presses without releases; images that load in any order | RemotePointer, RemoteKeyboard, RemoteCursor, RemoteScreen |
| Server information, wire codec, HTTP wiring, release scripts, vendored code | caches, byte formats | | | no ordering of their own | not modelled |

How they interact. The client reaches every backend component over HTTP with a token
from *WebTokens*, whose refresh endpoint is *AuthSessions* behind *LoginLimiter*. The
panel self-update and the server update both drive the Docker Engine; the
self-update's `setup.sh` restarts the backend, which is the crash of ServerUpdate and
AuthSessions and the `BackendRestart` of PanelUpdate, and *PanelCard* shows it. The
presence side-car writes the snapshot that *DevicePresence* and the server update's
version check read; its fan-out feeds *DeviceStream*, and *DeviceList* shows both.
*RemoteControl* owns a *RemoteSession* and takes nothing from the backend but the
server's address, a saved password and the defaults of the settings table. Once it is
connected, the session's picture, channel, measurements, input and chat each keep a
state of their own; they share the socket and no variable.

What makes each component correct, in a sentence:

- self-update: the card never claims a release that is not what runs, an update never
  loses the tree it started from, and nothing unverified is ever installed;
- server update: a failed update leaves the server running as before, and whoever
  races, a server runs in the end;
- sessions: one login is worth one session, a session ends only for a reason, and a
  credential change ends them all;
- limiter: nobody exceeds the budget and nobody is refused below it;
- presence: table and pages follow the verdict of the moment, and settle on it;
- client tokens: nobody is signed out by his own concurrent requests;
- status stream: one stream while a page wants it, none otherwise, but for what a page
  swap leaves behind;
- device list, settings, download page: what is typed is kept, what was submitted is
  stored, what is stored is shown;
- update card: every end is told once;
- remote session: the page's status is what the session is, no attempt is left without
  a watchdog, a closed session says nothing more, and what is redialled is a drop, not a
  refusal, a one-time code or a decision of the user's;
- channel: each side can read what the other sends;
- picture: the engine is fed what it can decode; every failure ends in a picture or a
  warning; the display shown is a live one, and the options shown are what the host was
  told, unless they changed in silence;
- measurements: a stall is worth one nudge, and auto mode climbs on a lasting signal;
- journal and chat: every end leaves its marker, every message is seen or counted;
- remote screen: nothing is pressed that is never released, and a press lands where it
  was aimed.

## 2. Modules

A component has a module (state, actions, properties), a part of an `MC` module that
names the model values and bounds TLC uses, and its theorems are in the `X_proofs` of its
part of the system, which extends it and `TLAPS`. Definitions called `...Fault` are plausible bugs; no
specification uses them: they are the mutants of `PROJECT.json`, each replacing one
definition of the module.

**PanelUpdate.** `req[h]` is a handler's goroutine with its program counter,
`runner`/`job` the container and the script in it with its own, `tree`, `built`,
`backups` and `status` the files. A tree is a version per file: a half-done extraction
is a mixed tree. The handlers' checks and creations are separate steps (`RunnerSeen`,
`RunnerNotSeen`, `Resolve`, `CreateRunner`, `StartRunner`, `Remove`), so the window between
them is open to everything else. The scripts are one program with the paths of the
three kinds of job, each step with the failure its line of bash has under `set -e`.

**ServerUpdate.** `call[a]` is a call of `Apply` at its next engine request; a request is
carried out, refused, or carried out with its answer lost (`Fails`, `Done`); an expired
context is a refusal. `container[c]` is whatever bears the component's name, with the
call that created it standing for its id (the rollback starts by id, the update by
name). `presence` and `tag` are the cached versions the decision uses.

**AuthSessions.** `req[r]` is a request before its next SQL statement. The two settings
rows are `username` and `password`, the table is `sessions`; `expired` is the clock as
far as `expires_at` tells. `issued` and `gone` are history: what each session descends
from and why its row disappeared. **CredentialSweep** adds `spared`, the sessions a sweep
could not see, for what a change of the password is worth. **TicketStore** is the abstract
specification of the store, which knows of no statements: a login has a ticket that is
valid, taken once, and replaced at most once. AuthSessions implements it (`KeepsTickets`:
valid tickets are the rows not expired, tickets taken are what requests hold between
consume and issue).

**LoginLimiter.** `attempts` is the map, `now` the clock; `Allow` and `Reset` are whole
mutex sections. `permits` is the sequence of permitted attempts, each with its time and
the start of the window it was counted in, as the yardstick of the budget.

**DevicePresence.** `round[l]` is where each of the two loops is between its three
steps (snapshot, hbbs, apply); what is under the mutex is one step. `devices` is the
table, `lastStatus` the map that says what it holds, `channel` a subscriber's queue.

**WebTokens.** Per tab: `mem` (the store), `shared` (the promise), `refresh` and `call`
(requests), `signout`; across tabs `disk`; on the server `live`. A token stands for a pair;
`stale` holds those whose access token has expired. The refresh endpoint is one step
here; AuthSessions shows that it may be (`KeepsTickets`).

**DeviceStream.** The module-level variables of `devices.ts` by name, and `call[s]`, the
`connectStream` invocations alive: more than one, which is the point. The pages are
all in the bundle, so one mounts in the task that unmounts another, before the call that
was aborted has settled: `Mount` is free to. `swaps` is history, the number of times that
happened since the stream was last at rest, and `MaxSwaps` its bound.

**DeviceList.** `fetch` and `items` are the cache by key (page and filter), `edit[c]` a
mutation under way, `outdated` what has been invalidated. TanStack Query is external:
a cancelled request is not heard of again, a first load is never cancelled.

**SettingsForms.** Three kinds of field by how hydration fills them (`Eager`, `Steady`,
`Texts`); a save puts its fields in `SaveOrder`, and any of its requests may be refused
or lost.

**PanelCard.** The card against a runner reduced to the phases it reports, the query's
polling, the phase seen last, and what was toasted. `lostSight` is history: the card
could not have known.

**DownloadConfig.** The document in the page (`draft`), in the table (`stored`), and the
handlers of uploads, deletions and saves statement by statement. Of the server's checks
those of images, library and identities stand for themselves; those of lengths, of URLs
and of the numbers of buttons and steps, none of which the page makes, are one text the
server refuses (`Improper`), and that of the number of instructions is a limit the page
can exceed (`InstructionLimit`).

**SessionLifecycle** is the abstract specification of a session: which events it tells,
in which order. **RemoteSession** implements it (`KeepsToLifecycle`, an `INSTANCE` with
`phase` mapped to the sockets and flags; checked in the run `pages` and proved as
`PromiseKept`). **SessionChat** is built on the abstract one alone, so that what it shows
holds of every session that keeps the promise, one that `connect()` replaces while it
dials, asks or runs included (`Begin` has no guard, as the code has none). A `WebRustDeskSession` is there by its
fields; `timers` is the set of armed timers, `emitted` what the last step told the page.
hbbs, hbbr and the host are the environment; any of them may stay out for ever, which
is what the timers are for.

**RemoteControl** extends RemoteSession with hook and page: `state` is the React state
with every update queued, `shown` the state last rendered, the rest are the page's refs.
`Render` runs the effects; that it may come after several events, and not between two
events of one task, is the batching of React 18. `retries` are the timers that will
fire; `retryTimer`, the one the page can still clear.

**SecureChannel.** `line` is the channel of the session object by its fields, `peer` the
host's side, `toPeer` and `toUs` the relay. A sealed message is its number; the first
flight is cut into frames anywhere, and may have bytes behind it.

**VideoDecoder** and **VideoNegotiation** hold the operators on the records `decoder` and
`session`; **RemoteVideo** composes them with the page's callbacks and banner, the host's
encoder and the browser's engines (`kind`: an engine may be unsupported, reject its
configuration, throw, fail late). **DisplaySwitch** and **StreamOptions** are the other
two things a connected session negotiates with its host; **SessionVitals** is what it
measures by the second: `due` is the set of timers of this second that have yet to run.

In RemoteVideo another display may be watched at any time (`WatchOther`): its encoder is
new or in the midst of its stream, and its size is that of the display before or not.
Only in the second case is the decoder reset, when the screen has rendered the size
(`resetDue`, `ResetRendered`); units of displays that are no longer watched reach the
session and not the decoder (`OtherFrame`). A unit says why it does not follow the last
one decoded (`torn`), and `hole` what the references of the decoder lack.

In StreamOptions a session has a copy of the knobs (`config`), made when it is dialled:
of those shown, or for a redial of those in the closure that scheduled it (`redials`).
What changes between the dial and the login, and defaults that come later still, the
host is not told of; `silent` is the history of that, by knob, until the user turns it.

**RemotePointer**, **RemoteKeyboard** and **RemoteCursor** share one screen, **RemoteScreen**:
buttons and keys held by the user and by the host, fingers and their gesture, the frame
in which moves and wheel are sent, cursor images as they load. `careless` is history: a
user who mixes mouse and fingers, about whom the properties say nothing.

## 3. Runs

Runs of several components have one scope per component (the variable `scope`), so
that nothing is checked of a mixture that shares no state. Passing runs; bounds and
why they are enough:

| Run | Shows | Bounds |
|---|---|---|
| `panel_race` | status, tree and archives keep their promises with two requests under way, crashes and every script failure | 2 handlers (every check-then-act race), 2 releases, 2 files, one only in the new release: half an extraction is a mixed tree, a restore over it leaves a file |
| `panel_live` | every runner ends, also among partial and manual snapshots | one launching request, or a snapshot against a second request; 1 manual snapshot per release |
| `auth` | a login stays one session, as the store of tickets has it, no unexplained sign-out, only what was being inserted outlives a change | 2 requests; 3 sessions with one password (a login, its exchange, a rival; a change is of the password), or 2 sessions with two passwords |
| `services` | the limiter's budget at every window boundary; failing server updates roll back, racing ones leave a server; status in table and pages follows the loops and settles | 1 login and 1 refresh key (pruning needs two buckets), window 2, limit 2, clock to 4; 2 calls, 2 versions, 2 failing requests per call (one in the update, one in its rollback); 2 devices behind one address, a grace of 1, a queue of 1 |
| `web` | one refresh per token, one stream while wanted and one more per page swap at most, ends of a panel update told once, lists that heal; all of them get somewhere | 1 tab, 2 calls, 3 pairs (two rotations); 2 pages, 4 stream calls, 2 swaps (the second meets what the first left); 2 runs of the updater and one mishap; 2 failed loads |
| `pages` | status, prompts and redials of remote control; journal and chat; input; forms; document; list | 2 redials, 2 retries pending (one more than the page can clear; proved for any number); a journal of 2 and a chat of 2, which overflow; 2 fingers, 2 spots; 2 forms at a time, with 3 edits or saves (2 where the update mode is among them, whose change is a save at once); 2 images, 3 instructions of which the server takes 2, 5 touches; 2 devices on pages of 1 |
| `video` | what the host sends can be read, decoded and warned about; display, options and rungs are what was chosen or measured | 2 codecs with every pair of engines; 1 queued unit; one choice of the user's (a codec, a pause, a display) and one stray codec of the host's (not together with a display: the theorem has no such bound), with the two pairs of `Attended`; 3 displays, 2 messages in flight; one codec to pin, 2 probes, 1 pending redial with other knobs; 2 echoes in flight; 4 sealed messages each way |
| `video_live` | left alone, a session shows pictures or warns | as above, engines of which one works |

`ServersSurvive`, `SessionHeld`, `InputHolds`, `FormsHold`, `DocumentsHold`, `DisplayHonest` and
`WellMeasured` are conjunctions of what their modules state one by one.

Runs that expect a violation state what a comment or document of the repository says
and show the code doing otherwise; each is a finding of `PROJECT.json` with its quotation:

| Run | The code |
|---|---|
| `panel_mixed_tree` | does not restore after a failed extraction |
| `server_start` | does not roll back a start that fails: the new container still has the name |
| `stream_swap_single` | opens a second stream after a page swap in one task |
| `control_denied` | redials after a refused password: the error is overwritten before it is rendered |

Further properties state what a comment suggests and are no part of a run, because TLC
refutes them; each stands in its module with the line it quotes. Naming one in the
configuration of its component's run gives the counterexample:

| Property | Module | The code |
|---|---|---|
| `EveryExitTerminal`, `RestoreExact`, `ToolingFailureHarmless`, `DeleteRefusedWhileRunner` | PanelUpdate | leaves the phase at rollback when the restore fails; restores over, not instead of, the new tree; restores an older attempt's archive when the tooling step fails; deletes after the check for a runner became stale |
| `ChangeRevokesAll` | AuthSessions | leaves sessions that a login or refresh inserts after the sweep |
| `LogoutSticks`; `RefusedForCause` with two tabs | WebTokens | signs in again when a refresh is answered after the sign-out; signs the second tab out |
| `AlwaysFresh`, `DialogsApart`, `PageExists` | DeviceList | takes a load that read before a change for fresh; closes a dialog when another device's change is answered; stays on a page whose last device is gone |
| `PublishesChanges` | DevicePresence | publishes nothing when the other loop has already applied the change |
| `ChoiceKept`, `OneSavePerForm` | SettingsForms | fills a select in again while another field is typed in; lets one form have two saves |
| `FollowsRunner`, `NoToastLost` | PanelCard | polls a run of its own only after the answer was fetched again; loses the toast of a run whose working phases it did not see |
| `AllAccepted`, `UploadNotFatal`, `EditsSurvive`, `SavedHolds`, `PublicImagesExist` | DownloadConfig | refuses lengths, counts and URLs the page lets through; answers an upload with an error though its file is there; puts images where the list was when the upload began; writes back a document read before a save; shows images whose files are gone |
| `NeverAfterDeliberate`, `DiesWithPage`, `AliveFor2FA` | RemoteControl | an overwritten retry fires after the user disconnected, and after the page is gone; the watchdog ends a session that waits for a code |
| `OneMarkerPerDrop`, `PrefsSurvive` | SessionChat | marks a drop a second time when the session ends for good; brings back the last level that was switched off, and the page's category |
| `GrabDropped`, `NoKeySticks`, `PausedSilent` | RemoteScreen | keeps holding after a second finger in a grab; leaves a key down at the host; sends releases and gestures while paused |
| `ReinitsOnChange`, `StartsClean`, `DropsUntilKey`, `ResumeAsks`, `StaysOnChosen` | RemoteVideo | stays off after a fatal codec though the host went back; feeds the last unit of one codec to the engine of the next; takes the next delta that finds room; asks for no key frame on resume within the limit of rate; resets nothing for a display of the same size, whose deltas it decodes over the units of the one before |
| `RevertsToLive` | DisplaySwitch | reverts to a monitor that is no longer streamed |
| `HydratesDialog`, `RedialsAsShown` | StreamOptions | changes knobs of a running session nobody tells the host of; redials with knobs that are no longer shown |
| `RttIsTrue` | SessionVitals | measures a late echo against the probe sent after it; also, the three ticks that change a rung need not have agreed |
| `ToleratesGarbage`, `KeyFirst` | SecureChannel | counts the bytes behind a signed id as the host's first message, and then reads none of them; may send a ping in plain text before the key |

Deadlock is checked except where a bound or the user ends the behaviour: the clock of
LoginLimiter and the token and session supplies of WebTokens and AuthSessions are
finite, and a page that was left rests.

History variables keep a property from claiming too much, and are no part of the code:
`harmed` (ServerUpdate) marks components for which a request failed after their
container was removed or stopped for removal, `spared` (CredentialSweep) sessions a sweep
could not see, `touched` and `denied` (RemoteControl) retries that a user action followed
and refusals, `crossed` (DownloadConfig) requests that overtook one another, `doubtful`
(SettingsForms) why the cache may differ from the table, `behind` (DeviceList) loads that
a change outran, `lostSight` (PanelCard) runs the card may have missed, `rushed`
(DisplaySwitch), `silent` (StreamOptions), `torn` and `alike` (RemoteVideo), `swaps` (DeviceStream), `strayed` (SecureChannel).

Fairness is assumed in four runs only. `panel_live`: the script's commands end and
Docker reaps. `services`: an engine request is answered or given up at its time-out, which
the HTTP client sets to 180 s, and the discovery loop, a ticker, keeps running; the
watcher, which only runs in one of the two modes, is assumed nothing of. `web`: a refresh
is answered or fails and its callbacks run; timers fire and aborted requests settle; the
card's interval polls and React renders what it read; the list's retry timer fires and
its load is answered. `video_live`: the host keeps encoding and comes to send a key frame
when it is asked often enough (the one strong fairness: a request may be lost, not all
of them), and comes to obey a preference; probes, outputs and failures of the browser
are called back; timers fire and effects run. Nothing is assumed of users, of the server's willingness
to stream, or of handlers being retried.

## 4. Proofs

All proofs are checked by TLAPS to the leaves and hold for every value of the constants
that satisfies the assumptions of the modules: bounds are naturals, null values are no
data, and what the code builds in is so (release sets contain the version file, `all` is
a filter of the list, a limit is not zero). The bounds that make a scope finite for TLC are parameters of the theorems. Every
invariant and action property of a passing run is stated by a theorem. None
is inductive as it stands; what each proof adds is the reason why the code is right:

- **PanelUpdate_proofs.** That a green status is true
  needs that every script retracts it before it touches the tree (`HonestInv`); that an
  extraction is complete needs what is still to do (`ExtractInv`); that the previous tree
  is kept needs where a script that has not saved yet stands (`SavedInv`); that only
  verified code arrives needs the bundle being what the tag says (`BundleInv`,
  `CleanInv`); that a handler starts its own job needs that a created runner has done
  nothing (`FreshRunner`). Theorems: `TypeCorrect`, `HonestStatus`, `OkInstalled`,
  `VerifiedOnly`, `PreviousTreeSafe`, `RestoreComplete` (together `FallbackIsSound`),
  `WholeTreeBuilt`, `OwnJobStarted`.
- **AuthSessions_proofs.** `IInv` adds to the promises that a request between consume and
  issue *holds* the consumed session: it has one holder, has not been exchanged yet, and
  counts as its login's one ticket. Theorems: `TypeCorrect`, `RefreshSingleUse` and
  `NoBranching` (together `StaysOne`), `SignOutExplained`, `EndedForGood`
  (which no run checks apart from `KeepsTickets`). `KeptAsTickets`: consume
  takes a ticket, issue hands one out or replaces the one held, and every other step only
  ends tickets (`QuietStep`); `TicketsAreEnough`: that alone gives a login one ticket.
  `ChangeSpares`:
  after the sweep of a change whatever is live under the old credentials is `spared`, or
  is being inserted by a request that had read them before.
- **Services_proofs.** `LimitKept`: the windows of a key's permits follow one another (`Windows`)
  and none holds more than the limit, so that a span as long as a window meets two of
  them; and who is refused finds a window that is open and used up (`Refusal`).
  `StatusReachesAll`: what a loop remembers is the row, unless it was told otherwise
  (`Remembered`), and the last event under way to a page is the status of the
  moment (`Heard`).
- **ServerUpdate_proofs.** A component without a container has a call about to create
  one, and one whose container is down has a call about to start it or to remove it
  (`Owned`), unless it is `harmed`. From that, `RacesLeaveServersUp`: any number of racing
  calls leave every component running once all are answered. What a call that is alone
  finds at each of its steps (`Lone`) gives `FailuresRollBack` (together `ServersStay`) and `AnswersAreTrue`. Also
  `TypeCorrect`.
- **WebClient_proofs.** *Stream:* what is left of the stream, running, aborted or
  scheduled, is counted (`Left`) and grows by page swaps alone (`StreamInv`). With page
  swaps as the code has them: `OneStream`,
  `StopsWithLastPage`, `TypeCorrect`. *Tokens:*
  `NoRefusalWithoutCause`, for one tab (`OneTab`; with two it is false): one refresh is
  under way at a time, under the name of the call that waits for it, and what it
  presents is live, or what the refresh before it has just brought (`TabInv`). *Update
  card:* `EndsAreToldOnce`: answers come in order, a run that was told has ended, and one
  that was watched is told, shown at work, or overtaken (`CardInv`).
- **RemoteControl_proofs.** `Implements` maps every step of the page to a step of its
  session, so that what is proved of RemoteSession alone holds of the composition. A
  session has one socket at a time and none once closed (`SessInv`); from that `Watched`
  and `Quiet`, and `PromiseKept`: under the mapping of RemoteSession every step of the page
  is a step of SessionLifecycle or changes nothing of it. `HappensCases` sorts the
  session's steps by what they emit, `After` says what an event makes of the hook's state,
  and `Aside`/`Reconnects`/`Disconnects` what the page does; with these `StatusIsTrue` and
  `PromptIsAnswerable` are inductive (with `Watched`: `NotStranded`). `OnlyDropsRedialled` needs that
  at most one retry is pending that nothing has happened since (`RetryInv`). Also
  `TypeCorrect`. *Screen:* for a user who does not mix mouse and fingers the host follows
  a button only while something that will let go of it is down (`PointerInv`); moves and
  wheel steps that wait have a frame to send them (`QueueInv`); the keys the host holds
  are remembered, but for the characters of shortcuts (`KeysInv`); an image that loads
  has a URL of its own (`CursorInv`). From these `PressesHit` and `AllIsLetGo` (together
  `InputArrives`).
- **RemoteVideo_proofs.** *Channel:* `NeverDeaf`, each side can read the other. The invariant
  says who
  has a key and who can still come to have one (`KeyInv`), that what has come and what
  has yet to come make up the first flight (`FlightInv`), and that whatever is under way
  is plain text up to the key and a row of numbers after it (`ToPeerInv`, `ToUsInv`); the
  counters of both sides then differ by the length of the queue between them. *Picture:*
  `StreamIsDecodable` and `WarnedLast`: a decoder has one engine and none beside a probe
  (`Wired`), an engine that misses a unit waits for a key frame or is to be built
  again (`Covered`), and once it was reset for the display watched it has nothing of
  another one (`Unmixed`). *Display:* `WatchedIsLive`, from what the last request and the last echo
  under way say (`Settling`, `Asked`, `Told`) unless something overtook the switch.
  *Options:* `KnobsAreTrue`, as a session keeps to its copy of the knobs up
  to the login (`AsDialled`), and after it knobs, what was sent and auto mode agree
  (`RateAgrees`), but for what is `silent`. *Measurements:* `ActsOnceAndLate`, as a nudge is remembered as long as
  its stall lasts (`Nudged`) and a climb has its ticks (`SteadyClimb`).
- **Pages_proofs.** `ListIsFresh`: what was loaded is what the table has, or marked, or a
  change is to be answered (`ListInv`). `FormsKeepTheirWord`: what a save has put stays while
  no other writes its fields (`Stored`), and what is read while nothing is written is the
  table (`FormsInv`). `DocumentsStayWhole`: lists refer to what their document has (`ListsInv`), and while
  no request overtakes another, page, document and directory differ by the request under
  way only (`RequestsInv`). `JournalAndChatHold`: markers stand between the entries they
  mark off (`JournalInv`), unread counts what came after the last look (`TalkInv`), and
  bubble and window stay in view but for a drag under way (`PosInv`).

Only model-checked: liveness (`RunnerGoes`, `AlwaysAnswered`, `SettlesDown`, `Quiesces`,
`SeesTheEnd`, `ListHeals`, `PictureOrWarning`), which rests on fairness, that is on ENABLED,
and is out of the prover's reach; and what comments suggest and TLC refutes.

## 5. What is abstracted, what is left out

Texts, logs, progress lines, URLs and the layout of files are left out. Byte formats,
hashes, ciphers and signatures appear as what they decide (a checksum fits or not, a
message opens or not). Time appears as an event (a token expires, a timer fires) except
in the limiter, where windows are compared, in the discovery grace and in SessionVitals,
which goes by the second. Release versions are small naturals. The configuration
`buildSpec` copies is not modelled, only the image it replaces. In RemoteControl a
render is taken to run its effects with it, although React may let another task in
between; a code, a password and a host are not told apart. Pixels, key codes and
coordinates are a few spots and keys; figures of the picture are the bands the code
tells apart.

### Not modelled

- *Of modelled components.* Self-update: the read-only handlers (check, preflight, log,
  listing). Remote screen: the removal of its listeners on unmount, the layout of its
  overlays. Video: parts of an access unit and time stamps, statistics, `close`, turbo's
  limit of the backlog, the codec remembered from an earlier session (any is taken), and
  the burst of ten asynchronous errors, which an engine that closes on its first never
  reaches. Measurements: the figures of the statistics panel. Settings: the credentials
  form, which signs the user out and belongs to AuthSessions. Update card: preflight,
  log, banner and the list of backups with its own polling. Device list: how a text
  matches, copy buttons, the connection panel of a device. Journal and chat: search,
  highlighting, draft, emoji, a viewport that changes its size. Download page: the public
  page, and which of its length, number and URL checks refuses a document. Presence: the import of
  names from the table of hbbs, saved device passwords.
- *Components.* The server information row and the server update card only read and show.
  The wire codec is byte-level encoding, tested against fixtures in the repository. HTTP
  wiring, release scripts and configuration are sequential and keep no state whose order
  matters. Layout, translations and toolbars show what the models hold. Vendored
  libraries are third-party code; TanStack Query, React, WebCodecs and the Docker Engine
  appear as their callers use them.
- *Hazards without a property* (three of `PROJECT.json`): a retry that archives the mixed
  tree its first attempt left; a runner that is created and never started, whose name
  locks out every later operation; a refresh that is answered after its user has signed
  out. The models have the behaviour, and what one would want of it is false.

## 6. What is left

1. WebTokens over TicketStore, in place of its endpoint of one step.
2. The fan-out of DevicePresence composed with DeviceStream: what a page shows across a
   queue that overflows and a stream that is opened again.
3. PanelCard over the status PanelUpdate writes, in place of its own reduced runner.
4. Theorems about 1 to 3. Of what the runs check now, only liveness has none.
