# TLA+ models of brbox

brbox turns a small board into an appliance: a Buildroot image with two root
file systems, and a set of C++ services that clients drive with JSON-RPC over
TCP. The services are built on one library, `sources/lib/lib-adav-old`; most of
what is concurrent in brbox happens inside it. These modules model the parts of
that library, of the services and of the update scripts whose correctness
depends on the order in which threads, events, clients and power failures
interleave.

## 1. Inventory

### Library (`sources/lib/lib-adav-old/src`; `lib-adav` is an older copy the build does not use)

| part | state | operations | interacts with |
|---|---|---|---|
| ADGenericChain | linked list, ident counter, one semaphore | put, get, find, remove by ident, empty | every queue below |
| ADThread | thread id, run flag, one-shot semaphore | start, stop, wakeup; CONTINUOUS, MONOSHOT and SELECT loops | owner's callbacks |
| ADTaskWorker | work_chain, work_inprog_chain, worker thread | push_task, get_task_status, reset_task_id_and_chain, worker callback | ADJsonRpcMgr, events |
| ADNetServer | client list, listen thread, request and response chains | accept, receive, split, send, deregister | ADJsonRpcProxy |
| ADJsonRpcProxy / Mapper | request chains, one request thread | parse, map, process, respond | ADNetServer, ADJsonRpcMgr |
| ADJsonRpcMgr | handler table, service-ready flag, devop, debug flags | common RPCs: task status, reset, shutdown, subscribe, notify, trigger | everything above |
| ADEvntMgr / ADEvntNotifier | subscriber list, event chain, sender thread | register, unregister, notify, send, process | clients' event ports |
| ADJsonRpcClient / ADNetClient | socket, receive buffer, request number | connect, call, disconnect | any service, from xmproxy, sysmgr and the command line |
| ADTimer | signal loop of main, timer thread, stop flag, subscribers | tick, subscribe, forced exit, stop | hotwire, dispsrv, lightsense, xmproxy |
| ADSettings, ADSysInfo, ADSerial, I2C drivers, string helpers | configuration values, device registers | parse, read, write | services |

### Services (`sources/services`)

sysmgr (device operation, update, download, shell commands, event monitor),
xmproxy (chat bot: commands by XMPP, asynchronous answers, alias and event
lists kept in files), bboxsms (GSM modem: SMS list, sending, USSD), hotwire
(media pattern player), smarteye (image identification), lightsense (light
sensors), dispsrv (display hot-plug), gpioctl, i2csrv, modbussrv, apisrv (HTTP
gateway), monitsrv. Each is a main loop, an ADTimer, an ADJsonRpcMgr and
handlers run on the request thread, on the task worker, or on the timer.

### System scripts (`sources/scripts`)

The A/B update: `*-update` writes the root file system that is not running and
flips the boot marker with `*-brdskmgr`; variants for raspi2, baytrail, bbb and
bbbmmc. Start-up scripts mount the settings partition and identify the device.

### What makes it hard

- A request passes four threads and a task two more before its result is read;
  between any two of them stands a queue and a semaphore.
- Completion is announced by an event on another connection than the answer
  that tells the task's number: the event can overtake the answer.
- Most containers of `std::` type are shared without a lock; the subscriber
  list is searched by index while another thread removes from it.
- Answers and client addresses are keyed by file descriptor, results by a
  number that an RPC can restart: both are reused.
- Power can fail at any command of an update, and what was written without
  `sync` may be lost. Some commands' exit status is not read.
- The request thread and the worker thread run scripts that mount, unmount and
  delete on one partition; queued commands are dispatched by position in a list.
- A display object is created, used and deleted by three threads, none of which
  waits for another, and the service is taken down under them.
- Allocations can fail between two of several steps that belong together.

### What should hold

Each queue serves what it holds (no lost wake-up), in order and once; a result,
an answer or an event reaches whom it belongs to; a step that fails half-way
leaves nothing behind that another thread acts on; a board can boot at every
instant; what was promised to a client eventually comes. The properties of
section 3 say this part by part, and `PROJECT.json` lists the hazards behind
them with their lines.

## 2. Modules

| module | models | code |
|---|---|---|
| GenericChain | operators of a chain on sequences | ADGenericChain.cpp |
| StdVector | `erase(remove_if(...))` of a vector, and a set of positions in order | C++ library, as ADEvntMgr, XmppMgr and ADNetServer use it |
| TaskWorker | asynchronous tasks of a service | ADTaskWorker.cpp, the one-shot loop of ADThread.cpp |
| EvntMgr | subscriptions and events between services | ADEvntMgr.cpp |
| RpcPipeline | request from socket to handler, answer back | ADNetServer.cpp, ADJsonRpcProxy.cpp, ADJsonRpcMapper.cpp |
| RpcService | what RpcPipeline promises | abstract |
| XmppAsync, MCXmppAsync | chat commands and their late replies | xmproxy's XmppMgr, EvntHandler; TaskWorker seen from outside |
| AbUpdate | update of the other root file system, boot marker | raspi2-update, raspi2-brdskmgr |
| SysMgr | download, update and backup version on one partition | sysmgr's SysRpc and main, ADJsonRpcMgr.hpp, raspi2-update, raspi2-brdskmgr -b |
| RpcClient | calls of one client over a connection that can break | ADJsonRpcClient.cpp, ADNetClient.cpp |
| DispSrv | display object shared by three threads, shutdown | dispsrv's main, DispScanner, DispCtrlRpc; ADTimer.cpp, ADThread.cpp |
| ContainerProofs | lemmas about GenericChain and StdVector | |
| LibraryProofs | theorems about TaskWorker and RpcClient | |
| EvntMgrProofs, XmppAsyncProofs | theorems about EvntMgr and XmppAsync | |
| RpcPipelineProofs, RpcAnswerProofs, RpcOrderProofs | theorems about RpcPipeline | |
| ServicesProofs | theorems about SysMgr, AbUpdate and DispSrv | |

Variables and actions carry the names of the members and functions they stand
for; `PROJECT.json` maps every definition to its lines. Definitions headed as
mistakes or mutants are wrong variants of an action that no specification uses;
they show that a property notices such a mistake.

**TaskWorker.** The request thread (`req_pc`) is inside `push_task`
(`PutWork`, `PutInprog`, `WakeupThread`, and the failures of the two puts),
`get_task_status` (`GetTaskStatus`, `RemoveStatus`: the lock is released in
between) or `reset_task_id_and_chain`. The worker (`wrk_pc`) waits, takes a
task, runs it, stores the result, notifies. A step is one locked access to one
chain. The two chains and the counter `ident_generator` are the code's; `job`
numbers pushes, so that two tasks with one taskID can be told apart.
`resetInFlight` records that a reset found a task queued or running.

**EvntMgr.** The request thread registers, unregisters and notifies; the notify
thread goes through `eventList` by index (`NextEvent`, `Scan`,
`SendEventConnect`, `SendEventProcess`, `Erase`), re-reading the list after
each network call as the code does. `clash` records an unsubscribe during that
loop. A step is one container operation or one network call. Two threads that
are inside `std::vector` or `std::deque` at the same instant are a data race,
whose outcomes (a freed entry read, a corrupt container) are not modelled: the
model shows what goes wrong even if each operation were atomic.

**RpcPipeline.** Requests are sent as two halves so that `recv` may return
between them or return several at once. `Frames` is the splitting at `}{`: a
frame begins at a head and at a tail whose head came with an earlier `recv`.
The sequence of frames is given as the only member of a set (`InOrder` of
StdVector), which proofs can use where a recursive definition is out of reach.
Descriptors are given out lowest first, as the kernel does. `reused` records
that a descriptor went to a new client with answers due on it, `wasReset` that
`recv` failed. Each thread takes one element per semaphore post and every put
is followed by its post, so the semaphores are left out: a thread can step when
its chain is not empty. That equivalence is what `WakeupPerTask` establishes for
the same pattern in TaskWorker. `Queue` joins the two chains around the mapper
and the request it works on, `Outbox` is what `response_chain` holds;
`ServesInOrder` says that on these two each step is one of RpcService (accept,
refuse, serve, reply, and lose when memory runs out) or a stutter, and
`ImplementsService` adds its fairness.

**XmppAsync.** The XMPP thread queues messages; the command thread runs their
sub-commands and files started tasks in `AsyncTaskList` after the call has
returned; the event thread looks a finished task up, asks for its result and
replies. The services are reduced to their task numbers, queue and statuses.
`early` records an event looked up before its task was filed, `reused` a reset
of numbers still in use.

**AbUpdate.** One action per command that writes to the card or can fail. A
power cut makes unsynced boot files old or new, each for itself. `reflash`
records an update started while the other system was already marked, `torn` a
boot from two boot files that disagree, `unseen` a failure of `cp` or `sed`,
whose status no script reads.

**SysMgr.** AbUpdate has one actor and power cuts; SysMgr has two actors and no
power cuts. The worker (`wrk_pc`) takes downloads and updates from `work_chain`
and goes through the commands of `raspi2-update`, each a step that can fail;
the request thread (`req_pc`) goes through `brdskmgr -b`. `mounts` says who has
the other root partition mounted: `umount` names the device, so with two mounts
it may undo the other one's, and `rm -r` of a directory still mounted removes
the files of the partition. `rpclist` is the order in which main.cpp attaches
the RPC objects, each with a `bkup_fmwver_updated` of its own. Images are
numbered by age. A download is the image's `wget` of BusyBox, which opens its
output file only after a good answer of the server: it writes the newest image,
leaves an incomplete one, or leaves the file as it was, in which case the client
is recorded in `kept`. `umount` is assumed to succeed when the partition is
mounted once and nothing is running on it; its status is not read
(raspi2-update:288). `clashed` records that both had the partition mounted together,
`stale` that an update reformatted it after the cached version had been read.

**RpcClient.** A call sends, calls `recv` once and parses what it got; an answer
is a head and a tail, so that it can be cut, and a result or an error. The
service is RpcPipeline seen from one connection: a request is accepted and
served later, refused at once, split by the service's `recv` (each half is then
refused, so one call gets two answers), or dropped, and the service may end,
which the client sees as the end of the stream or as a reset (`peer`). `cut`,
`gotUnknown` and `carriedOn` record that `recv` returned part of an answer,
that a call returned `RESULT_UNKNOWN`, and that the client called again on that
connection; `split`, `refused` and `lost` what the service did to a request.

**DispSrv.** The main thread (`mpc`) posts ticks, then reports the shutdown to
its own service (`NOTIFY_EVENT`, a blocking call that returns when the request
thread has served it, at once if it cannot connect, and never if it is dropped)
and takes the service down, one destructor per step in the order of C++; the timer thread (`tpc`)
probes for the display, deletes or creates its object and shows the address;
the request thread (`hpc`) copies `pDisplay`, tests the original and uses the
copy, as all five handlers do. Objects are numbered and `freed` holds those
deleted. What a call on freed memory does is undefined; the model records the
thread in `dangling` and goes on. The display is an OLED or an LCD: an OLED
object initialises its panel once (`ssoledinit`) and turns it off in its
destructor, an LCD object initialises it on every `init_display`. A probe of a
display that is there may fail (`probeFails`), and the scan then takes it for
unplugged. `hotplug` records that the display was not there, or did not answer,
all the time, `missed` that it was replugged without a scan noticing, `lost`
that the report of the shutdown was dropped.

### Conditions on properties

Several properties have one of these records as a condition. Without it the
property is false of this code, and the condition says exactly when. Three
cases where the code contradicts its comment are runs of their own that must
find a violation (below). The others, each of which TLC refutes in a few steps
when the condition is taken out:

- `OwnResult` without `~resetInFlight`: the result of a task pushed before a
  reset is stored in the entry of the task that got its number after it
  (ADTaskWorker.cpp:266).
- `Failsafe` without `~reflash`: a second update before the reboot formats the
  system already marked for the next boot (raspi2-update:201).
- `Failsafe` without `~torn`: power fails between the two edits of the boot
  marker (raspi2-brdskmgr:102-103), the board boots one system's kernel with
  the other's root, and the next update overwrites one of them.
- `NoneSkipped` without `~clash`: an unsubscribe shifts the list under the loop,
  and an entry is passed over (ADEvntMgr.cpp:37).
- `OnlyRefusedDropped` without `~clash`: the same shift after `send_event` sets
  `deleteFlag` on another subscription than the refused one, and that one is
  removed although its subscriber listens (ADEvntMgr.cpp:42).
- `AnswerToSender` without `~reused`: answers are addressed by descriptor; when
  the client has left and the descriptor was given to the next connection, that
  one gets the answer (ADNetServer.cpp:87).
- `ClientInfoOfSender` without `~wasReset`: the error path of `recv` does not
  call `deregister_client_info` (ADNetServer.cpp:241), so a new client's
  requests carry the old one's address. Without `~OutOfMemory`: an entry that
  could not be registered leaves its client without an address.
- `ErrorOnlyIfCut` without `split`: a request that arrives in two pieces is
  answered with an error, because the call that would wait for the rest is
  commented out (ADNetServer.cpp:649).
- `ReplyToAsker` without `~reused`: entries of two generations of task numbers
  match one event; one user gets the other's result (XmppMgr.cpp:449).
- `UpdateInstalls` without `~clashed`: `brdskmgr -b` unmounts the update's mount
  instead of its own (raspi2-brdskmgr:136) and `rm -r` deletes what was
  installed, or tar unpacks into an empty directory; the update still says [OK].
- `CachedIsOnDisk` without `~clashed`: the same deletion happens under a version
  that has been read. Without `~stale`: this is what `sysmgr_reread` is about,
  and a version read before an update and cached after it (SysRpc.cpp:560).
  A tar that fails leaves an incomplete system whose version can be read and
  cached: the property says that the version is on the partition, not that the
  system is whole.
- `NoOlderImage` without `c \notin kept`: a download that gets no answer leaves
  the image of an earlier one in the file, which the update queued behind it
  installs: nobody compares the two tasks' results (XmppMgr.cpp:757).
- `OwnAnswer` without `~split`: a request that the service receives in two
  pieces draws two errors, and the second is taken for the answer to the next
  call. Without `refused`: an error has no "result". Without `~cut`: the rest of an answer that came in two pieces is
  taken for the answer to the next call, which fails, and from then on each call
  can get the answer to the one before (ADJsonRpcClient.cpp:756).
- `CallReturns` without `lost`: `recv` blocks, so the "4sec timeout"
  (ADJsonRpcClient.cpp:2655), a count of failed attempts, never ends a wait.
- `ShutdownEnds` without `lost`: main's report of the shutdown is such a call
  (ADTimer.cpp:221).
- `ResultsInOrder` is about results only: an error answer goes from the listen
  thread straight into `response_chain` (ADJsonRpcProxy.cpp:474-540), overtakes
  the results of earlier requests, and a split request gets two.
- `DanglingOnlyIf` names its cases: a handler uses a deleted display, or calls
  through NULL if one is plugged between its copy and its test, when the display
  comes or goes; after main has deleted the display (main.cpp:78), the timer
  thread works off its ticks on it, as does a request; main deletes it a second
  time if it had just been unplugged.
  A probe that fails (DispScanner.cpp:122, 166-186) counts as an unplugged
  display, for the code and for `hotplug`.
- `AddressShown` without `~missed`: a display replugged between two scans is not
  initialised, because the scan finds it where it was (DispScanner.cpp:74); nor
  is an OLED replugged between the constructor and `init_display`, which returns
  at once (I2CSsd1306.cpp:365). An LCD is initialised again.

## 3. Runs

| run | constants | distinct states | shows |
|---|---|---|---|
| task_worker | 3 tasks, 2 resets | 7,454 | WakeupPerTask, InFlightHasEntry, OwnResult, StatusStaysUntilRead, EventAfterStatus, FailedNeverRuns, NoTaskStuckInProgress |
| ab_update | 3 updates | 5,363 | Failsafe, RunningIntact, OkMeansUpdated, ErrorKeepsBootFiles |
| evnt_mgr | 2 subscribers, 2 events, 2 tokens, 2 notifications | 1,055,334 | TypeOK, NoLostWakeup, InOrderOnce, NoneSkipped, OnlyRefusedDropped, EventsDrain |
| rpc_pipeline | 2 connections, 2 descriptors, 3 requests, one unknown | 751,500 | TypeOK, ResultsInOrder, AnswerToSender, ClientInfoOfSender, EachInOnePlace, ErrorOnlyIfCut, ServesInOrder |
| rpc_pipeline_memory | 2 connections, 2 descriptors, 2 requests, allocations fail | 166,211 | ImplementsService, with its liveness |
| xmpp_async | 2 users, 2 services, 2 messages, 2 tasks, 1 reset | 98,332 | TypeOK, NoMessageStuck, ReplyToAsker, OneFinalReply, NoStaleEntry, FinalReplyComes |
| sysmgr | 2 clients, 2 images, 2 reads of the backup version | 823,568 | UpdateInstalls, NoOlderImage, CachedIsOnDisk |
| rpc_client | 5 calls, 3 connections | 82,583 | KilledOnlyIfCarriedOn, OwnAnswer, CallReturns |
| disp_srv | 2 plugs or failed probes, 2 addresses, 1 request, 1 tick behind, a scan every 2 ticks | 549,211 | DanglingOnlyIf, AddressShown, ShutdownEnds |

Violations, one property each, quoting the comment it comes from:

| run | property | what happens |
|---|---|---|
| ab_update_next_boot | NextTimeUpdatedSystemWillBoot | `cp` or `sed` fails unread; the update says [OK] and the next boot is not the new system |
| xmpp_reply_is_sent | AfterResultReplyIsSent | the task ends before it is filed; its final reply never comes |
| sysmgr_reread | BackupVersionReRead | the update is run by the object DevOpGet (position 11), whose flag it clears; FmwVerGet goes on answering the version it cached |

`xmpp_reply_is_sent` is a race the code knows of: some tasks sleep 200 ms before they
end (SysRpc.cpp:8). The model leaves time out, so it shows that the order is
not enforced, not that it is likely; firmware update, device operation and log
list tasks do not sleep.

### Bounds

Three tasks let one be queued, one run and one be pushed; two resets give two
generations of numbers. Two subscribers with an entry each are what the
shifted-list cases need, with two notifications for order and for a second
pass over the list. Two connections and descriptors give reuse and concurrency;
three requests an unknown one between two others. With failing allocations two
requests are enough for one to be lost ahead of or behind another; the liveness
is checked on that instance, whose behaviours include those without a failure. Two messages let one be
queued while an alias command returns, two tasks let two services give out the
same number. Three
updates are a first, a repeated and a following one. Two clients and two images
let one client's download overwrite another's with a newer image or with none;
two reads let one version be cached and one be read during an update. Five calls
on one connection are a cut answer, the two calls it spoils and the ones after
a reset; three connections a failed one and a fresh one. Two plugs or failed
probes let the display be replaced under a request and once more between two
scans, with the timer thread one tick behind; one request
at a time is what the request thread serves. A scan every second tick (for the code's
DISP_SCAN_DURATION) tells a tick with a scan from one without. Deadlock checking is off
where the bounds let the system come to rest (all inputs used up).

### Fairness

Weak fairness of each thread's steps taken together, nothing else. TaskWorker:
the worker and a `push_task` under way go on; `run_work` is assumed to return.
EvntMgr: the notify and the notifying thread go on; connects return or
are refused. RpcPipeline: the four threads go on; handlers return and `send`
does not block (`MSG_DONTWAIT`). XmppAsync: calls of a service return with
an answer or because the service closed; RpcClient says when they do not. SysMgr:
the commands of the scripts end. RpcClient: `recv` returns when there is
something to return, and the service receives each request, to accept, refuse or
drop it, and serves or drops what it accepted. DispSrv: the interval timer ticks, main, the timer thread and a request under
way go on, so the report of the shutdown returns unless it was dropped. No client, user, subscriber or reset has to act, and
no lucky outcome of a choice is assumed.

## 4. Theorems

All proofs are checked by TLAPS for every value of the constants.

**ContainerProofs** states what the containers do: `Put`, `Get`, `GetByIdent`
(the first match), `Unlink`, `RemoveByIdent` of a chain, which elements each of
them leaves (`PutElements`, `GetElements`, `RemoveElements`), `RemoveIf` (what
`remove_if` keeps, and in which order), `PushBack` and `PopFront`. The search
is a minimum over positions, whose existence `LeastNatural` takes from the
library's well-foundedness of the naturals.

**LibraryProofs** is about TaskWorker and RpcClient. For TaskWorker it proves `Spec => []IInv` (`Invariance`) and from it each
safety invariant of the run. The properties are not inductive by themselves.
`IInv` adds: a thread inside a call holds the object of that call
(`ThreadObjects`); the task being pushed is still last in `work_chain` and has
the newest number (`PushedIsLast`), so the worker cannot have taken it; jobs,
entries and, unless numbers were reset in flight, tasks are strictly ordered
(`JobsOrdered`, `EntriesOrdered`, `TasksOrdered`), so a number names one entry
and one task. `WakeupPerTask` belongs to the invariant: the worker never
overtakes `push_task` because the token is posted last. One lemma per action.

For RpcClient it proves `ClientSpec => []ClientIInv` (`ClientInvariance`), and from
it `KilledOnlyIfCarriedOn` and the action property `OwnAnswer`. `ClientIInv` adds
that until an answer is cut or a request split at most one request is out, and it
is on its way, accepted, or answered whole (`Clean`); and that a reset connection
belongs to a client that has seen a call fail or is about to, because a split
request draws nothing but errors until then (`Alive`).

**EvntMgrProofs** proves all five safety invariants of `evnt_mgr`.
`WakeupNotLost` needs no more than types. `HeardInOrderOnce` rests on this: tokens
grow along `eventList` and so along the loop, even when an unsubscribe shifts
the list (`TokenInv`); events are numbered in the order of the queue and the
loop works on its front (`QueueInv`); so whatever a subscriber was sent before
is of an older event, or of the same event and a token the loop has passed
(`PastInv`), and the next message is in order (`OrderInv`).
`NoSubscriptionSkipped` and `DroppedRefused` come from `LoopInv`: without an
unsubscribe in the loop the entry in the thread's hands is still the `i`-th
(`TargetInv`), those before it were tried (`PassedInv`) and those flagged have
refused (`FlagInv`).

**RpcPipelineProofs**, **RpcAnswerProofs** and **RpcOrderProofs** prove the six
invariants of `rpc_pipeline` and the refinement `PipelineServesInOrder`, also with
failing allocations. The first has what the other two share
(`PipelineInvariance`), the second what concerns answers, addresses and the queue
(`AnswerInvariance`), the third the order (`LineInvariance`). The parts besides
the types:

- every request anywhere has been sent (`SentInv`); a stream holds its
  connection's requests, oldest first, the halves side by side (`StreamInv`);
- what is refused was unknown or split (`CutInv`), because a frame is whole
  unless `recv` returned between its halves;
- a descriptor belongs to one connection (`FdInv`), and until one is given out
  with answers due, whoever has the descriptor of a request on its way sent it
  (`AddressInv`); each open connection has its entry, and only it, in
  `clientInfo_chain` (`InfoInv`);
- memory permitting, `ReqRespChain` is `Queue`, element by element (`QueueInv`):
  that RespThread finds its task by number and frees that one follows;
- `OrderInv`: a request passes six places (`Place`: request_chain, ReqChain, the
  mapper, RespChain, response_chain, the answers sent). In this line, requests of
  one connection stand in the order in which they were sent, and before all that
  is still in the stream. One lemma, `OrderMove`, says that moving the first of a
  place to the end of the next keeps the line, and each thread's step is such a
  move, or drops the request.

The refinement needs the types and `QueueInv` (RespThread finds the task of the
request it serves, so no result is missing): each step is followed through `Queue`
(`DispatchQueue`, `MapperGetQueue`, `MapperDoneQueue`, `ProcessResponseQueue`)
and through `Outbox`, and matched with a step of RpcService.

**XmppAsyncProofs** proves all five safety invariants of `xmpp_async`.
`MessageNotStuck` is inductive with a bound on the queue by the posts
(`PostInv`); `FinalReplyOnce` follows from numbers told being in the list, in
the event thread's hands or replied, and in one of them only (`TicketInv`).
`ReplyGoesToAsker` and `EntryNotStale` need that a service's numbers grow, those
announced before those at work, until a reset (`NumberInv`), and what is owed:
each entry, the call that is about to be filed and the entry in the event
thread's hands belong to a task that is still at work or announced, with its
result to be read (`OwedInv`, under `~early` and `~reused`).

**ServicesProofs** is about SysMgr, AbUpdate and DispSrv. For SysMgr it proves
`Spec => []IInv` (`SysMgrInvariance`) and from it `UpdateInstalls` and `CachedIsOnDisk`. `IInv` adds that without a clash a mount
belongs to the script that is between its mount and its umount (`Mounted`), what
each command of the update has left on the partition (`Installed`), and that a
version is read and cached only while no update writes (`Cached`).

`NoOlderImage` has a second inductive invariant, `QInv`, about the queue: until
a client's download has run it is queued or running (`Served`), no download of a
client is queued behind its update (`InOrder`), and the update under way belongs
to a client for whom the file is new enough, if its own download got an answer
(`ForClient`). It needs nothing about mounts, so it holds through clashes.

The same module proves the theorems about AbUpdate, the script of an update seen
alone: `CardSpec => []CardIInv` (`UpdateInvariance`) for every number of updates,
and from it `Failsafe`, `RunningIntact`, `OkMeansUpdated` and
`ErrorKeepsBootFiles`. `CardIInv` adds where the boot files may differ from the
card (`SyncedOutsideFlip`), when the two name one system (`FilesAgree`,
`FlippedAgree`, `FlipAgrees`), what is complete at each command (`Written`) and
that a first update writes what is not marked (`FirstUpdate`).

Its third part is about DispSrv: `DispSpec => []DispIInv` (`DisplayInvariance`)
and from it `DanglingOnlyIf`. `DispIInv` adds that until main deletes the display
a deleted object stays in `pDisplay` for one step of the timer thread only
(`Owned`), and that no object is made or deleted while the display stays as it
was and answers (`Still`).

The assumptions are those named in the modules: bounds are naturals,
some of them not zero.

**Only model-checked**: the liveness properties (`NoTaskStuckInProgress`,
`EventsDrain`, `FinalReplyComes`, `CallReturns`, `AddressShown`,
`ShutdownEnds`, the fairness part of `ImplementsService`), which need ENABLED,
out of the prover's reach. Every safety property of a passing run is proved.
Facts that need induction over data or RECURSIVE operators are out of reach as
well; the modules use neither. A set of which a definition is the only member
(`Frames`, `remove_if`) is proved to have only members of the stated form; that
it has one, and so that the action is enabled, is left to the runs, which fire
every action.

## 5. Not modelled

- Time; the contents of messages, files and device registers; the pointer
  structure of the chains.
- Data races inside `std::` containers: each container operation is a step.
  Besides those of EvntMgr and XmppAsync this concerns sysmgr's log list
  (LogHandler.cpp:76), which the worker rebuilds while handlers read it.
- Start and stop of threads and services other than dispsrv. There, a thread
  that has not stored its id yet is not joined (ADThread.cpp:132): `pthread_join`
  has the case, but the destruction of its semaphore is not part of the state.
- ADNetServer: the binary protocol, a failing `accept` (line 190, which ends the
  listen thread), a `send` that fits only in part (line 88).
- ADJsonRpcMgr's device operation, debug flag and middleware RPCs.
- sysmgr's event monitor (EventMonitor.cpp:79 sets a flag on a copy), device
  operation and shell commands, and the update of openwrt boards, which has no
  second system.
- xmproxy's subscriptions, made once in EvntHandler's constructor, and its alias
  and subscriber files, rewritten in place (XmppMgr.cpp:1302, 1417).
- bboxsms: its waits (SmsMgr.cpp:898) depend on the order of the modem's lines,
  and nothing in the repository says what the modem does.
- hotwire, smarteye, lightsense, gpioctl, i2csrv, modbussrv, monitsrv, apisrv:
  one request, one call of a device or of another service.
- The update scripts of the other boards: other boot loaders, same plan.
- Vendored libraries and kernel modules, by far the largest part of the source
  tree: other projects' code.

`PROJECT.json` lists each part with its reason.

## 6. Open

1. An abstract task service (submit, done, read) that TaskWorker refines, and
   XmppAsync over it with EvntMgr's deliveries, for the restart of a service.
2. The chain as the linked list it is, refining the sequence of GenericChain.
3. The bbb and baytrail variants as instances of AbUpdate's plan with their own
   markers.
