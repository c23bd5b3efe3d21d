# A verification model of esp_hass

esp_hass is a Home Assistant client for ESP32: it keeps a WebSocket connection,
authenticates, subscribes to events, calls services and hands the events to
handlers of the application. This directory holds TLA+ modules of the client as
it is in `src/`, TLC configurations that model-check them on small instances,
and proofs that TLAPS checks for every value of the constants.

All names below are those of the source. `esp_hass.c` is `src/src/esp_hass.c`,
`parser.c` is `src/src/parser.c`, `esp_hass.h` is `src/include/esp_hass.h`.

## 1. Inventory

### Tasks

The client is some 970 lines of C, but four kinds of task run it at once:

| task | created by | runs |
|---|---|---|
| websocket task | `esp_websocket_client_start()` | `websocket_event_handler()`, `message_handler()`, `esp_hass_client_auth()`, `esp_hass_message_parse()` |
| event source task, one per start | `esp_hass_client_start()` | `esp_hass_task_event_source()` |
| event loop task | `esp_event_loop_create()` in `esp_hass_init()` | the application's handlers |
| tasks of the application | the application | `esp_hass_client_subscribe_events()`, `esp_hass_call_service()`, ... |

They share `struct esp_hass_client` without a lock. What synchronises them is
two queues, the event loop's own queue and one binary semaphore.

### Components

**Message intake** (`websocket_event_handler()`, `rx_buffer`). State: the bytes
of the message that is arriving. Operations: one per WebSocket event; DATA
appends a payload and parses the buffer when the frame is complete. Hard: a
payload that is lost, a message longer than the buffer, a close frame, a broken
connection, a failed parse - most of them leave bytes behind. Correct if: an
event leads to the message it completes or to none, and a client that lost its
place finds it again. -> `RxBuffer`

**Message dispatch** (`message_handler()`). No state of its own: one branch per
type of message. -> a branch in each of `AuthSession`, `Commands`,
`EventPipeline`; which branch is taken, and who frees the message, in
`ServiceCall`

**Authentication session** (`is_authenticated`, `ha_version`, `client->json`,
`esp_hass_client_auth()`). Operations: react to auth_required, auth_invalid and
auth_ok; each new connection starts over. Hard: a flag nothing resets when the
connection breaks; a pointer two tasks build their messages in. Correct if: the
flag tells the truth, and each session ends authenticated or refused.
-> `AuthSession`

**Commands** (`message_id`, `result_queue`, `esp_hass_send_message_json()`,
`esp_hass_call_service()`, `esp_hass_client_subscribe_events()`). Operations:
take an id, send, wait for a result, time out. Hard: results do not carry the
caller, calls time out before their result comes, commands are sent that
nobody waits for, several tasks call at once, ids are a plain `++`, connections
break. Correct if: ESP_OK is returned only for a command the server carried out,
and a call whose answer was not lost returns. -> `Commands`; what one call
allocates and frees -> `ServiceCall`

**Event delivery** (`event_queue`, `esp_hass_task_event_source()`, the event
loop, `message_semaphore`, `esp_hass_message_semaphore_give()`). Operations:
queue an event, post it, wait for the handler, destroy it. Hard: a message
passes through three tasks and is freed by the one that did not read it; the
semaphore says that *some* handler is done, not with which message. Correct if:
every message is destroyed once, after its handlers had it. -> `EventPipeline`
and its promise `EventChannel`

**Message parser** (`parser.c`). A pure function from a string to
`esp_hass_message_t`. Hard: its failure paths, and what it makes of attributes
that are missing or of another type. -> `ServiceCall` (type, success, failures);
`RxBuffer` keeps of it which message a buffer parses to

**Client life cycle** (`esp_hass_init()`, `esp_hass_client_start()`,
`esp_hass_client_stop()`, `esp_hass_destroy()`). State: eight resources. Hard:
failures half way, calls in unusual orders, tasks that outlive the client.
Correct if: nothing is used before it is allocated or after it is released,
nothing is left behind, and every call returns. -> `Lifecycle`

**Shutdown timer**. Reset by every DATA event; its handler only logs. What
matters of it is when it exists. -> `Lifecycle`

**Wifi station** (`wifi_init()` and its event handler, three copies of the same
code). State: a retry counter, an event group. Hard: `wifi_init()` waits without
a timeout for bits the handler sets, for events the station need not post.
Correct if: it is woken up by whatever is posted, and the station never idles
without having said so. -> `WifiStation`

**Examples**. `button`: app_main, a button task and its callback, a timer.
`hello_world`: the same without a button. Hard: the order in which things are
created and deleted, and the labels each failing step goes to. Correct if: they
use the client as its life cycle allows, and end having released what they
created. -> `Examples`, which composes `Lifecycle` and `WifiStation`

**External**. ESP-IDF (event loop, FreeRTOS queues and semaphores),
`esp_websocket_client`, cJSON and the Home Assistant server are modelled only as
this code uses them, by actions marked external.

`PROJECT.json` lists the components with their sources, and under "hazards" the
places in the code that a test would hardly reach, with the properties that
watch them.

## 2. Modules and how they correspond to the code

Each module has one action per step of a task that other tasks can observe; the
steps between two blocking calls are one action. Operators named
`<Action><Variant>` and commented "Mutant of" are not part of any specification:
each is a plausible mistake in the action it is named after, and shows that the
property it is listed with in `PROJECT.json` can tell the difference.

### EventPipeline

| variable | code |
|---|---|
| `heap` | which addresses hold an `esp_hass_message_t`; addresses are reused |
| `rx_msg` | `msg` in `message_handler()`, before `xQueueSend()` |
| `event_queue` | `client->event_queue` |
| `source`, `source_msg` | program counter and `msg` of each `esp_hass_task_event_source()` |
| `loop_queue`, `loop_msg`, `todo` | the event loop: posted events, the one dispatched, handlers yet to return |
| `message_semaphore` | `client->message_semaphore` |
| `registered` | handlers of `esp_hass_event_handler_register()` |
| `handled` | history: live messages whose handlers have all returned |

`WsReceive`, `WsEnqueue`, `WsDrop` are the default branch of
`message_handler()`; `SourceReceive` ... `SourceDestroy` are the loop of the
event source task; `LoopDispatch` and `HandlerReturn` are the event loop.
`ClientStart` creates an event source task; nothing deletes one, because
`esp_hass_client_stop()` does not. Constants say how the application uses the
client: which handlers give the semaphore, whether they return within the take
timeout (`Prompt`), whether they are registered before events arrive
(`RegisterFirst`), whether there is an event queue at all.

`EventChannel` is what the event path promises: events are accepted in order or
refused, handed over one at a time, and reclaimed only while nobody reads them.
`EventRefinement` maps the implementation to it: the channel's current message is
the one a source task has in hand, and its phase is read off that task, the
handlers that have not returned, and whether the message was handled.

### Commands

`message_id`, `pc`, `loaded`, `call` are the callers; `++client->message_id` is
`LoadId` and `StoreId`, because nothing protects it. `Send` and `SendFails` are
`esp_websocket_client_send_text()`, `ReceiveResult` and `ReceiveTimeout` are
`xQueueReceive()`. `SendAlone` is a call of the public
`esp_hass_send_message_json()` by itself, which returns without waiting; the
server answers it all the same. The constants `Timed` and `Senders` say which
callers time out and which send alone. `rx_result` and `result_queue` are the
RESULT branch of `message_handler()`. The wire and the server are external. The
server answers in any order, refuses ids that do not grow, and forgets them with the
connection. The rest are histories: what the server carried out (`succeeded`),
which calls returned ESP_OK (`ok_calls`), how many commands nobody waits for,
because they were sent alone or given up (`unawaited`), whether a command was
sent while another caller waited (`overlapped`), and how many commands and
results were `lost` on the way or `dropped` for lack of room. A command is
named by its caller and call; the client never reads that name, as the code
never reads the id of a result.

### RxBuffer

`rx_buffer` is a sequence of chunks, one for each DATA event that was appended;
a chunk is part i of n of a message, or the code of a close frame. `Lose`,
`Overflow`, `Wait` and `ParseBuffer` are the branches of
`WEBSOCKET_EVENT_DATA`. `Parse` says what `esp_hass_message_parse()` may make of
a buffer: the message it starts with, because `cJSON_Parse()` ignores what
follows; nothing; or, when the buffer is patched together - a chunk in it does not
follow the one before it in its message, because that one was lost - something
the server never sent (`"junk"`): a message with its middle missing, the head of
one with the tail of another, or a value the tail of one begins with. What has no
such seam and does not start with a whole message is a message without its end,
and no JSON. `Parse` takes more patches for possible than real messages allow;
what junk does once it is handed to `message_handler()` is not followed further.
`outcome`, `sound`, `intact` and `misses` are histories of what the last events
led to.

### AuthSession

`connected`, `session`, the wire and `sessions` are the connection and the
server's side of it. `pc` and `text` are the two users of `client->json`: the
websocket task in `esp_hass_client_auth()` and the application in
`esp_hass_client_subscribe_events()`, which go through the same steps - delete
and create, add, print, send, (wait,) delete. Each step is one action, so every
interleaving between two uses of the pointer is there. (A failed build of the
subscription deletes `client->json` twice in the code and once in the model: the
second finds NULL, unless a third step came between, which the first already
shows.) `WsChallenge` is the branch of auth_required and of auth_invalid, which
falls through to it: the client answers auth_invalid with another auth message.

### Lifecycle

`held` is what the client allocated: the members of `struct esp_hass_client`, the
struct itself, and `client->json`. `queues` and `config` are the application's
queues and what it told the client of them; `handle` is its pointer to the
client. `call` is the place in `esp_hass_client_start()`, `_stop()` or
`esp_hass_destroy()`, one action for each call of ESP-IDF they make;
`esp_hass_init()`, during which nothing else runs, is one action that stops at
any of its `InitSteps`. `ws` and `source` are the websocket task and the event
source tasks, as graphs (`WsEdges`, `SourceEdges`) of which members they touch
next: `CallUses`, `WsUses`, `SourceUses` say what each place reads or writes.
A use of something that is not allocated is thus a state in which one of these
sets is not within `held` and `queues`.

The calls are those one application task makes; it may repeat and reorder them
as it likes. What the tasks do with messages is in the other modules.

### WifiStation

`wifi_init`, `s_retry_num`, `bits` are the variables of the code; `driver` and
`posted` are the station and the default event loop. `esp_wifi_connect()` starts
an attempt or is refused, which nobody notices; an attempt associates or fails;
an associated station may get an address, lose its access point, or neither. `StaStart`,
`StaDisconnected`, `GotIp` are the branches of the handler. `streak` is a
history: disconnections in a row.

### Examples

`Script` is the order of calls in each `app_main()`, `OnFailure` the label each
failing call goes to, `at` the place. Calls of the client and the station are the
actions of the instances `Client` (`Lifecycle`) and `Wifi` (`WifiStation`), and so
are the client's tasks. `button` is the button task with its callback; nothing
orders a press after anything but the creation of the button.

### ServiceCall

One call of `esp_hass_call_service()` and one message of the server, with every
combination of the attributes the code looks at. `heap` and `twice` are what is
allocated and what was freed after it was freed; `pointers` are `json_error` and
`json_error_msg`, which point into `msg->json`; `place` says who has the message.
`Parse` and its failures are `esp_hass_message_parse()`, `Destroy` and `Queue` the
branches of `message_handler()`, `CreateJson` ... `FreeError` the call with its
label `fail`, where success ends, too.

## 3. What is model-checked

| run | instance | shows |
|---|---|---|
| `pipeline` | 1 source task, 1 prompt handler that gives, 4 addresses, queues of 2 | types; who holds a message and that the loop, handler and semaphore work in step with the wait (`InStep`); no leak; handlers read live memory; each message is destroyed after its handlers had it; the token taken is the one for this message; the whole is an `EventChannel` |
| `pipeline_slow` | 2 source tasks, a slow handler, failing posts, late registration, 3 addresses | even so no message is destroyed twice and each one is destroyed in the end |
| `pipeline_late_give` | a slow handler | **violated**: a token given after the timeout releases the next message before its handler had it |
| `commands` | 2 callers on a lossy connection, 2 calls each, queue of 1; one times out and also sends without waiting, the other waits for ever | ESP_OK is the truth while every command is waited for and callers take turns (`TruthfulInTurn`); answers under way, lost and dropped are those of the callers that wait and of the commands nobody waits for (`AnswersBalance`); swapped results invent no success; drops cost only what nobody waits for (`DropsAreUnawaited`); a call without a timeout waits for ever only after the connection lost as many commands or results as callers wait (`StrandedOnlyByLoss`) |
| `commands_stale` | 1 caller with a timeout, 2 calls | **violated**: the late result of an expired call is the answer to the next |
| `rx_buffer` | 4 messages of 1, 2 or 4 events, buffer of 3 | an event handles only the message it completes, and what the server never sent only after a chunk from the middle of a frame was lost (`OnlyWhatWasSent`); a message that began on an empty buffer and lost nothing is handled; at most `BufferLen + 1` messages of one event in a row are missed |
| `session` | 3 connections, everything may fail | after the handshake began the flag tells the truth about this session; in the first session the two users of `client->json` never meet; the first session ends authenticated or refused |
| `session_again` | 2 connections, nothing fails but the first | **violated**: a subscription that waited through the reconnection deletes the auth message, and the session is never authenticated |
| `lifecycle` | any order of calls, 2 starts, queue of 2, everything may fail | unless a running client is destroyed, calls and the websocket task use only what is allocated; an event source task outlives the client and dangles only on the struct, or on the event queue the application deleted; what is left behind; a full queue gets room again unless a task could not be created; every call returns |
| `examples` | both programs, 1 start, queue of 1, 2 retries, every step may fail | `app_main()` uses the client as `Lifecycle` allows, but for one label; who touches what was deleted after which failure; what is released at the end; the station gives up for good; `wifi_init()` returns unless the station stays without an address or `esp_wifi_connect()` was refused (`OnlyTheStationStrands`) |
| `examples_stop` | the same | **violated**: the button example, which announces that it will stop, never leaves its loop |
| `service_call` | one call, one message with any attributes | nothing leaks whatever fails; one owner destroys the message and all that was allocated, once, but for the error of a refusal that the call received (`FreedOnce`); ESP_OK means success: true |

The violated properties state what a comment or document of the repository
says; `PROJECT.json` quotes it under "findings".

Some properties hold only because they say exactly where the code goes wrong, so
that a repair, or another fault, would break them. What they say of this code:

* `esp_hass_destroy()` of a running client deletes the timer and `client->json`
  before it stops the websocket task, which uses both (`StoppedIsSafe`).
* No call ends an event source task. It survives most of what
  `esp_hass_destroy()` releases because the event loop and the semaphore are never
  deleted - which is also a leak (`OnlyTheStructDangles`, `LeftBehind`).
* When its task cannot be created the button example deletes the queues of a
  running client; when a later step fails, the button's callback may use the
  destroyed client (`OnlyFailuresDangle`, `FollowsLifecycle`).
* `wifi_init()` returns ESP_OK after the last retry, too, and then nothing ever
  connects again (`GivesUpForGood`). With a station that is associated but gets no
  address, or whose `esp_wifi_connect()` was refused, it does not return at all:
  main.c:125 waits with portMAX_DELAY (`OnlyTheStationStrands` excuses just that).

Some defects are certain once a condition is met, in whatever order the tasks run;
no property says that they do not happen, and the models do what the code does:

* A result without `"success": true` and with an `error`: `esp_hass_call_service()`
  destroys the message (esp_hass.c:948-951) and then deletes `json_error` and
  `json_error_msg` (esp_hass.c:956-963), which point into the JSON it destroyed:
  `esp_hass_message_destroy()` frees "the memory allocated for the message"
  (esp_hass.h:268-269). `FreedOnce` says that nothing else is ever freed twice, and
  the theorem `RefusalFreesTwice` that every such refusal is.
* parser.h:31-32 says that `esp_hass_message_parse()` returns a pointer or NULL.
  When `calloc()` fails it does neither: parser.c:77 goes to the label `fail`, where
  parser.c:126-127 follows `msg`, which is NULL (`ParseNoMemory`).
* A message of authentication without `ha_version` makes `message_handler()` follow
  a NULL pointer (esp_hass.c:103-106, `FollowsNoVersion`).
* Without an event queue, which README.md:55-56 calls optional, event messages are
  never destroyed; `NoLeak` is proved for every client with one.
* When the connection breaks before the answer, a call with a delay of
  `portMAX_DELAY` - the default (esp_hass.h:155), although esp_hass.h:118-120 has a
  timeout for such a response - waits for ever at esp_hass.c:916.
  `StrandedOnlyByLoss` says that nothing but a loss does that.
* When `xTaskCreate()` fails, `esp_hass_client_start()` may return ESP_OK and nobody
  takes events from the queue (esp_hass.c:508; excused by `EventsAreTaken`). When an
  authentication fails for lack of memory, nothing tries again in that session
  (esp_hass.c:116; excused by `FirstSessionAuthenticates`).

The two other sides of these results are worth knowing. `pipeline` assumes what
the documentation asks of a handler and more: one start, one registered handler,
and that it returns within `CONFIG_ESP_HASS_SEMAPHORE_TAKE_TIMEOUT_MS`. The
token property also fails with two starts, which share the semaphore, and
memory safety also fails with two handlers, since the first to give releases a
message the second has not read; and an application that registers its handler
after it subscribed, as the button example does (main.c:327), loses the events in
between, because `HandledBeforeDestroyed` needs `RegisterFirst`. `commands_stale`
shows that one expired call is enough to put every later call one answer behind.

### Bounds

* 4 addresses in `pipeline` are one more than can be held at once by the queue
  (2) and the source task (1), so the websocket task also finds the queue full
  and drops. Addresses are reused, so runs are unbounded in length.
* 3 addresses in `pipeline_slow` let both source tasks hold a message while a
  third waits, and let freed addresses come back while the loop still has them.
* In `commands` 2 callers are enough for every race on an id and every swap of
  results. The two commands of the one may both be left unawaited, so that their
  answers fill the queue of 1 and one is dropped, while the other caller, without a
  timeout, finds what is left and may in turn leave its own answer behind.
* A buffer of 3 with messages of 1, 2 and 4 events has messages that fit, that
  fit only an empty buffer, and that never fit; 4 messages fill the buffer and
  overflow it.
* 3 connections: the first, one after a complete session, and one after a
  disturbed one. `MaxWaiting` keeps the application from sending for ever to a
  server that does not read.
* `misses` stops at `BufferLen + 2`, one more than the property allows.
* 2 starts in `lifecycle` let two event source tasks share the queue; a queue of 2
  is full, half full and empty while each of them is anywhere. The life cycle
  itself is not bounded but by `MaxStarts`: it covers stop and start again, and
  destroying at any point.
* In `examples` the client is started once, as both programs do; 2 retries are one
  more than is needed to tell a reset of the counter from none.
* `service_call` has no bounds: one call and one message, all attributes.
* `Permutations` of the messages are a symmetry of `RxBuffer`, which never
  compares two of them; it is used in a run of safety properties only.

### Fairness

Weak fairness of each task's steps: FreeRTOS schedules every task, none of them
spins, and `xQueueSend()`, `xSemaphoreTake()` and the timed `xQueueReceive()`
return by themselves. A handler returns, the server answers what it accepted,
and the websocket client reconnects (`Commands`); in `AuthSession` reconnecting
is not assumed. `ReceiveTimeout` is in the fairness of a caller, but only the caller
that never times out can be stranded, so `StrandedOnlyByLoss` rests on the tasks
and the server. Nothing obliges the application to call again, or the server to
send an event. In `Lifecycle` the steps inside a call of ESP-IDF end, the calls
themselves are free; in `Examples` `app_main()` goes on by itself except where it
waits for the server or a command, the station ends each attempt to associate (but
need not find an address, nor lose its access point), and the event loop calls the
handler. Where everybody may stop, the run does not
check for deadlock: `commands`, where calls end or wait for ever, `commands_stale`,
where only a safety property is asked for, the session runs, where the last connection may
break, `lifecycle` after a destroy, the `examples` runs at the end of `app_main()`, and
`service_call` after its one call.

## 4. What is proved

TLAPS proves, for every value of the constants under the named assumptions of
the modules:

* **EventPipelineProofs.** `TypeCorrect`. `Ownership` and `SingleOwner`: for any
  number of source tasks and handlers, prompt or not, posts failing or not, each
  live message has exactly one owner (and one at all, unless there is no event
  queue); hence no double destroy. The invariant (`OwnInv`) is `OneOwner` with: a
  source task has a message exactly while it is between receiving and destroying
  it (`Holding`). `Lockstep`, `HandlerSafety` and `TokenSafety`: under
  `DocumentedUse` - one source task, at most one handler, which is prompt - no
  handler reads freed memory and each token answers the message posted. Their
  invariant is `InStep`: outside the source task's wait the loop, the handler and
  the semaphore are idle, and during the wait at most one of them is busy, with its
  message. Without that, a binary semaphore could not say which message is meant.
  `ImplementsChannelSteps`: under `DocumentedUse` the event path implements
  `EventChannel`, but for its fairness. Besides `InStep` the mapping needs that a message which was not with the loop yet is not marked as
  handled although its address was used before (`Fresh`). `NoEventSkipped`: under
  `CarefulUse` - the handler gives, was registered before any event, and posts do
  not fail - every accepted event had its handler before it is destroyed. Its
  invariant (`Delivered`) says that the token is there once the handler returned,
  so a prompt handler's message never leaves by the timeout.
* **CommandsProofs.** `TypeCorrect`. `TruthInTurn`: any callers, losses and
  reconnections: ESP_OK is the truth until somebody gives up, does not wait, or
  sends while another waits. The invariant (`Turn`) says that until then at most one
  caller waits, the only command or result anywhere is its own (`OnItsWay`), and
  none is left when nobody waits. `SuccessIsNotInvented`: results may be swapped
  between callers, but no more calls return ESP_OK than commands were carried out;
  a successful result is in one place only (`OnePlace`) and each is covered by a
  command (`Covered`). `AnswersBalanced` and `DropsUnawaited`, for any finite set of
  callers: each step keeps the balance of answers (`NextBalance`), for which a
  command must not be accepted twice (`OnePlace`); when a result is dropped nobody
  waits, so the full queue and the result in hand are all answers of commands that
  nobody waits for. `NobodyWaitsForNothing` follows from the two: callers that wait
  outnumber the answers under way at most by what was lost.
* **RxBufferProofs.** `TypeCorrect` (the buffer stays within its size).
  `OnlySentIsHandled`: unless the parser runs out of memory an event handles only
  the message it completes, because between events the buffer never starts with a
  whole message (`NothingLeft`); and it handles junk only after a frame lost a chunk
  from its middle, because until then every chunk that is not the first of its
  message follows the one before it (`Joined`). `SoundHandled`: what began on an empty
  buffer and lost nothing is handled, because the buffer holds exactly what was
  delivered of it (`SoundInv`). `BoundedDeafness`: missed messages of one event are
  bounded by the chunks in the buffer (`DeafInv`), whatever allocations fail.
* **AuthSessionProofs.** `TypeCorrect`. `FlagTruth`: an auth_ok on the wire
  belongs to an accepted session, because a break empties the wire and the server
  answers once; nothing is accepted before a version was copied. `HandshakeIsLock`:
  in the first session the challenge is answered before the flag is set, the flag
  before the application starts, and the application's subscription is the only
  thing after that - so the handshake does what a lock on `client->json` would.
  `FirstSessionGoesOn`: while that session lasts and nothing fails in it, it is
  authenticated or refused, or the websocket task or the server has the next move.
* **LifecycleProofs.** `TypeCorrect`, `SafeWhenStopped`, `StructDangles`,
  `NothingElseIsLeft`, for any number of starts and any queue. The invariant says
  which calls go with which handle (`Phases`), what is allocated in each phase
  (`Allocated`), that `client->json` is the auth message being sent (`Json`), and
  that tasks use the event queue only if there is one and that a client destroyed
  while quiet stays quiet (`TasksOf`). `EventsFindATaker`: once the websocket task
  ran, an event source task takes what it enqueued, or is about to be created,
  unless a part of `esp_hass_client_start()` failed, in whichever order the client
  is stopped, started again and destroyed.
* **ServiceCallProofs.** `TypeCorrect`; `NoLeaks`, `FreesOnce`, `OkIsTrue`: in
  every order of the steps of the caller and of the websocket task; and
  `RefusalFreesTwice`, the defect above. The invariant says who has the message at
  each place of the two tasks, and that the call only ever has a result (`Hands`),
  what is allocated meanwhile (`Allocated`), and that the pointers into the error
  exist exactly for a result that was refused with one, and outlive it at the label
  fail (`Known`).
* **ExamplesProofs.** `ExamplesFollow`: both programs implement `Lifecycle`, step
  by step, whichever of their steps fails, except after the button task could not
  be created; `ExamplesUseStation`: and `WifiStation`, without exception. What is
  proved of the two components therefore holds in the programs: `ExamplesGiveUp`
  of the station, `ExamplesInherit` of the client. `OnlyFailuresFind`,
  `EndsCleanly`, `ButtonNeverEnds`: who may find a part of the client gone, what is
  left at the end of `app_main()`, and that the button example stays in its loop.
  The invariant has what each place of `app_main()` knows of the queues, the handle
  and the call it is in (`Orderly`, `Handles`) and of the failures behind it
  (`Reasons`); that the client is stopped before it is destroyed unless its
  shutdown timer did not start (`Destroyed`); where the button task can be
  (`ButtonTask`); and the invariant of `LifecycleProofs`, which is kept until the
  queues of a running client are deleted - from then on only that it keeps all of
  its members (`Abandoned`).
* **WifiStationProofs.** `TypeCorrect`, `GivesUp`, for any number of retries. The
  invariant says which events may be under way in which state of the driver
  (`Underway`) and that the counter and the failure bit count the disconnections
  (`Counted`).

Every invariant and every action property that holds in a run is proved. Only
model-checked is liveness, and with it the fairness of `EventChannel`: fairness
speaks of what is enabled, which the prover does not reason about. Of three such
properties the part that can be stated of single states is proved: that a caller
waits for nothing only after a loss (`StrandedOnlyByLoss`), that the first session never comes
to a halt (`FirstSessionAuthenticates`) and that the events have a taker
(`EventsAreTaken`); what TLC adds is that the steps that are possible are taken
and come to an end. Likewise `GivesUp` says that the station is never idle before
it is up or gave up (`OnlyTheStationStrands`), and `Ownership` that a message is never
without an owner (`EveryMessageDestroyed`).

## 5. What the models leave out

* After a step that reads or frees freed memory the program may do anything; the
  models go on as if the memory were intact. Properties that say such a step does
  not happen are unaffected.
* A failed send is taken as not delivered, and a sent command as whole.
* A message patched together from others (`"junk"` of `RxBuffer`) is not followed
  into `Commands` or `EventPipeline`; to these a fragment lost is a result or event
  lost. The bytes of a close code are taken for no JSON of their own.
* After `esp_hass_destroy()` of a running client, or while event source tasks
  survive one, `xTimerReset()` on the deleted timer and reads of the freed struct
  would soon crash; `Lifecycle` goes on, and says who gets there. The handlers on the
  event loop's task are in `EventPipeline`, not in `Lifecycle`.
* WebSocket continuation frames (opcode 0) are not told apart from the parts of
  one frame; sizes of payloads are counted in events.
* `message_id` and `event_id` do not overflow within any reasonable run.
* A message the parser had no memory for stays in `rx_buffer` and is then handled
  in place of the next one; the first part of `OnlyWhatWasSent` therefore assumes
  memory, and
  messages of several events can be missed any number of times in a row.
* A result is dropped for a full queue only when no caller waits: a waiting
  caller would have made room in the second `xQueueSend()` waits.
* Wording, logging, timeouts as numbers (a timeout may fire whenever its wait has
  not succeeded; `esp_hass_send_message_json()` passes seconds where ticks are
  expected, which the models cannot see), and the contents of events.

Not modelled:

* `call_service.c` of the button example: it is not in the example's CMakeLists.txt
  and calls functions the client does not have. `wifi.c` and `main.c` define
  `wifi_init()` with the same code; `WifiStation` is both.
* `esp_hass_client_ping()`: declared in esp_hass.h:218, defined nowhere.
* Calls under `ESP_ERROR_CHECK()`, which restart the device when they fail, and
  argument checks for NULL.
* The tests and their runner, the build, the documentation and CI.

## 6. What could follow

* `RxBuffer` and `AuthSession` composed: a close frame's code left in `rx_buffer`
  swallows the auth_required of the next session; `BoundedDeafness` bounds how many
  sessions recovery takes when no message needs more than one event.
* Several clients, or several callers of the life cycle; `Lifecycle` has one task
  that calls.
* An abstract specification of one command - carried out at most once, ESP_OK only
  if it was - that `Commands` implements while callers take turns; `TruthInTurn`
  states its safety.
* `RxBuffer`'s junk followed into the dispatch of messages.

To run a check: `tlc -config MCEventPipeline.cfg MCEventPipeline`; to run the
proofs: `tlapm EventPipelineProofs.tla`.
