# NarMusic: a TLA+ model

NarMusic is an HTTP server, in C++17, that downloads the audio of Bilibili
videos, finds lyrics for it on four platforms, keeps the songs in an SQLite
library and streams them to a web client. This directory models the parts of it
whose correctness depends on the order in which threads, sockets, files and
table rows are touched, checks them with TLC and proves the most important
properties with TLAPS.

Paths below are relative to the repository; the code is under `src/`.
`PROJECT.json` maps each definition to the lines it models.

## 1. The system

### Threads

| thread | code | what it does |
|---|---|---|
| event loop | `core/epoll_server.cpp` `eventLoop` (the main thread) | owns every socket: accept, read, write, timeouts |
| workers, `pool_` | detached from `handleRead` | parse a request, run middleware and handlers, queue the response |
| download pool (5 threads) | `application/download_service.cpp` `executeDownload` | one task each: transfer, lyrics, tags, registration |
| cleanup thread | `main.cpp:340-349` | every `cleanup_interval`: `removeOlderThan`, `removeExpired`, `RateLimiter::cleanup` |
| lyrics futures | `lyrics_aggregator.cpp` `fetchBest` | one per platform and request |
| log writer | `core/logger.cpp` `writerThread` | takes lines off a queue |
| tunnel threads | `main.cpp:329` `cpolarThread`, `cpolar_tunnel.cpp` `monitorLoop` | start cpolar, watch and mail its address |
| signal handler | `main.cpp:86` | calls `stop()` of the server on the main thread |
| the browser | `web/app` | handlers that run up to their next `await`, timers, requests that overlap |

### Components

For each: the state it keeps, its operations, whom it interacts with, what is
hard about it, and what makes it correct.

**Epoll server** (`core/epoll_server.*`).
*State:* `connections_` by descriptor (read buffer, write buffer and offset, the
file being streamed, last activity), `pendingWrites_`, an eventfd and a timerfd.
*Operations:* accept, read, write, stream a file, time out, queue a response.
*Interactions:* workers get a descriptor, take the read buffer under
`connMutex_`, and queue a response that is addressed by descriptor alone; the
eventfd wakes the loop.
*Hard:* edge-triggered sockets, partial sends, a file stream that spans events,
six paths that close a connection, descriptors that are reused while a worker or
a queued response still refers to them, numbers that are closed unseen by events
of the same batch while files and other threads are given them.
*Correct when:* every request of a peer that waits is answered, in order and
whole; no response is forgotten in the queue; sockets and connections stay
paired; sockets and files are released; nobody's number is closed by another.

**Request parsing, router, middleware, controllers** (`core/http/*`,
`presentation/*`). *State:* routes and middleware, fixed after start. Pure
functions of a request, but for what they call.

**Rate limiter** (`core/rate_limiter.*`). *State:* a counter and the start of a
window per request path. *Operations:* `allow` from the workers, `cleanup` from
the cleanup thread. *Hard:* window boundaries, counters that are erased and come
back. *Correct when:* the admissions of any window and of any interval are
bounded, and a refusal is earned.

**Download service and task table** (`application/download_service.*`,
`sqlite_task_repository.*`). *State:* the `tasks` table; the pool's queue; in
each running task, a private copy of its row. *Operations:* `createTask`,
`executeDownload`, `removeOlderThan`. *Hard:* the copy is written back whole
while the cleanup deletes rows; exceptions vanish in the pool; a restart loses
the queue; a transfer may never end. *Correct when:* a task is worked on by one
thread, what is shown of it fits its progress, a result is final, and tasks end.

**Music library** (`sqlite_music_library_repository.*`, `library_service.*`,
and the end of `executeDownload`). *State:* the `music_files` table and the
files on disk. *Operations:* look up, insert, replace, remove, expire, mark as
used. *Hard:* file and row change in separate steps of four kinds of actors, each
working from what it read at first. *Correct when:* a row names a file, an id
names one song, and no song is lost that nobody deleted.

**Streaming service** (`streaming_service.*`, `stream_sender.cpp`). *State:*
none. Finds the file of a task or song, marks it as used, and works out the byte
range to send. *Hard:* open, reversed, outside and unreadable ranges. *Correct
when:* the bytes and headers sent are those asked for.

**Lyrics aggregator and providers** (`infrastructure/lyrics/*`). *State:* none
across requests. Asks the platforms at once, then chooses one and fills its gaps
from the others. *Correct when:* the choice depends on what the platforms
answered and not on when, and a gap is left only when no platform can fill it.

**HTTP client** (`curl_client.*`): a pool of curl handles.
**Search and Bilibili client**: requests and parsing.
**Protection** (`auth/protection_service.h`): tokens that guard the library.
**Logger** (`core/logger.*`). *State:* a queue of lines, a flag, a file.
*Operations:* `log` from any thread, the writer thread, `shutdown`. *Hard:*
`shutdown` takes no lock; lines keep coming while the writer ends; rotation may
fail halfway. *Correct when:* each line is written once, in order, and before
`shutdown` returns if it was logged before.

**Mail** (`notification/email_sender.*`). *State:* one connection. Holds an SMTP
dialogue for each account, with timeouts. *Hard:* replies of several lines that
come in pieces or late. *Correct when:* a mail reported as sent was accepted, and
one that is not has a cause outside.

**Tunnel** (`tunnel/*`). *State:* `running_`, `publicUrl_`, the cpolar process.
*Operations:* `start` on a thread of main's, `monitorLoop` on a detached one,
`stop` and the destructor on main's. *Hard:* none of it is locked, the address
moves while it is compared and mailed, a signal may come at any moment of the
start. *Correct when:* a lasting address is mailed, nothing is mailed as news that
is none, and a signal ends cpolar and, once the server runs, the program.

**Music files and ZIP** (`filesystem/*`, `library_controller.cpp`). *State:* one
file in `/tmp` per archive, named by the second. *Operations:* pack, measure,
send, unlink. *Hard:* packed by a worker, sent and unlinked by the loop, cut by
the peer. *Correct when:* an archive holds the songs of its request, and its file
does not stay.

**Web client** (`web/app`). *State:* the task card's task, timer and session key;
the playlist, its rows in the session, the requests and pollers that are out.
*Operations:* send, poll, stop, parse, search, submit, delete rows, load the page.
*Hard:* answers are late, overlap and may never come, a POST is repeated, rows
move under a request, the page goes away. *Correct when:* what it shows of a task
is true, and what it shows as under way is asked for.

**Database**: one handle and one mutex. **Configuration and main**: wiring,
signals, the cleanup thread.

The hazards found in this code, each at its line, are in `PROJECT.json` with the
properties that watch over them.

## 2. Modules

| module | models | atomicity |
|---|---|---|
| `RateLimiter` | `rate_limiter.cpp`, keyed by path as `main.cpp:217-224` does | `mutex_` is held throughout a call: one step each |
| `EpollServer` | `epoll_server.cpp`, with the peers and the kernel's buffers, ready list and eventfd | one event, one response, one step of a worker |
| `Descriptors` | `epoll_server.cpp` again, for the numbers of its descriptors alone, in a table that files and other threads share | one event, with the read and the close of `handleRead` apart |
| `TaskPromise` | what the download service promises of a task (abstract) | |
| `DownloadTasks` | `download_service.cpp`, `sqlite_task_repository.cpp` | one call of the repository |
| `MusicLibrary` | `sqlite_music_library_repository.cpp`, the registration in `executeDownload`, `LibraryService` deletion, `StreamingService::getFilePath` | one call of the repository, one file operation |
| `LyricsSelection` | `lyrics_aggregator.cpp` `fetchBest`, and which fields the four providers leave set when they fail | one platform's answer, then the choice |
| `RangeStream` | `stream_sender.cpp`, `download_controller.cpp` `stream`, the headers of `response.cpp`, `sendFileChunked` counted in bytes | one call of `sendfile` |
| `Logger` | `logger.cpp` | what is done under `queueMutex_`, with the writer's test and wait apart |
| `SmtpMailer` | `email_sender.cpp` | one `read` of the socket |
| `Tunnel` | `cpolar_tunnel.cpp`, the start and the shutdown in `main.cpp`, `stop()` of the server | what a thread does between two accesses to the tunnel |
| `DownloadController` | `createTask`, `batchCreateTasks` and the two status handlers of `download_controller.cpp`, in front of `TaskPromise` | one call of the service |
| `TaskCard` | `download.js`, `request` of `api.js`, the unload handler of `main.js` | a handler up to its next `await` |
| `BatchList` | `batch.js`, the same | a handler up to its next `await` |
| `BatchZip` | `batchDownload` of `library_controller.cpp`, `zip_writer.cpp`, the loop's sending of a temporary file | one song packed, one entry sent |

`DownloadTasks` instantiates `TaskPromise` (`Promise`, property `KeepsPromise`)
and is shown to implement it. The clients are the other half of that contract:
`TaskCard` and `BatchList` extend `DownloadController`, which takes any behaviour
of `TaskPromise` for the service, so that what is shown of them holds in front of
`DownloadTasks` with all its threads, restarts and cleanups, without exploring
the product. In the same way `Tunnel` takes a mail to be one step that ends, which
is `DialogueEnds` of `SmtpMailer`, and `Logger::shutdown` to return, which is
`ShutdownReturns` of `Logger` but for the missed wake-up.

The `*Proofs` modules extend the module they are named after; `ServerProofs`
extends `RateLimiter` and `Descriptors`, `BrowserProofs` extends `RangeStream`,
`TaskCard` and `BatchZip`, and `NoticeProofs` extends `SmtpMailer` and `Tunnel`. The `MC*` modules give them instances for TLC. Operators that a
comment calls a mutant are not used by any specification: they are the bugs that
each property was seen to catch.

Four `MC` modules check components that share no state side by side in one
model: `MCRangeStream` (the player, the task card, the archive), `MCSmtpMailer`
(the mail, the tunnel), `MCRateLimiter` (the limiter, the playlist, the
descriptors) and `MCDownloadTasks` (the tasks, the lyrics). A variable
`used` or `side`, chosen at the start, tells which of them moves; the others stay
at their initial state, so that the states explored are the sum of the models and
not the product. The fairness of each half is unchanged: a half that stands still
is never enabled (of the tunnel, whose start is the first step fairness requires,
the state in which it stands still is the one in which main is over).

### Correspondence

* **EpollServer.** `conn` is `connections_`, `pending` is `pendingWrites_`,
  `wakeup` the counter of `wakeupFd_`, `rdl` the kernel's ready list, `mode` the
  events registered for a descriptor, `batch` what one `epoll_wait` returned,
  `writes` the swapped vector. `HandleRead` / `CheckRequest` are `handleRead`
  before and after the buffer is appended; `TakePending` / `DeliverNext` are
  `processPendingWrites`. Bytes are units of a request or a response, which carry
  the request they belong to. A client in `Malformed` sends headers that `parse` may
  throw on (`Throw`); the pool discards the exception. Numbers of sockets are a table
  of their own here, in which a second close does nothing: whose number it closes in
  the process's table is the question of `Descriptors`.
* **Descriptors.** `table` is the kernel's, which gives the lowest free number;
  `conns` is `connections_`, giving for each socket its `fileFd`; `theirs` are the
  numbers other threads hold; `batch` and `loop` are the events not handled yet and
  where the loop is. Any socket may have any event, and any call may fail: what is
  sent is `EpollServer`'s. `shut` and `struck` are history: the sockets closed during
  the batch, and that a stale event has closed a number given to somebody else.
* **RateLimiter.** `buckets` is `buckets_`; `grants` is history. A clock tick is a
  fraction of a second, because `allow` truncates the elapsed time to seconds.
* **DownloadTasks.** `table` is the `tasks` table, `queue` the pool's queue and
  `worker` the pool's threads with their private copy of a row. Each
  `taskRepo_->update` is a step of its own.
* **MusicLibrary.** `Crash` ends all actors and keeps table and files; `cut` is
  history: the rows whose writer the crash cut off after its unlink. `rows`, `disk`, `nextId` are table, files and
  `AUTOINCREMENT`; each download, deleter, player and the cleaner has a program
  counter and what it has read.
* **LyricsSelection.** A platform's answer is the set of fields it fills; the
  score and the three levels are those of `missingScore` and `fetchBest`.
* **RangeStream.** A byte is its offset, so that what arrives can be compared with
  what was asked; `info` is `FileStreamInfo`, `fd` the position of `fileFd`.
* **Logger.** `queue`, `shutdown`, `isOpen` are the members; `pushed`, `out` and
  `before` are history.
* **SmtpMailer.** `at` is the place in `sendTo`, written as a script; `out` and
  `rcv` are what `readResponse` has read and what waits in the socket, in halves
  of lines; `accepted`, `fault`, `split` are history.
* **Tunnel.** `main`, `starter`, `watcher`, `cleaner` are where the threads are;
  `object`, `running`, `publicUrl` are main's `tunnel` and its members. What is
  read of a destroyed object is any value, and the program may crash (`Crash`).
  `main` begins in `EpollServer::start`, before `running_` is set (`starting`,
  `interrupted` by a handler), and ends with the destructors, which wait for the pools
  (`closing`); `locking` and `allocating` are the places of the loop where the handler
  would meet `connMutex_` or the heap taken. `hung` is a transfer that does not end,
  `told` the host in the last mail; `unready` and `heeded` are history.
* **TaskCard.** `task`, `polling`, `light` are `currentTaskId`, `pollingInterval`
  and the status light, `saved` the session's key, `starts` and `stops` the timers
  that are set, `polls` the requests out with the answers the server has given.
  `told`, `early`, `struck`, `given`, `dropped` are history: `given` is the task this tab
  asked for last, `dropped` that the page was unloaded since. `Reload` is a load after
  the unload handler, `Reopen` one after a page that went away without it.
* **BatchList.** `list` is `batchResults`, `stored` its copy in the session, `posts`
  and `pollers` the requests and pollers that are out; each remembers the
  positions it was given. `moved` and `strayed` are history: a request or poller
  whose rows were removed or replaced, and a row it wrote or that it was out for.
* **BatchZip.** `tmp` are the names in `/tmp`, `data` the content of a file, known
  by who created it, so that an unlinked or shared file goes on to exist; `zip[d]`
  is where a download is and its place in its file (`cut` and `threw` are the ends that
  leave the file behind). `mixed` is history.

## 3. Runs

Bounds are constants named in the modules and given in the `.cfg` files.

| run | question | bounds and why they are enough |
|---|---|---|
| `rate_limiter` | how many requests pass across windows, when is one refused; is what the playlist shows true, and asked for; does anybody close, or take for its own, a number that is another's | limit 2, window of one second in half seconds, 8 instants: three windows, with the truncated half second at each end; two keys show they do not interfere. Playlist: two rows with one task made, one row with two, and two texts of one row, so that a request outlives its rows by deletion, by clearing and by a second text; a load of the page, two errors for five. Descriptors: three numbers, so that a socket, its file and another thread's meet in each, and one is closed and given again while the others stay; two events in a batch: the one that closes and the stale one |
| `epoll_patient` | are peers that wait answered, in order and whole | two peers, two keep-alive requests in two segments, a send buffer of one unit so that every response meets EAGAIN; `parse` may throw on the requests of one |
| `epoll_impatient` | is anything forgotten, misdirected or left open when peers give up | one peer that closes anywhere and one that waits, all response kinds, a missing file, one timeout; two descriptors, so that one is reused |
| `download_tasks` | does the service keep `TaskPromise`; are results final; do tasks end; is a gap of the lyrics left that a platform could fill, do lyrics and translation belong together | three tasks, two threads, one transfer that hangs; restarts and cleanup at any time. Lyrics: three of the platforms, every combination of their answers, every preference |
| `task_lifetime` | (violation) does `download.max_age` bound a task's life | two tasks |
| `music_library` | do rows and files stay together under download, replacement, deletion, expiry, play and crashes | three downloads of two songs, one deleter, one player, the cleaner: every pair of actors on one row, and a third that takes a new id; two crashes, so that one meets what another left |
| `played_is_kept` | (violation) is a file that is played kept | as above, without crashes |
| `logger` | is a line lost, doubled, reordered or left behind; does `shutdown` return | main and another thread with three lines each and a file of two: two rotations; more threads add only orders of the queue |
| `range_stream` | are bytes and headers those asked for, does a blocked transfer go on; is the card's light true and its task followed; is an archive its own | four bytes, chunks of two, room for three, every header with numbers inside, outside and too big; two requests on a connection. Card: two tasks, so that answers and timers of one meet the other, two polls out. Archive: two downloads of two songs in two seconds, so that they share a name or do not |
| `unfinished_restored` | (violation) does a page that is loaded again restore the unfinished task | the card as above, without the player and the archive |
| `smtp_mailer` | is a sent mail accepted, a failed one explained; does it end; is the address mailed; does a signal end it all | an invalid account, then a valid one; replies of up to two lines in four pieces, on both kinds of port. Tunnel: two hosts with either scheme, three moves, so that an address goes and comes back, two tries for forty, two signals |
| `mail_fails` | (violation) does a mail fail only by the server | as above, the mail alone |

What the properties say is in the comment above each. Those that show most:

* `NoLostWakeup`: a queued response always has something pending that will make
  the loop take it. It needs `processPendingWrites` to run after the eventfd is
  drained, never before.
* `AnswersInOrder`, `EveryRequestAnswered`: partial sends, file streams and
  re-armed events put together exactly the bytes of the answers, for peers that
  wait; a peer whose requests `parse` throws on gets no answer to those, and disturbs
  nobody. When a peer gives up, a late answer may reach the next connection on the
  same descriptor, and a stream that meets end of file in the same batch leaks its
  file: `StraysHaveNoHome` and `LossNeedsCause` show that nothing else makes either
  happen.
* `HoldersMatch`: whichever way connections end, `connections_`, the files being
  streamed and other threads keep the numbers that are theirs. The property stops
  where the code does: when a timeout or a failed delivery has closed a socket whose
  event is still in the batch, and its number was given to a file or to another thread
  meanwhile, that event closes it. It does not stop before: a stale event whose number
  is free, or a new connection's, which loses that connection whole, leaves everything
  matched.
* `SlidingBound`: at most `2 * MaxRequests` requests pass in any interval of the
  length of a window, however the cleanup falls.
* `KeepsPromise`, `ResultIsFinal`: the cleanup deletes rows of running tasks,
  which write them back; still no result is overwritten or comes back.
* `IdNamesOneSong`, `NoDanglingRow`, `NoSongLost`: registration, deletion, expiry
  and play each work on what they read steps ago.
* `TranslationBelongs`, `NoGap`: see the observations below.
* `EveryLineWritten`, `InOrderOnce`, `ShutdownFlushes`: the log; `ShutdownReturns`:
  but for one wake-up that can be missed, the shutdown ends.
* `SuccessIsTrue`, `DownloadedIsTrue`: a green light or row is true however answers
  cross; `FollowsUnfinished`, `WaitingIsFollowed`, `ResultIsTold`: what is shown as
  under way is asked for, and its result shown. `FollowsUnfinished` holds over a page that dies
  and is opened again, and not over the ordinary unload (section 5). The first four except what an
  earlier task's timer or answer, or a request whose rows are gone, has hit: there
  the code fails, see section 5.
* `ArchiveIsOwn`: two archives in different seconds never touch each other's bytes,
  though one may be sent while the other is packed.
* `AddressIsMailed`, `OnlyNewsIsMailed`, `CpolarIsStopped`: the tunnel.
* `SignalEnds`: a signal that comes once `running_` is set ends the program, whatever
  the starter, the monitor and the cleaner are at, but for two cases the property
  names: the handler waits for a lock or the heap that main's thread holds, or a
  transfer hangs and main waits for its pool.
* `OnlyWhatWasAsked`: what reaches the player is the range it asked for, however
  it is cut, blocked and resumed, compared with a definition of what HTTP means.
* `SentIsAccepted`: no late or split reply can pass for the acceptance of the
  message, because `DATA` alone wants 354.

### Fairness

* **Epoll:** the loop and each worker run on (`WF`): they are threads that block
  in nothing else. The network delivers what was sent and reports a reset. A
  peer that has begun a request finishes it, and reads what is sent to it; no
  peer has to send a request.
* **Downloads:** a pool thread takes its next step, and a transfer that is not in
  `Hung` ends. Nothing is assumed of those in `Hung`, because no timeout is set on
  them. The cleanup and restarts are never required.
* **Logger:** the writer runs on, and a thread that has queued a line notifies.
  No spurious wakeup and no further line is required.
* **RangeStream:** the server's steps and a player that reads. No timeout and no
  new request is required; what is shown is that EPOLLOUT takes a transfer up.
* **TaskCard:** timers fire (`WF`). Of status requests, which are repeated, some
  are served and some answers arrive (`SF`): each may still be lost. The service
  is required to do nothing: `ResultIsTold` begins when it has a result.
* **Tunnel:** its three threads and main go on (`WF`), main leaves `malloc` and the
  sections it enters under `connMutex_`, nothing is required of a transfer, and the API of a tunnel that is up does not fail for
  ever (`SF`). No signal and no move is required.
* **SmtpMailer:** a read returns or times out (`SO_RCVTIMEO`). Nothing is
  required of the server.

## 4. Proofs

All are for every value of the constants that satisfies the module's `ASSUME`s.

* **ServerProofs**, on the limiter: `Typing`, `Capped`, `Sliding`, `Refusals`. `IInv` ties each
  bucket to the log of admissions: the counter is the number of admissions since
  the window's start, windows in the log are at least a window apart, and an
  erased bucket has no admission younger than a window. `WindowCap` follows from
  the first part, `SlidingBound` from the first two by taking three windows;
  neither is inductive alone, since the counter says nothing of the log.
  On the descriptors: `TableTyping`, `NumbersHeld`. `DInv` adds to `HoldersMatch` what a
  step relies on (`EventsKnown`): an event that is still to be handled, and the number
  `handleRead` is about to close, name a socket that is open, or one closed during this
  batch. In the first case the close is the loop's own; in the second it hits nobody,
  a new connection, which is dropped with its entry, or sets `struck`.
* **EpollServerProofs:** `ResponsesNotForgotten`: `NoLostWakeup` with the types of the
  variables it speaks of is inductive. The proof splits a step by who takes it and
  shows that only three actions can disturb it. `TypesCorrect`,
  `SocketsMatchConnections`: `TInv` adds to the types that no send buffer holds more
  than its size, `written` is never past the end of `writeBuffer`, and there are at
  least as many files open as connections that stream one (`FilesOK`). Sockets and
  connections match here in a table of the sockets' own (`ConnOwnsSocket`, part of
  `TInv`); the property checked is that of the process's table, `HoldersMatch`. Without these
  a partial send could take a negative number of units, and closing a file could
  take the count below zero. Each way a connection may end or change is one lemma
  (`EraseCloses`, `EndLeaves`, `UpdateKeeps`, `ChunkKeeps`), cited by the actions.
  `AnswersOrdered` and `FilesClosed` are for peers that leave only once answered
  (`Impatient = {}`), connections that do not time out (`MaxTicks <= ConnTimeout`) and
  requests that parse (`Malformed = {}`; the run `epoll_patient` checks them with one
  that throws as well): without the first two a descriptor no longer says
  whom an answer is for, and both properties are false. `OInv` says that all the
  units for a client, those received, those in the socket and those the connection has
  still to send, are whole answers to its requests in order (`Lines`); that a request
  is in one place: in the read buffer, detached to the pool, with a worker, queued, or
  swapped out (`Single`), where it is what was asked (`Contents`); and that the
  connection whose request it is has nothing left to send (`Quiet`), so that the
  answer goes behind what went before and a stream replaces none. `Moved`, `Checked`,
  `Taken` and `Replied` are the steps of one connection, with no other in sight;
  `LineFrame` and `LineEnds` are what they do to the rest.
  `OnlyStraysGoAstray` is for all peers and timeouts, where `OInv` does not hold.
  `SInv` says instead whose things are: a client has one socket (`OneSocket`), what is
  read from it is its own (`Senders`); every unit in its hands or kept for it, and
  every call under way or queued for its descriptor (`Calls`), is its own or of a
  connection that ended with a request begun (`Strays`, `Addresses`, `JobsOwned`). The
  400 is the difficult part: its unit names nobody, so that it must be shown that a
  client alone never gets one. So long as no other connection ended so, the requests
  of a client are told apart (`Neat`): what was read of it begins with a whole request
  when a worker takes it, and therefore parses. `StrayFrame`, `InsideFrame` and
  `HandsStray` carry the parts an action leaves alone.
  `FilesLostHaveCause` proves the action property `LossNeedsCause` from `SInv` and
  `FInv`. What the timer, an error, a write and the end of a file do to the count of
  open files follows from the step alone (`LossFrame`). That no response ends or
  replaces a stream before some connection departed does not, and is what `FInv` says:
  a response is alone on its descriptor among workers, queue and loop (`OnePlace`),
  and while a request is being answered, and while its answer is streamed, the client
  has sent nothing else and has not got the last unit of the answer (`Calm`), so that
  it cannot ask again. The last unit of a file is the last of its stream (`LastEnds`),
  and is not sent while the file is open. `CalmFrame` and `OneMoves` are the frames.
* **DownloadTasksProofs:** `Typing`, `SinglePlace`, `Refinement`, `FinalResults`. `IInv`
  is `TypeOK`, `Alone` (a task is in the queue or with one thread) and `ResultOver`
  (a final row has nobody working on it). `Alone` is what makes a private copy
  harmless; with it each step maps to a step of `TaskPromise`, or a stutter.
  The second part, on the metadata of a song (`LyricsSelection`, which shares no
  state with the tasks): `NothingMissing`, `OneSource`. `LyricsIInv` says that an
  answer holds fields of its own platform only (`Own`) and that the result is made of
  all the answers. The argument is `PrimaryIsBest`: the platform chosen has lyrics if
  any has, and when it has foreign lyrics alone, it scores at most 111 and a
  platform with foreign lyrics and their translation would score 200 or more. That it
  exists, and which one a search comes to first, rests on `LeastExists`.
  `ProvidersAssumption`: there is a provider (without one `fetchBest` returns at once,
  and main adds four).
* **MusicLibraryProofs:** `Inductive`, `Typing`, `SameSongOrNone`, `SongsAreKept`,
  `RowsHaveFiles`. `IInv` is `TypeOK`, `Songs` (the id each actor holds is below
  `nextId` and names the song it looked up, or no row) and, when no two downloads
  share a path, `Disk` (a file is gone only if an actor between its unlink and its
  write to the table accounts for it).
* **LoggerProofs:** `Inductive`, `Typing`, `NothingLost`, `ShutdownWaits`, `RecentKept`.
  `IInv` says that what is written, what the writer holds and what is queued, put
  together, is what was logged, and what the files hold of it; `InOrderOnce` alone
  says nothing of the queue.
* **BrowserProofs**, on the player, the card and the archive, which share no state:
  * `StreamTyping`, `BytesAsAsked`, `HeadersOfTheAnswer`. `StreamIInv` says that what
    was sent, with the player or in the socket, is the bytes from the first one of the
    parsed range on (`Sent`), that file position and `fileOffset` are that far into
    it while a transfer is under way (`Place`), and that the headers were made of
    that range (`Answer`). `RangeIsWanted` is the lemma about `parseRangeHeader`: for
    every header, the range it returns, cut off at the end of the file, is what HTTP
    means. `OnlyWhatWasAsked` follows from the two; it is not inductive, as it says
    nothing of where the next chunk comes from.
  * `CardInductive`, `GreenIsTrue`, `Followed`. `CardIInv` adds that the answers on
    their way were true when they were given, which `TaskPromise` keeps true, and how
    many of the stop timers belong to earlier tasks. `Followed` is about the task the tab
    asked for last: until the page unloads, or something of an earlier task comes, it
    is the card's and the session's.
  * `ZipInductive`, `OwnSongs`, `NothingStray`. `ZipIInv` says who may hold a name in
    `/tmp` and whose entries are in a file, for downloads that shared their second
    with no other.
* **NoticeProofs**, on the mail and the tunnel:
  * `Typing`, `NoFalseSuccess`, `NoFailureUnexplained`. A reply that comes late or in
    parts is taken for a later answer, so that `IInv` speaks of all that has arrived
    and was not judged, and of the commands the server has still to answer: no 354 is
    among them before `DATA` is sent, and nothing but the answer to the message after
    its 354 was taken (`Order`, `Claim`); as long as nothing went wrong, one command
    or one reply is out (`InStep`). `ScriptFollows` is the order of the steps.
  * `TunnelTyping`, `NoCpolarLeft`, `NewsOnly`. `TunnelIInv` adds what there is for main
    to stop at each step of the thread that starts the tunnel (`Phases`, `Stopped`),
    and, while the server serves, that the last mail told the address the tunnel
    has unless the monitor is about to (`Followed`). `TriesAssumption`: the API is
    asked at least once (`cpolar_tunnel.cpp` asks forty times).
* **BatchListProofs:** `Inductive`, `DownloadsAreTrue`, `WaitingFollowed`. The two
  properties say nothing of tasks that no row knows yet, so `IInv` adds: a task that
  was created for a request which is still out is of that row's song, in no row and
  in no other request (`Requests`, `OneEach`); no two rows have one task, in the list
  or in the session (`Sheet`); a poller that has not moved knows the rows of its tasks,
  and the answers on their way to it were true (`Asked`). `QuietStep` and `EditStep`
  carry the parts that most handlers leave alone.

Only model-checked: liveness (`EveryRequestAnswered`, `ClosedIsReleased`,
`EveryTaskEnds`, `EveryLineWritten`, `ShutdownReturns`, `RequestEnds`,
`DialogueEnds`, `ResultIsTold`, `AddressIsMailed`, `SignalEnds`), which the prover
cannot do.

## 5. Where code and documents differ

* `task_lifetime`: `README.md:99` calls `download.max_age` the longest life of a
  task; a task's age starts anew with every update, since `created_at` is not read
  back.
* `played_is_kept`: `domain/task.h:47` says a mark prevents the cleanup of what is
  played; a finished task's file is played without it, and the cleanup works off
  a list read before.
* `unfinished_restored`: `download.js:57` says that a page restores the unfinished
  task of last time; the unload handler (`main.js:36-38`) calls `stopPolling`, which
  removes its key, so that after an ordinary unload nothing is restored. Only a page
  that goes away without the handler is.
* `mail_fails`: `README.md:14` promises a mail when the address changes;
  `readResponse` looks for the hyphen of a continuation line in the wrong place,
  so that a reply in two reads is taken for two replies, and the mail fails.

Observed, with no document to differ from:

* The card asks for ever for a task whose row was removed: the server's 404 is
  thrown by `request`, and `download.js:288` is never reached.
* The stop timer of a finished task, and late answers about it, act on whatever
  task the card has then: they stop its polling, or show their result for its own.
* A POST that timed out is repeated although the server may have served it: the
  song is downloaded twice, and nobody asks for the first.
* The playlist names rows by position. When rows are removed while a request or a
  poller is out, the answer marks other songs, or throws, and then throws again in
  the `catch`: rows stay at downloading and the list is not saved. Rows that were
  being submitted when the page was left stay at downloading for ever. After five
  failed polls rows are failed though their tasks go on, and so is the row of a
  running task whose table row the cleanup has removed.
* Two archives begun in one second share a file: they truncate, mix and unlink each
  other. A connection closed before the archive was sent, and an exception while it
  is packed (`library_controller.cpp:159`), leave the file in `/tmp`.
* cpolar outlives the server when it gave no address in time, or when the signal
  came before it did. At shutdown the detached monitor and the starter may use the
  destroyed tunnel. A change whose mail failed is not mailed again.
* A signal that arrives while the main thread holds `connMutex_` or is inside
  `malloc`, or during the handler itself, may hang the program for ever. One that
  arrives before `running_ = true` (`epoll_server.cpp:116`) is undone: the loop spins on
  closed descriptors until another signal comes. And a transfer that hangs keeps the
  process after main has returned (`download_service.cpp:25-27`).
* The loop closes the number of a stale event unseen (`epoll_server.cpp:163`, `226`,
  `236`): it may be a file opened since for another response, or another thread's.
* A header line that ends with its colon, as the last one, makes `parse` throw
  (`request.cpp:85`): the request is not answered. A last line `Content-Length:` makes
  `isCompleteRequest` throw (`request.cpp:29`) on the loop's thread, where nothing
  catches it, and the program ends.
* A crash leaves the files of downloads that were not registered, and a row
  without a file when it falls between an unlink and its write to the table.
* `shutdown()` of the logger takes no lock, so that its notification may come
  between the writer's test and its wait: the join then never returns. Lines
  logged after the writer's last swap are never written.
* A `Range` outside the file is answered with 200 and a `Content-Length` that is
  not positive, or with one whose bytes are never sent; a last byte too big for
  `long long` gives the tail of the file as if it were all of it.
* `supplementMissing`'s branch for missing lyrics finds nothing whenever it is
  reached: a platform with lyrics scores at least 100 and one without scores 0, so
  the choice has lyrics if any platform has (proved: `PrimaryIsBest`). The third level may take foreign
  lyrics without a translation, with album and cover (111), over Chinese lyrics
  with neither (100).
* A download that found a row which is then deleted updates nothing: its file stays
  without a row. `NoSongLost` leaves songs somebody looked up for removal out.

## 6. Not modelled

Router, middleware and protection tokens: routes are fixed before the server
starts, and the tokens are a set under one mutex. The HTTP client's pool of handles:
a handle is taken and given back under one mutex, and none is shared. The player and
the library view of the web client: each renders what one request returns. The
text of lyrics, the parsing of web services, audio tags, archive bytes,
configuration, static files and JSON: sequential data conversion that a unit test
reaches. Vendored code, which is most of the lines under `src/`, is external and
modelled only as it is used.

In what is modelled: `EpollServer` has no request above the size limit, no
pipelining, no peer that closes one direction only and no exception of
`isCompleteRequest`; what it says of files (`NoFileLeak`, `LossNeedsCause`) and of
sockets supposes that no stale event meets a number given again, the case `Descriptors`
singles out; `Logger` has no levels and
no console; `BatchList` does not follow what the server does for a request that was
given up, and has no liveness; `Tunnel` takes every mail to be configured.

## 7. Plan

1. `EpollServer`: pipelining peers and `MAX_REQUEST_SIZE`.
2. An abstract library that `MusicLibrary` implements, and an abstract log for
   `Logger`.
3. `BatchList` under fairness: every row that waits is settled in the end.
