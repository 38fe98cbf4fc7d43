# Porphyrion in TLA+

Porphyrion is an HTTP client that runs in the browser (`web/`), with a small server in C
(`src/`) that serves the page, keeps the list of saved requests in `data/requests.json`,
sends requests on behalf of the page (`/proxy`) and runs load tests (`/stress/`). This
directory holds TLA+ models of it, the TLC configurations that check them on small
instances, and proofs that TLAPS checks for every value of the constants.

Run everything inside this directory:

    tlc -workers 2 -config MCConnQueue.cfg MCConnQueue    # any run of PROJECT.json
    tlapm ConnQueue_proofs.tla                                  # any *_proofs module

`PROJECT.json` lists the runs, the mutations of the code each property catches, the source
lines of every definition, the findings, the hazards and the theorems.

## The system

| part | state | operations | talks to |
| --- | --- | --- | --- |
| acceptor and pool (`main.c`) | ring of file descriptors, mutex, condition variable, worker threads | `queue_push`, `queue_pop`, `start_workers`, `reject_busy` | hands each connection to `handle_client` of a worker |
| request reader (`router.c:71-151`) | the worker's `reqbuf`, the parsed request that points into it | `read_full_request` | `dynbuf.c`, `http_parser.c`; its verdict selects the route |
| saved list (`router.c:215-252`, `292-314`, `http_response.c`) | `data/requests.json`, its temporary file, `g_save_lock` | `POST /save`, `GET /requests.json` | file system, browser windows |
| load test (`stress.c`) | `g_job`: flags, counters, flow, first error; one manager thread, one thread per virtual user | start, stop, status; users send steps through libcurl | HTTP workers call the handlers, users and manager share `g_job` with them |
| proxied calls (`call_api.c`, `curl_util.c`, `proxy_networking.c`) | the worker's response buffer and header buffer | `perform_api_call` | libcurl, `dynbuf.c` |
| growable buffer (`dynbuf.c`) | data, len, cap, max, truncated | reserve, append, reset, free | all of the above |
| HTTP parser, JSON tokenizer, decoding | none between calls | pure functions over a buffer | reader; load test; proxy |
| list in the browser (`app.js`) | `savedList` of each window, requests in flight | load, save, add, move, remove | `/save` and `/requests.json` |
| folders, import, graph (`app.js`, `import.js`, `graph.js`) | the folders and settings among the entries of `savedList`, the side bar, the graph | context menu, dragging, `doSave`, `importAny`, settings of a folder | the list above; `doSend` inherits settings |
| cURL commands (`app.js`) | the form | `generateCurl`, `importCurl` | the clipboard; a new tab |
| tabs and sending (`app.js`) | tabs, the active one, the form | `doSend`, `switchTab`, `saveCurrentTabState` | `/proxy`; OAuth |
| OAuth sign-in (`app.js`, `oauth.html`) | popup, message, timers, tokens in the form | `oauthEnsure`, `oauthAuthCode`, `writeOauth` | the popup posts a message; the token endpoint through `/proxy` |
| sync (`sync.js`) | its settings; `savedList` | pull, push | a remote through `/proxy`, `/save` |
| assertions (`assert.js`) | none | a pure function | `doSend` |

What is hard in it:

- **Threads.** Connections pass from one thread to many through a ring and a condition
  variable. Load-test users update counters without a lock while HTTP workers read them,
  and starts, stops and the end of a run meet in any order.
- **Files.** Several workers save and serve one file; writes, renames and removes fail one
  at a time; the process is killed and started again.
- **Sockets.** A request arrives in any pieces, breaks off, stalls until the 30 s timeout,
  or is longer than it said; the buffer that holds it moves while pointers point into it. A proxied
  call has no timeout: an upstream that keeps silent keeps a worker.
- **The browser.** Every save is the whole list, on a connection of its own, and nobody
  waits for its answer or looks at it; the first load races the first edit; windows do
  not know of each other. One form serves all tabs, and answers and tokens arrive when another
  tab, or another grant type, is in it. Sign-ins share one popup, whose message races the
  poll that sees it closed.
- **Names.** Folders exist only in the text of entries. Some code trims their names and some
  does not, settings are entries without a folder, and the side bar, the graph and the
  file each hold a list of their own.

What makes each part correct: a connection has one owner until it is closed, no worker
sleeps while one waits, and workers held by an upstream hold up nobody as long as one comes back (pool). A request is routed whole, with pointers into memory that
is there, or is refused for a reason (reader). The saved list is an atomic register, and an answer comes from one
save (saved list). One run at a time, whose numbers add up, which ends and which a stop
ends (load test). No byte beyond the memory, no memory beyond the limit, and a mark that
tells whether bytes are missing (buffer). What the user saved is on the server
(list). Requests keep their identity, every view shows the list, and settings are inherited as
they are shown (folders). A request copied as a command is the same request when it comes back
(cURL). Codes and tokens stay with what they were given for, and a sign-in ends (OAuth).

## Modules

| module | models | checked by |
| --- | --- | --- |
| `ConnService` | abstract: a bounded FIFO of connections that are served | the refinement in `ConnQueue`, proved in `ConnQueue_proofs` |
| `ConnQueue` | `main.c`, one action per access to the ring, the lock and the condition variable | `MCConnQueue`; `ConnQueue_proofs` |
| `StressJob` | `stress.c`: handlers, manager, users, one action per access to shared memory | `MCStressJob`, two cfgs; `StressJob_proofs` |
| `DynBuf` | `dynbuf.c`, the doubling loop step by step | `MCSequential`; `Sequential_proofs` |
| `SavedList` | abstract: an atomic register that survives restarts | the refinement in `SaveStore` |
| `SaveStore` | `handle_save_route`, the route of `requests.json`, `serve_file`, over inodes | `MCSaveStore`, three cfgs; `SaveStore_proofs` |
| `RequestReader` | `read_full_request` and its verdicts | `MCSequential`; `Sequential_proofs` |
| `Collections` | `savedList` and `/save` seen from the browser | two cfgs; `Collections_proofs` |
| `SendTabs` | tabs, form, `doSend` and Get Token of `app.js`, with what they wait for | `MCSendTabs`; `SendTabs_proofs` |
| `HttpParser`, `HttpInputs` | `http_parse_request`, on a buffer that fills; the requests of the run | `MCSequential`; `Sequential_proofs` |
| `Sequential` | `DynBuf`, `RequestReader`, `HttpParser` and `Curl` side by side, and what the reader takes from the buffer and the parser | `MCSequential`; `Sequential_proofs` |
| `Folders` | folders, settings, import and graph, entry by entry | `MCFolders`; `Folders_proofs` |
| `Curl`, `CurlInputs` | commands: `generateCurl`, `curlTokens`, `parseCurl`, and what `doSend` makes of the form | `MCSequential`; `Sequential_proofs` |
| `OAuth` | tokens of the form, token requests, the popup | `MCOAuth.cfg`; `OAuth_proofs` |

`Sequential` has the parts on which nobody else acts while they run, and `MCSequential` runs them: a
behaviour begins as one of buffer, parser, reader or commands and stays it.

How they fit: `ConnQueue` hands a worker to `handle_client`, which `RequestReader` models;
what `RequestReader` may leave in the body (all of it, or, after a broken connection, less)
is what `SaveStore` takes as a body; the register `SaveStore` implements is the `server` of
`Collections`; `RequestReader` uses of `dynbuf_reserve` what `DynBuf` shows of it (`ReserveContract`), and of
`http_parse_request` what `HttpParser` shows: it asks for more until the header part is there,
finds the body behind it (`ParserMatchesGrammar`), and says the same each time it is asked again
(`PiecesDoNotMatter`). `Sequential` puts these side by side. `Collections` has
lists as wholes, in several windows; `Folders` has one window and every entry. `SendTabs` says in which
tab a token lands, `OAuth` what is written and whether it belongs together.

### Correspondence with the code

- `ConnQueue`: `head`, `tail`, `count`, `fds` are `g_queue`; `pc` says between which two
  accesses a thread is; `owner` of a descriptor is derived. The condition variable is the
  set of waiting threads: a signal wakes one, and threads also wake for no reason. Start-up
  failures, rejection with 503 and the exit of the acceptor are actions. `handle` is all of
  `handle_client` that asks nobody else, `perform` the call of `curl_easy_perform` for `/proxy`
  (`Forward` begins it, `Return` ends it and closes).
- `StressJob`: `job` is `g_job`, `hpc` the HTTP handlers, `mpc` the manager, `vu` the users
  with their local counters. Each atomic load, store and addition of the code is a step of
  its own, so a status reads its numbers at different moments. `hist` records what happened,
  for the properties only. The outcome of a request (success, HTTP error, connection error)
  is chosen freely; times are left out.
- `DynBuf`: `len`, `cap`, `truncated` are the struct, `need` and `newcap` the locals of
  `dynbuf_reserve`, `n` the argument of `dynbuf_append`; `realloc` may fail every time.
- `SaveStore`: `tmp` and `final` are the two names, `data` the contents of the inodes, in
  blocks; `lock` is `g_save_lock`; `pc` says where a worker is in the handler. Each system
  call is an action, with its failure beside it. `Restart` loses everything but names and
  inodes. A body is a list of the browser, cut to a prefix when the connection broke.
- `RequestReader`: `len` and `cap` are `reqbuf`; `head`, `length`, `sent`, `malformed` say
  what the client sends; `ptr` says whether `req.body` points into the buffer as it is. The
  iteration limit of 16 M (`router.c:75`) is left out: each iteration reads a byte at least, and
  the buffer ends at 8 MB.
- `Collections`: `list` is `savedList`, `flight` the `/save` requests on their way, `loading`
  and `loaded` the state of `loadSaved`. A list maps an entry to the edit that wrote it, so
  order and wording are left out and no two edits look alike; `newest` is the list with every edit.
  `Apply` is the save handler at its instant in `SavedList`.
- `SendTabs`: `open`, `ahead`, `active`, `data`, `id`, `resp` are `tabs` and `activeTabId`, where `ahead`
  keeps the order of the array: which tabs are to the left of an open one; `form` and `shown` are
  what the page shows; `job` says what a send or a token request waits for and what it took
  along. The pieces of code between two awaits are the actions. A field's content is the
  tab it was typed in, so the model sees it wander.
- `HttpParser`: `Parse` is `http_parse_request`, function by function, over classes of bytes;
  `Receive` is the loop around it. The grammar at the end of the module says what a request is
  (`IsHead`) and which headers it has (`AreHeaders`) without following the parser.
- `Folders`: `list` is `savedList`, `posted` what `/save` was sent last, `shown` the list `renderSaved`
  drew, `graph` the nodes `buildGraph` made and whether `renderSaved` has made them stale, `form` the
  tab. A folder is a sequence of names, and `Trimmed` says which of them have blanks around. A
  handler that throws in the middle (rename, delete) does what it did until then. The drop of a
  request is handled by every folder around the one it is dropped on, as the event bubbles.
- `Curl`: texts are sequences of atoms, so that quoting, splitting and escaping work as in the code;
  encodings map an atom to a coded one. `Scan` is the loops of `curlTokens` as an automaton, `Reads` gives it
  the atoms with continued lines taken out. A command written by hand is a sequence of words, each behind its
  gap, in bare and quoted parts; `IsPart` and `IsWord` say what may be written. `Arguments` and
  `ReadHeader` the loops of `parseCurl`, `Sent` what `doSend` would send.
- `OAuth`: `form` are the OAuth fields, `call` the sends and uses of Get Token with the settings they
  read before they waited, `window` the popup of a fixed name, `mail` its messages. The server
  answers, refuses and lets tokens expire at any time. `state` and `code` of a sign-in are its own name.

## Runs

| run | instance | properties | shows |
| --- | --- | --- | --- |
| `pool` | 2 workers, ring of 2, 4 descriptors, fair | `TypeOK`, `OwnedOnce`, `WorkConserving`, `ImplementsService`, `EventuallyServed` | one owner per connection; no worker sleeps while one waits; the pool is the FIFO service, with its fairness; a connection is closed or waits for its own upstream, unless upstreams hold all workers for good |
| `stress_run` | 2 users, 1 client, 1 run | `OneRunAtATime`, `FinalReportExact`, `StopBounded`, `FullBudget`, `FailFastJustified`, `StopSticks` | users, manager and counters agree in a run with polls, stops and failures |
| `stress_overlap` | 2 clients, 2 runs of 1 user, fair | `FlowStable`, `RunEnds` | overlapping handlers do not disturb the flow of a run, and every run ends |
| `sequential` | buffer: limit 13, first chunk 2, appends of 1, 3, 4 and 14; parser: limits of 3, 3, 2, 4 and 2, ten request lines, up to 3 of nine lines, pieces of 1 or 8; reader: limit 9, chunk 4, headers of 5, 8, 9 bytes, bodies to 10; commands: pairs of words of up to two atoms in every way to quote them, and requests with each kind of auth and body; fair | `WithinBounds`, `TruncatedIsHonest`, `CallsEnd`, `ParserMatchesGrammar`, `PiecesDoNotMatter`, `PointersHold`, `RightVerdict`, `ConnectionEnds`, `WordsReadBack`, `SentAgain` | memory and mark hold with a failing `realloc`; the parser takes what the grammar says, in any pieces; whole requests are routed with fresh pointers and 413 is right; words are read as the shell does, and a request copied and pasted is sent again the same |
| `save_store` | 2 workers, 2 lists of 2 blocks, 3 inodes, symmetric | `ServedWhole`, `ImplementsRegister` | saves and gets are an atomic register, through every failure and restart |
| `save_answers` | 2 workers, fair | `CallsEnd` | no error path keeps the lock |
| `save_cut` | uploads may break | `ListsKept` violated | a broken upload replaces the list by a part of it |
| `collections` | 2 windows, 2 entries, 2 edits, 1 reload | `TypeOK`, `ServerFollows` | a user who waits finds the newest list on the server |
| `collections_order` | 1 window, 2 edits | `SavesKeepOrder` violated | of two saves in flight the older may win |
| `tabs` | 2 tabs open of 3 ids, 1 send, 1 Get Token, 1 entry | `TypedKept`, `LandsHome`, `ShownIsActive`, `InactiveKept` | what was typed stays in its tab; late answers touch the active tab only; who stays finds the answer at home |
| `folders` | lists of up to 4 entries, 3 ids, names with and without blanks, folders of 2 names, 3 operations and the graph | `IdsUnique`, `ViewsAgree`, `InheritsAsShown`, `FolderOpsExact` | requests keep their identity; file, side bar and graph follow the list; settings are inherited as shown; rename and delete take what is shown beneath a folder, and no more; a rename that breaks off loses nothing |
| `oauth` | 2 calls, 2 grant types, 2 tokens, 1 expiry, fair | `OwnCodeOnly`, `AnswerBeatsClose`, `TokensMatchGrant`, `SignInsEnd` | codes and tokens stay with what they were given for, an answer is not lost to the poll, and sign-ins end |

The bounds. The ring wraps with two places and more descriptors than places, and it is full
and empty while both workers wait. Two users are enough for every interleaving of a pair,
and the counters reach and pass each threshold of the code. The buffer's limit is not
reached by doubling, and the sizes fall on both sides of the first chunk, of a doubling and
of the limit. Two workers are a writer beside a writer or a reader, two blocks are enough to
tear a file, and three inodes are all that two workers can keep (two names and one replaced
file that is being served). Header parts and bodies end before, at and after the chunk and
the limit. Two windows and two edits give each order of two saves. Two open tabs are the
one a job began in and another, and a third id is that of a tab that was closed. The parser's
inputs are on both sides of each of its limits, with a line that is wrong at each place where
one can be. Reloads are bounded by `MaxReloads`, edits by `MaxEdits`, appended bytes by
`MaxGiven`, open tabs by `MaxOpen`, lines by `LinesSent`, the bytes of a read by `Pieces` (one, so that a request is cut everywhere, and eight, so that several
lines come at once), operations on
folders by `MaxOps`, entries by `MaxList`, names in a folder by `MaxDepth` and the times a token
expires by `MaxTime`; these bounds stand in guards and inputs. Three operations on folders are enough to
give a folder settings, move or rename something across it and use the result, and the lists they
begin with already hold what earlier operations leave behind. Two sign-ins are the owner of a code and
another that listens for it. Each command has two words in it, so that what one leaves open shows
in the other.

`MCSaveStore`, `MCSendTabs` use symmetry, which is sound there: their properties under symmetry are
invariants, step properties and a refinement without fairness. `MCSendTabs` also leaves out of the
view what the active tab held when it was last left, which is overwritten before it is read.

Deadlock is checked everywhere except where the system may stop: the cfgs say why.

## Fairness

- `ConnQueue`: weak fairness of each thread; the kernel schedules threads. Taking the mutex
  and waking up are strongly fair: `pthread_mutex_lock` and `pthread_cond_wait` return in the end when
  they can again and again. Reading a request and writing a reply end because the client's socket has timeouts
  (`SOCKET_TIMEOUT_SEC`, `router.c:325-328`). Nothing is assumed of `Return`: `perform_api_call` sets neither
  a timeout nor a least speed (`call_api.c:133-143`), so an upstream may keep a worker for ever. Hence
  `ConnService` promises only to finish connections that are not `away`, and `EventuallyServed`
  speaks of the behaviours in which not all workers are held from some moment on; without that
  proviso TLC finds a connection that waits in the ring for ever.
- `StressJob`: weak fairness of the manager and of each user; the timeout `stress.c:466` sets ends each
  request.
- `SaveStore`: weak fairness of each worker (socket timeouts bound sends) and strong fairness
  of the save lock.
- `RequestReader`: weak fairness of the worker: `SO_RCVTIMEO` ends every read.
- `DynBuf`: a call that was made runs on.
- `OAuth`: weak fairness of the delivery of messages and of the two timers of a sign-in; that a
  message posted before the window closed arrives before the half second of the second timer is over
  stands in the guard of `GraceEnds`, as the comment at `app.js:332` expects it. Nothing is
  assumed of the server and of the user: a sign-in whose window stays open may wait.

No fairness is assumed of clients, users of the page, or failures.

## Proofs

`ConnQueue_proofs` proves, for any number of workers, descriptors and places, that `TypeOK`
(`TypeCorrect`), `OwnedOnce` (`OneOwner`) and `WorkConserving` (`NoneSleepsInVain`) are invariants, and
that the pool implements the steps of `ConnService` (`ServesInOrder`). Assumed: the ring has a place, the
acceptor is not a worker, and there are finitely many workers (the four `ASSUME`s of `ConnQueue`).
`OwnedOnce` alone is not inductive: that storing into the ring overwrites nothing depends on where
head, tail and count are. The inductive invariant adds `Mutex` (a thread inside the critical section
holds the lock), `RingShape` (tail is count places after head, except between the store and the
advance) and `Phase` (what a thread between two accesses knows). Each action has its step in the
proof; `SuccStep` is the lemma on indices modulo the capacity. For `WorkConserving`, `SawEmpty` says that
who is about to wait has seen the ring empty under the lock, and the proof counts the workers that are on
their way to the ring: a push that finds somebody waiting wakes one more of them. For the refinement the
abstract line is read off the ring (`PlaceIs`, `PlaceLive`: the places from head on, modulo the capacity),
`HandEmpty` says that the main thread has a descriptor in hand only from its accept until it has queued or
closed it. An accept is the service's `Arrive`, the test that finds the ring full its `Refuse`, the advance of
tail its `Admit`, the busy reply its `Turn`, the advance of head its `Begin`, the call of an upstream its
`Forward` and a worker's close its `Finish`; every other access is a stutter.

`StressJob_proofs` proves seven properties of the load test, for any number of handlers and users, any
flow, budget and threshold: `OneRunAtATime` (`OneRun`), `FinalReportExact` (`ReportsAddUp`), `StopBounded`
(`StopsSoon`), `FullBudget` (`WholeBudget`), `FailFastJustified` (`FailsFastWithReason`), `FlowStable` (`FlowKept`) and
`StopSticks` (`StopKept`). Assumed: `FlowAssumption`, `RunAssumption` and `OutcomeAssumption` (the constants are
numbers and sets of the right kind). The invariant is a conjunction of parts that are named for what
they say. `Locked`: a thread between the two ends of `stress_start` holds the lock of the job. `Alone`: a start
has the job to itself until there is a manager, a manager until it clears `running`. `Users`: which users exist.
`Counted`: the completed requests are the sum of the classes and of the users about to classify one,
the successes likewise. `Zeroed`: the counters are zero between the stores of a start and its manager.
`Budget`: unless the run was cancelled, what was completed and what is left of each user's
budget is what is due. `Judged`: nobody cancels but a stop, or a user who saw errors enough. `Late`: who has
sent a request after the stop sends no other. `Told`: where something went wrong the error text is
there, or on its way. `Stamped`: a run that is over has its end. `Reported`: what a report of a
finished run has read so far is still so. `OneRunAtATime` needs `Alone` because `running` is tested
and set by different accesses; the sums need `Counted` per user, because another user's addition can come
between any two of one user's. That a sum over all users is what the counter holds is proved for any number of users from
the definition of the sum, by the smallest set for which it would fail (`TotalIsSize`).

`Sequential_proofs` proves three parts of the server and the words of commands. Of the parser, `ParserMatchesGrammar` (`Grammar`) and
`PiecesDoNotMatter` (`CutAnywhere`), for every input in its classes of bytes, every limit and every way to
cut the input into reads; assumed is that the limits are numbers above zero and the inputs sequences of
bytes (`ParserAssumption`). The invariant, `ParserInv`, says no more than that the verdict is
the one on the bytes received; what is hard is in the lemmas. The parser walks: each pass of its loop goes from one place to
the next, and the walk is a function defined by recursion. `UpTo` and `LeastIs`, the smallest number for
which something fails, stand where one would use induction: `WalkIs` shows that the function exists and is that
one, `OneWalk` that there is one only. `SamePass` and `SameWalk` say that a pass over a whole line does not look behind
it, whence `MoreIsSame`: a buffer that is longer at its end gets the same verdict, unless more was asked for. For the
grammar, `FitsIsLine` and `HeaderIsLine` turn what `After` finds into what stands in a line, `WalkIsHead` follows
the walk and counts the lines behind it (`OkIsHead`), and the other way round `HeadIsWalked` shows that
a header part that is there is walked to its end, which makes its verdict `ok` (`HeadIsOk`).

Of the buffer it proves `WithinBounds` (`Bounded`) and `TruncatedIsHonest` (`HonestMark`) for any
limit and first chunk that fits it. `InCall` says what the doubling loop keeps (the capacity
is too small until it is left, and enough after), `Mark` relates the mark to the bytes that are missing,
also in the middle of a call. `ReserveKeepsWord` proves `ReserveContract`: a reserve that has to grow the buffer
ends with the room `RequestReader` takes from it, or with nothing done. Of the reader it proves `RightVerdict`
(`VerdictRight`) and `PointersHold` (`PointersGood`) for any limit, chunk and lengths, assuming `SizesAllowed`
(`ReaderAssumption`): a chunk is more than a byte and fits the
limit, a header part has a byte. The invariant adds `Placed` (the NUL has its byte as soon as
there is a buffer) and `Progress` (what is known of the header part at each place: at `judge` a whole
request that fits has been parsed, and behind the reservation the body has all its room).
`FullAtLimit` is the lemma on the numbers: a buffer that is still full after it grew is at its limit.

Of the commands it proves `WordsReadBack` (`ReadsEveryQuoting`): whatever words a command says, of any atoms, and
however they are quoted and spaced, `curlTokens` reads these words. Assumed (`CommandsAssumption`) is that the
command is written: a bare part has no blank, quote or backslash, a part in single quotes no single
quote, no quoted text breaks a line behind a backslash, words are apart, and a word that begins with a quote is that
quoted part and no more. The last is what the code needs: it ends such a word at the closing quote, where a
shell reads on. The invariant, `CommandInv`, says only that the command is one of those; the rest is
about text that grows. `ReadTo` says which state the loops are in after a text, and that no line may go on there;
`ScansOne` and `ScansLine` add an atom and a continued line, `ReadsBare`, `ReadsAllInside`, `ReadsQuoted`, `ReadsPart`,
`ReadsWord` and `ReadsGap` what a command is made of, and `ReadsCommand` puts words one behind the other.
`FlattenIs` turns texts that are joined into texts that grow.

`SaveStore_proofs` proves, for any workers, lists and inodes, `TypeOK` (`TypeCorrect`), `ServedWhole`
(`WholeAnswers`) and that the whole of it implements `SavedList` (`AtomicRegister`). Assumed: `None` is
no worker, inode or list, and a list has a block. The inductive invariant says who holds the lock
(`Mutex`), that the served file is a list from one save and not the temporary one (`Whole`), that the
temporary file holds the part of the body its only writer wrote (`Writer`), that a file that is
being sent is no longer written to (`Reader`), and that an answer is known when it is given
(`Answers`). For the refinement the steps are sorted: those the register does not see, requests
and answers, failures, and the two instants, rename and open. `OthersStay` is the lemma that makes it
work: a step of one worker changes no file another one serves.

`OAuth_proofs` proves `OwnCodeOnly` (`CodesKeptApart`), `AnswerBeatsClose` (`AnswersCount`) and `TokensMatchGrant`
(`TokensKeptApart`) for any number of calls, grant types and tokens, and however often tokens
expire. The invariant says that a sign-in the open popup belongs to has not given up (`WindowOwned`), that as long
as a sign-in whose answer was posted still listens the message is on its way to it (`AnswerComes`),
that the settings each call took along are as consistent as the form (`Matched`), that Get Token never sends
the refresh token (`NoForcedRefresh`), and that only a call that is over has an end (`EndsOnce`). Without
`WindowOwned` an answer could be posted for a sign-in that was already cancelled, and without `Matched` of the
calls a late answer could mix two grants.

`Collections_proofs` proves `TypeOK` (`TypeCorrect`) and `ServerFollows` (`Followed`) for any number of windows,
entries, edits and reloads. Assumed: the bounds are numbers, and a file that is no list is none of the
lists. `ServerFollows` speaks of the moment nothing is on its way; the inductive invariant, `InStep`, says
what holds before: while nobody was careless at most one save is on its way in all windows together,
and it holds every edit there was.

`SendTabs_proofs` proves `TypedKept` (`TypedStays`), `LandsHome` (`AnswersLand`), `ShownIsActive` (`ShowsActive`) and
`InactiveKept` (`BackgroundUntouched`) for any number of tabs, entries, sends and token requests. Assumed: the
markers are no tabs and differ, and a send is no use of Get Token. Each handler puts a tab on the page,
makes one, drops some, or writes into the active one, and `ShowTabKeeps`, `NewTabKeeps` and `DropKeeps`
say what these do whichever tabs they are used with. The invariant adds `TypedThere` (nobody has typed
into a tab that is gone, but for the one a deletion left on the page) and `Stays` (while nobody went
anywhere, the active tab is the one a send was started in, with the settings a token was asked for
with); without `Stays` an answer could be for another tab than the one it lands in.

`Folders_proofs` proves all four properties of `Folders`, for any ids, names, lists of earlier sessions and
collections: `IdsUnique` (`OneIdEach`), `ViewsAgree` (`ViewsFollow`), `InheritsAsShown` (`InheritsWhatIsShown`) and
`FolderOpsExact` (`FoldersTakeWhatIsShown`). Assumed: trimming a name gives a name, `NoId` is not the id of a
request, a list of an earlier session is a list of entries in which ids differ, and a collection has a name and a list of items
(`NamesAssumption`, `StartsAssumption`, `ImportsAssumption`). `IdsUnique` needs the same of `posted`, which comes
back when the page is loaded; each operation is one of five things done to a list (`AppendKeeps`,
`ReplaceKeeps`, `KeptKeeps`, `ConcatKeeps`, `RenamedKeeps`), and `BecomesKeeps` follows what becomes of the views. What a filter
keeps is defined by the places it keeps, in their order (`Kept`); `Ranks`, `NthIs` and `KeptIs` say that it takes
each of them once. `ViewsAgree` rests on `SameRequests`: settings may be added and changed behind the back of the
side bar, as the requests stay the same. For `InheritsAsShown`, `WalkFinds` gives the walk of `doSend`, which is
recursive, in closed form: the last place at which it would stop; the function it computes exists because that form is one, and is that one
by the smallest place at which they would differ. For `FolderOpsExact`, `NodeConcat` says that trimming goes name by name; the entries before the first with
settings are renamed and the others are not, with `HasMeta` the only way to have others.
The proof of `InheritsAsShown` has no use for tidy names, so the property does not ask for them any more:
a request in a folder of the side bar inherits what is shown, whatever the names of the others are.

Before they were proved, the inductive invariants were checked by TLC on the instances of the runs.

What the proofs corrected. The grammar had a lone CR or LF in the path of a request line, which the parser refuses: no
input of the run had one, so TLC was content. The grammar was put right, such a request line is among the inputs now, and
reads may be of several bytes at a time. Two arms of a case distinction of `HeaderLine` overlapped, which TLC does not notice
as it takes the first; nor that arms of `Scan` did, for an atom of the name of a state. And the grammar said where a request ends and not what its headers are:
`AreHeaders` says that now, and is proved with the rest.

Only model-checked: `SentAgain` of `Curl`, where the command is made of the form by folds over headers and
fields and the form of the words by others; and all liveness: `EventuallyServed`, `RunEnds`, `CallsEnd` (of the buffer and of the saved
list), `ConnectionEnds`, `SignInsEnd`, the fairness part of
`ImplementsService` included (fairness and ENABLED are out of the prover's reach). What a recursion computes for every
input is induction over data, and the induction theorems of the library take an operator
the installed provers cannot instantiate; where a formula without an operator parameter can be stated, as for sums, for the walk
over folders, for the walk over lines and for the text of a command, the smallest counterexample takes the place of induction.

## Findings

- **A broken upload replaces the saved list** (`save_cut`). `read_full_request` returns what arrived
  as if it were all, and `handle_save_route` stores it.
- **Saves overtake each other** (`collections_order`). `storeSaved` is not awaited; of two saves
  in a row the older can be served last.

Both contradict `README.md:19` ("All saved requests are stored in `./data/requests.json` ...").

Seen while reading, with no statement in the repository to hold them against: a request
without headers never parses (`http_parser.c:208`); `base64_encode` never pads (`call_api.c:83`);
the 413 reply announces 27 bytes and sends 29 (`router.c:158`); fail-fast can cancel although a request
has just succeeded (`stress.c:557`; the model checks what does hold, `FailFastJustified`); a response
lands in the tab that is active when it arrives (`app.js:423`); `sync.js` sends form fields
(`sync.js:36-38`) where `/proxy` reads headers (`router.c:176-184`), so all of its requests are refused with 400; two windows overwrite each other's lists; an edit made
before the list has come, or after a load that failed, posts the short list as the whole file (`app.js:121-131`; the
model takes such edits, and `ServerFollows` speaks of users who wait); an upstream that
never answers holds its worker, and `WORKER_COUNT` of them the pool (`call_api.c:144`; `stress.c` sets a timeout for its
requests); deleting a request whose tab is active leaves `activeTabId` at a tab that is gone
(`app.js:666-670`), and what is typed then is kept nowhere, and closing
the last tab then leaves none, which `closeTab` otherwise prevents.

In the folders: as soon as a folder has settings, renaming throws at that entry, with the entries
before it renamed but neither posted nor shown, and deleting throws with nothing done (`app.js:652`,
`657`; `FolderOpsExact` says what such a rename leaves alone, `ViewsAgree` speaks of lists no rename broke off in);
a request dropped on a nested folder ends in the top-level one, as the drop bubbles
(`app.js:171`); the form keeps the old folder after a drop or a rename, and the next save moves the
request back; names are trimmed where the tree is built and nowhere else, so folders with blanks
in their names are shown but not found (`InheritsAsShown` speaks of requests whose folder is one of the side bar's); a folder set to no auth does
not end the inheritance (`app.js:383`); a second import of a collection adds its settings a second time,
and the first ones count.

In the commands: `generateCurl` leaves out inherited settings, the parameters grid and a key that goes
into the query; a single quote is escaped in the body only, and as `'\''`, which `curlTokens` does not read
back, as it ends a word that begins with a quote at the next one (`Exports` names these limits).

In OAuth: two sends at once refresh with one refresh token; when the server returns the access
token it had given before, its new refresh token is not kept (`app.js:399`); a typed token keeps the expiry
of the one before it; of two sign-ins that listen, the one that did not ask ends with a state
mismatch. An assertion on a path that names a built-in method makes `assertShow` throw (`assert.js:35`), and the
send is then shown as a network error.

## Not modelled

Rendering, styles, the animation of the graph, build and deployment: no state that the rest
depends on. Sync: at this commit its requests are all refused (see above), and there is nothing a
pull or push does beyond that. Response assertions, the JSON tokenizer and the decoding: pure
functions, of which the first has tests line by line. Of the load test: times, minimum, maximum and
histogram, variables, and the parsing of a flow. Environments and the history. Contents of requests and
responses, times and sizes in bytes, except where a property is about them. Memory itself: a use after
free is seen as a pointer that is not fresh, no more. A crash of the machine (the model kills the
process).

## Plan

Done: the pool, the load test's control, the buffer, the saved list, the reader, the parser, the
list in the browser, folders, tabs and sending, commands, OAuth.

What is left, in this order:

1. `StressRecord`: `record` in `stress.c`, minimum, maximum, sum and histogram with compare-and-swap,
   against one atomic update; then the variables of a user (`subst`, `run_extracts`).
2. `JsonTokens` and `Base64`: algorithms against reference definitions over bounded inputs.
3. Environments and the history in the browser.
4. Proofs: a request that is copied and pasted (`SentAgain`), on the words of its command.
5. `Sync`, once its requests reach the remote.
