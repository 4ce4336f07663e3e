# A verification of kingate

kingate is a multi-threaded proxy server (HTTP with a cache, FTP, SOCKS, POP3,
SMTP, MMS, RTSP, telnet, DNS).  This directory holds TLA+ models of its parts,
the TLC configurations that check them on small instances, and theorems about
them, checked by TLAPS for instances of every size.  All paths below are
relative to the repository (`src/src/` holds the C++ sources).

    tlc -workers 2 -config cache_list.cfg MCObjCache     # a run
    tlc -workers 2 -config pool.cfg MCThreadPool
    tlc -workers 2 -config access.cfg MCAccess
    tlc -workers 2 -config http.cfg MCHttpSession
    tlapm ObjCacheProofs.tla                             # a proof module

## 1. The system

`main()` reads the configuration, restores the cache index and calls
`server_proxy` (`utils.cpp:562`): the main thread waits in `select` on the
listening sockets, accepts a connection and gives it to `KThreadPool::Start`.
A worker thread (`run_thread`, `server_thread`) serves the connection with the
code of its protocol, then takes a waiting connection of the same IP or waits
for the next one.  A third kind of thread, `time_thread` (`garbage_c.cpp:261`),
wakes up every `CHECK_INTERVAL` seconds and runs all timers: the cache
collector, filter times, log flushing and rotation, expiry of request-table
entries, idle users, idle threads, and hourly the DNS cache, expiring chains and
the saving of users.  Signals call `shutdown()` (`main.cpp:61`), which saves and
exits without waiting for anybody.

| Component | Source | State | Operations | What makes it correct |
|---|---|---|---|---|
| Recency list | `cache.cpp` | `l_head`, `l_end`, `l_dhead`, the links in each object | `add_list`, `update_list`, `dead_list`, the loops of `delete_cache` and `clean_disk` | one sound doubly linked list of exactly the cached objects, in recency order |
| Object cache | `run_client.cpp`, `http_utils.cpp`, `garbage_c.cpp` | hash table, `mem_obj` (flags, `refs`, container), size totals, `cache_model` | `locate_in_mem`, `stored_obj`, `fill_mem_obj`, `send_from_mem`, `swap_in_obj`, `swap_out_obj`, `dead_obj`, `release_obj`, `destroy_obj` | nothing is freed in use; counts and totals are exact; one live object per URL; dead objects go away |
| Cache index | `cache.cpp:110-377`, `garbage_c.cpp:306-420` | index and cache files, `count_file_name` | `swap_out_obj`, `swap_in_obj`, `save_index_file`, `load_all_from_disk`, `-z` | what was cached survives a shutdown; an object never gets the body of another |
| Collector and timers | `garbage_c.cpp` | time of the last run of each timer | `time_thread`, `flush_mem_cache` | limits are enforced and nobody starves |
| Thread pool | `KThreadPool.cpp`, `utils.cpp` | `FreeThread`, `m_ip` (count and queue per IP), `total_thread` | `Start`, `run_thread`, `Flush`, `closeAllFreeThread`, `set_max_per_ip` | each accepted connection is served or closed once; counts match threads |
| Table of net requests | `run_client.cpp` | per URL the requests in progress and the times of the last ones | `net_request_start`, `net_request_end`, `flush_net_request` | a URL that is too busy is refused, and accepted again later; no entry is freed in use |
| HTTP session | `run_client.cpp`, `http_utils.cpp` | one client's connection, its request, the origin's answer, the object that is filled | `run_client`, `http_start`, `send_from_mem`, `fill_mem_obj`, `send_not_cached` | one answer per request; a connection is kept only behind an answer that ended; only whole bodies are cached |
| HTTP parsing | `http_utils.cpp`, `lib.cpp`, `common.cpp` | - | headers, dates, ranges | the bytes sent are the bytes asked for |
| Access filter | `KFilter.cpp`, `allow_connect.cpp`, `garbage_c.cpp`, `utils.cpp` | two lists of rules with expiry times, `first`, `filter_time_list` | `Check`, `MakeChain`, `DelChain`, `changeFirst`, `checkExpireChain`, `check_time`, `add_filter_time`, `del_filter_time` | a decision is that of the rules at one moment, also while they are edited; connections that are no longer allowed end; no socket is closed after it was freed |
| Users | `KUser.cpp` | users, logins by IP | `Login`, `Logout`, `ForceLogout`, `FlushLoginUser`, `SaveAll` | a user has one login and an IP one user; a login in use does not end, an idle one does; time is accounted once |
| DNS cache | `KDnsCache.cpp` | name to address and time | `GetName`, `Flush` | the address that is connected to is the one the rules saw |
| Time match | `KTimeMatch.cpp` | cron-like masks | `Set`, `checkTime` | a specification of times means what crontab(5) says |
| Configuration, management pages | `KConfig.cpp`, `do_config.cpp`, `KHttpManage.cpp` | `conf` | parse, print, edit | - (text) |
| Protocol relays | `socks.cpp`, `other.cpp`, `utils.cpp`, `ftp.cpp`, `http_ftp.cpp`, `dnsproxy.cpp` | the user's and the host's sockets, `SERVER.ext` and `model` | handshakes, `create_select_pipe`, UDP associations | replies are true; bytes pass unchanged, once and in order; what is allocated is deleted once |
| Sockets, locks, logging, digests | `mysocket.cpp`, `KMutex.h`, `log.cpp`, `md5.cpp`, ... | - | - | - |

Components meet in four ways: the workers call the cache, the filter, the users
and the DNS cache, each behind its own mutex; the time thread calls the same
components; the management pages edit the filter, the users and the limits from
a worker thread; and shutdown runs against all of them.  Lock order in the
cache: list lock, hash entry, object, size; there is no cycle.

The hard behaviours are the interleavings of these threads where a lock is
released between two related steps, reference counts across the many ways a
request can end, list code with special cases at its ends, failing cache files,
a shutdown that waits for nobody, runs that find the files of runs that crashed,
and protocol code that has to find the ends of messages in what a `recv` brings.
`PROJECT.json` lists them line by line as
hazards, with the property that covers each, or the reason why none does.

## 2. Modules

| Module | Contents |
|---|---|
| `ObjList` | the recency list: the pointer code of `cache.cpp` as operators on a record of link arrays and globals |
| `ObjListInv`, `ObjListProofs` | its inductive shape, and the lemmas that every operator keeps it |
| `LruList` | abstract specification: a sequence of objects, oldest first, and a mark |
| `ObjCache` | the object cache: workers, collector, start and shutdown as actions over objects, totals and the list |
| `ObjCacheInv` | the invariants that are proved, the inductive one, and the refinements of `LruList` and `SharedCache` |
| `SharedCache` | abstract specification: what worker threads may expect of the cache, without flags, counts, list and tiers |
| `ObjCacheProps` | further properties that TLC checks: progress, a statement of the source that fails |
| `ObjCacheProofs` | the theorems about the object cache |
| `MCObjCache` | the symmetry used by the configurations |
| `ThreadPool` | the accept loop, the worker threads between connections, the time thread's `Flush` and the management page's limit |
| `Admission` | abstract specification: lines of waiting connections, and those in service |
| `ThreadPoolInv` | its invariants, the inductive one, the refinement of `Admission`, its liveness property, and a statement of the source that fails |
| `ThreadPoolProofs` | the theorems about the thread pool |
| `MCThreadPool` | the module its configurations check |
| `Users` | the table of logins and the users' records: the operations of the management pages, the questions of the access filter, the time thread's flush |
| `LoginTable` | `Users` closed with an environment that asks, flushes and lets time pass; its properties; what `Access` is shown to implement |
| `Access` | the access filter composed with `Users`: rules, walks of `Check`, connections, the list of connections, and the time thread |
| `AccessProps` | its properties |
| `AccessInv` | why they hold: the inductive invariants about calls of `Check`, the list of connections and the time thread |
| `AccessProofs` | the theorems about it and about `LoginTable` |
| `MCAccess` | the rules its configuration uses |
| `HttpSession` | one client's connection from its first request to its end, with the origins of its requests and one cached object |
| `SessionProofs` | the theorems about it |
| `NameCache` | the DNS cache: look-up, resolution outside the lock, insert, flush |
| `NetRequests` | the table of net requests |
| `Requests` | both composed with the threads that use them, from the check of a host to the connection; its properties |
| `RequestsProofs` | the theorems about it |
| `Relay` | a connection of any other protocol: the handshakes as scripts, the pipe, UDP associations, the end of `server_thread` |
| `RelayInv` | how far the messages of a handshake are read: the inductive invariant behind `NothingLost` |
| `RelayProofs` | the theorems about it |
| `DiskCache` | cache files and index through several runs of the program with crashes |
| `DiskInv` | why its properties hold: the inductive invariant about names, files, contents and what a shutdown is to save |
| `DiskProofs` | the theorems about it |
| `MCHttpSession`, `MCRequests`, `MCRelay`, `MCDiskCache` | the modules their configurations check |

Definitions called *Variant* in their comment are changed copies of the
definition that follows them: the bug each property is there to find.

### The object cache

*State.*  An object slot `o \in Obj` stands for one allocation of `mem_obj`.
`status` says whether it is free, private to the thread that fills it, in the
hash table, or lost (allocated but unreachable).  `url`, `size`, `inMem`,
`inDisk`, `dead`, `refs` are `obj->url`, `resident_size`, the three flags and
`obj->refs`; `memSize` and `diskSize` are the sums that `get_cache_size` computes
(`lib.cpp`); `l` is the list.  `cache_model` is the variable of that name.  Each
worker `c` has a control point `pc[c]`, the object `held[c]` it has a reference
to, the object `mine[c]` it fills, and `after[c]`, where it goes when a shared
piece of code ends.  `sect` is the holder of the list lock across a loop, with
the `m_size` left to free, and `tick` the collector's control point with the
excesses it has computed.  `lost`, `leaked` and `leaks` are history variables:
they record that `clean_disk` lost the list, and what requests left behind.

*Actions.*  One step is what the code does between taking and releasing one
lock, or between two places where another thread can observe it.

| Actions | Code |
|---|---|
| `Restore`, `Booted` | `load_all_from_disk` (`cache.cpp:305`): every restored object passes `stored_obj`, then `l_head=l_end` |
| `LocateHit`, `LocateNew`, `LocateOnlyIfCached` | `locate_in_mem` as `http_start` calls it |
| `RefuseFatboy` | `net_request_start` refuses the request |
| `FetchDone`, `FetchFails`, `Store` | `fill_mem_obj` and `stored_obj` |
| `Serve`, `Revalidate*` | `send_from_mem`: fresh, stale, not modified, failed |
| `SwapIn`, `Sent` | `swap_in_obj`; the send loop that reads the container without a lock lies between the two |
| `Kill`, `Bury`, `Mark` | the three separately locked steps of `dead_obj`; `BuryFaults` is its NULL dereference |
| `Replace`, `Rate`, `Release`, `Unlock`, `Forget` | storing the new object, `obj_rate`, `release_obj`, the only-if-cached ending |
| `ReadSizes`, `EnterDelete`, `DeleteStep`, `DeleteEnd` | `flush_mem_cache`, `delete_cache`, one step per object |
| `EnterClean`, `SkipClean`, `CleanDrop`, `CleanKeep`, `CleanEnd` | `clean_disk`, one step per object |
| `Shutdown`, `EnterSaveAll`, `SaveIndexAndExit` | `shutdown()` and `save_all_to_disk` |

*Abstractions.*  Whether an object is fresh, whether the origin answers, and how,
whether a cache file can be read or written, and the content length are free
choices.  A container is either there or not (`inMem`).  `swap_in_obj` and
`swap_out_obj` are one step each: the first runs under the object's lock, the
second under the hash entry's lock with no user of the object, and
`SendingHasBody` states what makes their overlap harmless.  All objects of a
model hash to the same behaviour; the hash lock is one step long.  The links of
freed memory read as NULL (the code clears a new object with `memset`).

*Constants and bounds.*  `Obj` bounds the objects allocated at one time,
`MaxLeaks` the requests that give their object up, `MayQuit` whether shutdown may
happen; `MemCache` and `DiskCache` are the configured limits in the unit of
`Sizes`.  No counter grows without a bound otherwise.

### The thread pool

*State.*  A connection `c \in Conn` is a descriptor that `accept` may return;
`open` holds those that nobody has closed.  `count` and `queue` are
`total_connected` and `q` of the IP's entry in `m_ip` (a count of 0 stands for no
entry), `over` is a history variable: how many connections that `Start` refused
are still in the count.  A thread `t \in Thread` is a slot for a `ThreadInfo`:
`cmd`, `param` and `tip` are its fields, `where[t]` says what it is doing, and
`notice[t]` whether the signal is pending for it.  `FreeThread` and
`total_thread` are the variables of those names; `max_per_ip` is
`conf.max_per_ip`, and `admin` is between the store and the locked loop of
`set_max_per_ip`.

*Actions.*

| Actions | Code |
|---|---|
| `Enqueue`, `Ban`, `Refuse`, `StartNew`, `StartFree` | the five ways through `Start` (`KThreadPool.cpp:297`), each one critical section |
| `AcceptFails` | `accept` finds no descriptor free (`utils.cpp:605`) |
| `Served` | `server_thread` returns; the socket is closed |
| `Again`, `Done` | the critical section of `run_thread` with `dec_per_ip`: the next connection of the IP, or parking |
| `Sigwait`, `AwakeToServe`, `AwakeToEnd` | waiting for the signal, and what follows it |
| `FlushOne` | one round of `Flush`'s loop |
| `SetLimit`, `ClearQueues` | the two parts of `set_max_per_ip` |

*Abstractions.*  `FreeThread` is a set: its order only decides which idle thread
is taken, and by ages that are a choice here.  A critical section reads
`conf.max_per_ip` as one value, and one management page changes it at a time.
The access filter's decision is the environment's: a connection it denies is
closed before anything happens to the pool, and the rule a ban adds need not
apply to the next connection.  `set_max_per_ip` increments an iterator it has
erased (`KThreadPool.cpp:113`): either the loop goes on as it was meant to, or
the process crashes.

*Bounds.*  `Conn` bounds the open descriptors, `Thread` the threads alive,
`MaxChanges` the changes of the limit.

### The users

*State.*  `login` is `m_user`: for each address Nil, or the user and
`last_active_time`.  `record` and `gids` are `m_all_user` and `UserInfo.gids`.  A
name stands for its uid as well, since each name is created at most once in a
behaviour; a record that `DelUser` deleted stays `"freed"`, because entries of
`m_user` and threads may still point to it.  `m_lock` is the mutex of `m_user`.
`page` has what each page thread is at, with the address, the user and the time of
its operation, `pages` counts operations, and `guest` says of each worker and of
the time thread whether it is in a section under `m_lock`.

*Actions.*  A section under `m_root_lock` is one step.  One under `m_lock` is
several, since it need not exclude the others: `ForceLogout`, called by `Login`,
unlocks the mutex in the middle, and `Login` unlocks it again at its end.  `KMutex`
is a default pthread mutex, and `Unlock` does what it does there: it frees the
mutex, whoever has locked it, and leaves a free one free.

| Actions | Code |
|---|---|
| `LoginStart` | `Login` to the end of its `m_root_lock` section (`KUser.cpp:205-216`) |
| `LoginLock`, `LoginTaken`, `LoginFree` | `m_lock.Lock()` and the test of the address (`KUser.cpp:222-225`) |
| `LoginNew`, `LoginAgain` | `ForceLogout(user,false)` (226) finds no login of the user, or erases one and unlocks `m_lock` (692) |
| `LoginWrite` | `m_user[ip]=tmpuser` (227), with the lock or without |
| `PageUnlock` | the `Unlock` at the end of a section, which is `Login`'s second one after `LoginAgain` (228) |
| `Logout`, `Kill`, `DelUserLogin`, then `EndLogin` | `m_lock.Lock()` and the erasure of `/logout`, `/killloginuser` and the first section of `DelUser` |
| `DelUserRecord`, `NewUser`, `AddGroup`, `DelGroup` | what those pages do under `m_root_lock` |
| `CheckUser`, `CheckGroup`, `Refresh`, `FlushLoginUser` | the functions; used by `LoginTable` and by `Access` |
| `Enter`, `Exit`, and `LoginTable`'s `Use`, `Ask`, `FlushTable` | a section of a worker or the time thread: `CheckUser` that refreshes a login, anything that only looks, `FlushLoginUser` |

*Abstractions.*  Passwords are right.  The time of a login is read before the
locks.  What is read from a freed record is any value: `CheckUser` may say yes or
no, `ForceLogout` may take it for the user it looks for.  Of what two threads do to
the tree of the map when they change it at once, only the loss of the entry that
`LoginWrite` inserts is modelled; look-ups that miss an entry, and a crash, are
not.  `FlushLoginUser` increments an iterator it has erased: it erases some of the
idle entries, at least one.  The accounting fields and the users' file are left
out, and so are the pages that only list users or groups; these unlock
`m_root_lock` too early (section 4).

### The access filter

*State.*  `m_chains` and `first` are `KFilter`'s.  A rule is a record of the
fields of `CHAIN`; a network is a set of addresses with its `revers` flag, and
`m_time` the set of times at which `KTimeMatch` says yes.  `walk[w]` is the call
of `Check` by a worker, or by the time thread (`Collector`): the list and the
index it is at, and the answer.  `conn[c]` is where a worker is with its
connection, `server[c]` whether its mysocket is open, closed or deleted, and
`filter_time_list[c]` the `STATE` it is listed with.  `gc` is the time thread
between `check_time` and the end of its tick.  `seen`, `torn` and `still` are
history variables of the properties.

*Actions.*

| Actions | Code |
|---|---|
| `TakeSecond`, `EnterFirst`, `EnterSecond`, `ReturnFirst` | `Check`: `first` is read at lines 199, 200 and 202 or 209, without a lock |
| `TryRule`, `EndList` | one round of the loop of `CheckChain`, under the read lock; the user is asked about under `m_lock` |
| `MatchAstray` | the loop runs past an end that `DelChain` has moved: a match in freed memory |
| `MakeChain`, `DelChain`, `changeFirst` | the pages; only the first takes the write lock |
| `Ban` | `Start` bans an address for an hour (`KThreadPool.cpp:374`) |
| `Accept`, `Refuse`, `Forget` | the check that `Start` makes before it looks for a thread |
| `Serve`, `Request`, `Deny`, `add_filter_time` | `server_thread`, and `allow_connect2` as the protocols call it |
| `End`, `del_filter_time`, `DeleteServer` | the end of a connection and of `server_thread` |
| `check_time`, `Pick`, `Keep`, `Close`, `EndCheckTime` | the loop of `check_time`, under `filter_time_lock` |
| `Flush`, `checkExpireChain`, `NotHourly` | the rest of the tick |

*Abstractions.*  All connections of the models are HTTP or SOCKS: every protocol
checks once when it knows the destination, and HTTP again with each request.
The name of a destination is its address, a name that has none is an end.
`rwlock` and `filter_time_lock` are guards (`NoReader`, `ListFree`).  A tick takes
less time than `user_time_out`, which the guard of `Time` says.

*Bounds.*  `MaxTime`, `MaxPages` (operations of pages, bans included) and
`MaxRules`.

### The HTTP session

*State.*  `pc` is the place in `run_client` and below, `rq` the number of the
request, `data` and `leave` are `rq.data` and `rq.leave_to_read`.  `up` holds what
has arrived from the client and is not read, `sent` the requests it made; `todo`,
`gone` and `polite` are the client's own.  `origin` is the answer that the origin
will give (its kind, the declared length, what it really has), `tot` how much of
it is read, `got` the `r>0` of the last `recv` of `load_body`, `body` the
container that is filled, `reval` whether it is to replace the cached object
`obj`.  `ans` is what the client got so far, `last` the answer behind which the
connection was kept, `fwd` what was sent on to the origin.

*Actions.*  One step is one `recv` or `send` or what happens between two.

| Actions | Code |
|---|---|
| `ReadRequest`, `NoRequest` | the read loop of `run_client` and `check_headers` with the part of a body that came with the head |
| `Refuse`, `Manage`, `Fatboy`, `OnlyIfCached` | the ends of a request that need no origin |
| `SendFresh`, `SendRecent`, `NotModifiedFromMem` | `send_from_mem` and `send_data_from_obj` |
| `Connect`, `ConnectFails`, `SendRequest`, `SendRequestFails` | `srv_connect`, `build_direct_request`, for `fill_mem_obj` and `send_not_cached` |
| `ReadHead`, `HeadFails` | `load_head` with `check_server_headers` |
| `ReadBody`, `BodyDone`, `BodyShort`, `BodyStops`, `LongEnds` | `load_body` with each way out of its loop |
| `PipeUp`, `PipeDown`, `PipeInterrupted`, `PipeEnds`, `ClientSendFails` | `create_select_pipe` for forms, unknown lengths and raw answers |

*Abstractions.*  Heads and bodies are units; a `recv` takes any number of those
that are there.  The text of a head is what the code reads from it: a length, a
status, keep-alive.  Whether the cached object is fresh is a choice.  Of the
parser only this is kept: it sees as many units from the start of the buffer
as the last `recv` brought (`Seen`), which is what the code passes it.
Ranges, the content filter and FTP through HTTP are left out.

*Bounds.*  `NReq` requests, `BodyLen` units of body, `HeadLen` of head, `AnswSize`.

### Net requests and names

*State.*  `m_dns` is the map of `KDnsCache`, `look[t]` a call of `GetName` between
its lock and its answer; `net_table` holds the `net_obj` of each URL (`refs`,
`last_access`, `ips`), `call[t]` what a thread has from `net_request_start`.
`pc`, `job` are the threads' requests.  `moved`, `taken` and `late` are history
variables: who was overtaken, and the times of the requests let through.

*Actions.*

| Actions | Code |
|---|---|
| `Find`, `Resolve`, `Insert` in `GetName` | the look-up under the lock, `gethostbyname` without it, and the insert, which leaves an entry that is there alone |
| `Check`, `Connect` | `allow_connect2`, and `mysocket::connect`: HTTP connects to the address, the other services by name |
| `Ask`, `NotCounted`, `Count`, `Finish` | `net_request_start` with the clock it reads before it locks, and `net_request_end` |
| `FlushNames`, `FlushRequests` | the time thread's `Flush` (some of the old entries, at least one: it goes on from an erased iterator) and `flush_net_request` |

*Bounds.*  `MaxTime`.  The model excludes `max_request` 0, for which the code takes
the front of an empty list.

### Relays

*State.*  `service` selects a `Script` of operations, `step` is the place in it.
`sent`, `in` and `out` are, for each side, what it has sent, what of this is not
read, and what was passed on to it; `plan`, `asked` and `patient` describe the
user.  `sock` is the host's `mysocket`, `ext` what `SERVER.ext` points at, `model`
`SERVER.model`, `link` the connection to the host; `grams`, `taken`, `peer`
and `answers` belong to a UDP association.  `split` records that a message was
taken for whole that was not.

*Actions.*  One for each kind of operation in a script (`Recv`, `Line`, `LastLine`,
`Until`, `Send`, `Say`, `Passes`, `Connect`, `Open`, `Tell`, ...) and one for
each of its failures; `PassUp`, `PassDown`, `PipeEnds` for the pipe, `UdpOut`,
`UdpBack`, `UdpEnds` for associations (`udp_unencode`, `udp_encode`), `End` for
what `server_thread` deletes.  The scripts are the `create_*_connect` functions
in the order of their calls; the four ways to receive of `mysocket.cpp` differ in
how much they take: one `recv`, one line byte by byte, whole `recv`s up to the end
of a message.

*Abstractions.*  A message is two units, so that it can arrive in two pieces.
Addresses and passwords are not told apart, and the rules' answer is a choice.

*Bounds.*  `MaxData` units each way, `MaxLines` messages of a user whose protocol
does not count them, `MaxGrams` datagrams.

### Files and index

*State.*  `files` holds the pieces in each cache file, `index` the records of the
index; `list`, `behind` (what `delete_cache` has left in front of `l_head`) and
`objs` are the cache of this run, `mode` whether it runs.  A body is a sequence
of numbered pieces, so a container tells whose pieces it has.  `clashed`, `short`
and `due` are history variables, and so is the field `cut` of an object: a read of
its file has stopped before the end, and what it brought is in the container.

*Actions.*

| Actions | Code |
|---|---|
| `Fill`, `Locate`, `Leave` | `stored_obj`, the requests that use an object |
| `SwapIn`, `SwapInMisfits`, `SwapInFails`, `SwapInFrees` | `swap_in_obj` and its three kinds of failure: too few or too many bytes were read, no file or no memory for the buffer, no memory for the container |
| `SwapOut`, `SwapOutAgain`, `SwapOutStops`, `SwapOutFails`, `PassOver` | `swap_out_obj` in `delete_cache`: written (as far as `fclose` tells), on disk already, stopped by an error, not opened; and an object in use |
| `Destroy` | `clean_disk` |
| `SaveIndex`, `Shutdown`, `Exit`, `Crash`, `Boot`, `Format` | `save_index_file` at a rotation, `shutdown()`, a crash at any moment also while the index is written, `load_all_from_disk`, `-z` |

A read appends `n` pieces of the file, for every `n` up to its length: `fread`
returns less than was asked for at the end of the file and at an error, in a file of
the right length too.  What is compared with the length of the object is `n`, what
this call has read (`LengthFits`), not what the container has in the end.

*Abstractions.*  The list is reduced to its order (its pointers are `ObjList`'s),
all URLs share a directory, and what neither the list nor the index leads to is
forgotten.  Headers and the format of records are left out, except the limit of
2048 characters of a string (`LongUrl`).

*Bounds.*  `MaxObj`, `MaxRefs`, `MaxTime`, `MaxRuns`; `Pieces`, the lengths of reads
and writes.

### Runs

| Run | Instance | What it shows |
|---|---|---|
| `cache_concurrent` | 3 objects, 2 workers, 1 URL, failing files | the safety invariants of `ObjCacheInv`; flags, counts and locks implement `SharedCache` |
| `cache_list` | 4 objects, 2 URLs, 1 worker | `ListSound`; `ObjList` inside the cache implements `LruList` |
| `cache_progress` | 2 objects, 1 worker, 2 sizes, a leaked reference, shutdown, fairness | totals are exact also through a shutdown; requests end, dead objects are remembered and reclaimed, shutdown ends.  No disk faults: that the totals stay exact on the failing paths of `swap_out_obj` and `swap_in_obj` is theorem `SizesAreExact` |
| `empty_body_sent` | violation | only-if-cached sends an empty object |
| `pool` | 3 connections, 2 IPs, 2 threads, limits 0 and 1, one change, fairness | one owner per connection, exact total, covered counts, no lost wake-up, each queue is served in order (`Admission`), every connection ends |
| `refused_below_limit` | violation | a refused connection stays counted, and the next one of its IP is never served |
| `users` | 2 users, 2 addresses, 2 pages, 1 worker, 2 operations of pages, 2 ticks, fairness | a second login, or another user at an address, comes only while `m_lock` does not protect the table; idle logins end |
| `access` | 1 connection, 1 user, 1 address, 1 page operation, 2 ticks, lists of 2, fairness | `Check` gives the answer of one moment, listed sockets are alive, used logins stay, denied connections end |
| `http` | 2 requests of all kinds, heads of 2 units, bodies up to 2, fairness | a connection is kept only behind an answer that ended, or one of seven named exceptions; what is stored is whole; a form reaches its origin whole; a client that left is left |
| `requests` | 2 threads, 1 name with 2 addresses, `max_request` 2, 3 ticks | requests are counted as long as they use their entry; bursts are bounded; connections go to the address that was checked |
| `relay` | all 12 services, 2 units each way, 3 messages, 3 datagrams, fairness | replies are true, sockets and `ext` are deleted once, no byte is lost or doubled, answers of an association go to its user, a closed connection ends |
| `disk` | 2 objects, one with a long URL, bodies of 2 pieces, reads and writes of 1 or 2, 3 runs, 3 ticks | an object is sent with its own whole body; what could be sent at shutdown is there after the start |

The type invariants of `LoginTable`, `AccessProps`, `Requests`, `ObjCache`,
`ThreadPool` and `DiskCache` are theorems, and no run repeats them; those of
`HttpSession` and `Relay` are there for the reader.  All of them hold on these
instances when `INVARIANT TypeOK` is added to the configuration.

Why the bounds are enough.  A race in this code is between one thread that holds
an object and one that replaces, kills or collects it: two workers and the
collector.  The worst case of one URL is an old dead object, its live
replacement and a third being fetched: three slots.  The list code distinguishes
first, inner, last, and under `l_head`: four slots give all combinations.
Limits of 0 or 1 make the collector run in almost every state.  `cache_list` and
`cache_progress` have one worker because their questions do not depend on
references of a second one; the inductive proof covers every number.

For the pool, two IPs show that their queues do not mix, two threads and
`Max = 2` that a thread is taken, parked and ended while another ends, three
connections and `MaxDeny = 3` that a queue of two is served in order, banned or
cleared.  `Limits = {0, 1}` with one change gives threads that were started
before counting was switched on, and counts that are forgotten under running
threads when it is switched off; a second change adds nothing, because
switching off forgets everything.

For the users, the races are between a `Login` that `ForceLogout` has unlocked and
one other operation: two pages and two operations, with users who may be logged in
already at the start.  Both ways in which the lock fails are in the instance: the
other page, or a worker, gets in after the first unlock, and is in a section when
the second one comes.

In `access` one operation of a page falls into every interleaving with a walk of
the worker and one of the time thread.  One rule, in `access.conf`, depends on a
user, the service and the destination; the other, which the page may add to either
list, on the time and on whether anybody is logged in; bans come on top.  A user has
one address there, so logins that end a former one are left to `users` and to the
theorems, which hold for any number.
There is a single connection, since two are out of TLC's reach.  Connections
meet only in `filter_time_list`, each under its own key, and `ListedServersLive` and
`FlushKeepsUsedLogins` are proved for any number.  What one connection cannot show is
that `check_time`, which increments an iterator it may have erased, skips the
connections behind it until the next pass: `DeniedEnd` says nothing of those.

The session's faults lie between two requests, so two of each kind are enough;
two units of head and two of body let the head arrive in two reads, with and
without a part of the body behind it, and let a body be short, exact and too
long by one.  `AnswSize` is such that the buffer of `load_head` can fill.  For net
requests two threads give every overtaking between a clock and a lock, and between
two look-ups; a clock of 3 with `MaxAge = 1` and `TotalSeconds = 2` lets entries of
both tables expire and come back.  A handshake reads at most three messages of the
user, and three datagrams are the user's, another program's and a host's in any
order.  Files: a name clash needs two runs, and a third one to notice it; one
object whose file is spoiled and one that spoils it are two, and two pieces are a
whole and a partial file.  Reads of one piece and of two, one after the other, leave
a part of the body in front of the body.

Fairness (`FairSpec` of `HttpSession` and `Relay`).  The thread of a connection is
weakly fair: it runs, and every wait it is in ends, because each `recv`, `send`
and `select` of `mysocket.cpp` has a time limit.  That a wait ends need not mean
that anything arrived.  Nothing is assumed about the two sides.

Fairness (`FairTableSpec` of `LoginTable`).  What a page thread has begun it goes on
with, and whoever is in a section under `m_lock` leaves it; these are a few
instructions, and weakly fair.  The time thread has to get `m_lock` against pages
and workers, who take it only now and then, so that its `Enter` is strongly fair,
and so is its flush, which it calls in every round.

Fairness (`FairSpec` of `Access`).  The threads meet at `filter_time_lock` and at
`m_lock`, which each holds for a short section, and the time thread sleeps for five
seconds between two passes; so the steps of workers, of walks and of the time thread
are strongly fair.  What a page has begun goes on, as above.  The end of a
connection is fair only when its socket has been closed, since the next operation
on the socket then fails: `check_time` also sends the thread a signal.  Nothing is
assumed about clients, or about what pages begin.

Fairness (`FairSpec` of `ObjCache`).  `time_thread` is an endless loop, so `Collect` is weakly
fair; a worker that has a request goes on, because each socket operation of
kingate has a time-out, so `Work(c)` is weakly fair; the steps that wait for the
list lock are strongly fair, because the collector releases it and then sleeps
for seconds while a waiter is queued on the mutex.  Nothing is assumed about new
requests, nor that anybody asks for a shutdown.

Fairness (`FairSpec` of `ThreadPool`).  Each thread is weakly fair: the relays
end because their sockets have time-outs, and the pool's lock is held for a few
instructions.  `ClearQueues` is weakly fair, being the rest of a function call.
Nothing is assumed about new connections, about `Flush` or the management page.

### What was found

Two statements of the source are refuted by a run of their own:

1. `empty_body_sent` (`OnlyCachedIsSent`): see `run_client.cpp:1545`.  A miss of an only-if-cached
   request allocates an object, sends it, empty, and never frees it.
2. `refused_below_limit` (`RefusedAtLimit`): `Start` counts a connection for its IP before it looks
   at `conf.max` and creates a thread; when either fails it closes the connection
   but leaves it in the count (`KThreadPool.cpp:388`).  If that was the IP's first
   one, the next is queued behind a thread that does not exist.  In `CountCovers`
   and `ConnectionsEnd` the variable `over` stands for these connections; without
   it both are false.

The others are in the models as the code has them, and are named exceptions of the
properties they would break.

*Cache.*  When every cached object is in use, `clean_disk` moves them all to its
private list and then restores it with `l_dhead=l_head` (`cache.cpp:465`), although
`l_head` has moved past the end: from then on nothing is removed from disk, and
the next `dead_list` writes through NULL.  The model continues after this (`lost`).
`delete_cache(-1)` starts at `l_head`, and an earlier pass moves `l_head` past
objects it could not swap out, which are then not written at shutdown
(`behind` in `DiskCache`).  `clean_disk` says of a dead object it has to leave
"delete next time", and forgets it (`DeadAreRemembered` fails) in three cases: a
thread that serves an object while another kills it moves it to the newest end
in `obj_rate`, while `clean_disk(0)` stops at the first live object and has already
set `cache_model` back; an object that `swap_out_obj` cannot write dies where it
stands, which may be behind objects that stay; and so does, without a disk cache,
every object that `delete_cache` reaches, while an object that a thread uses stays
alive in front of it.  `release_obj` unlocks an object whose `refs` is already zero
(`run_client.cpp:1233`), which `clean_disk` may have freed; the control point
`unlock` is therefore not one where the thread counts as a user.  The object of
a new URL that `net_request_start` refuses is never freed
(`run_client.cpp:1562-1570`; `leaks`).

*Thread pool.*  `Start` compares the count of an IP with `conf.max_per_ip` and does
not look at the IP's queue.  When a management page raises the limit, newcomers
are therefore served before those that wait, who still need a thread of their IP
to end; the same between the two halves of `set_max_per_ip(0)`.  `Admission`
promises arrival order against newcomers only while the limit stays (`steady`).

*Files.*  `count_file_name` starts again in every run and the clock may not have
moved, so that a name may be that of an object of an earlier run (`clashed`);
`sync_cache_dir`, which would remove stray files, is commented out.  `fclose` is
not asked whether the last pieces were written (`short`).  When `store_in_chain`
has no memory, `swap_in_obj` frees the chunks and leaves `container` pointing at
them (`Unusable`).  When `fread` stops at an error, the pieces it has read stay in the
container of the object, which is killed; but a request that has located it before
reads the file again, behind these pieces, finds that this read has the right length,
and sends what the first one left and then the whole body (`ReadAgain`, the third
exception of `OwnBody`).  A string of more than 2048 characters is written to the index
and ends the restore when it is read.  An index that is older than a crash brings
back objects that were killed since.

*Access filter and users.*  `Start` calls `allow_connect` for every accepted
connection with no destination, and an address of 0 matches every rule
(`KFilter.cpp:133`, `KThreadPool.cpp:313`): with `first deny` and a rule for one
destination under `model deny` nobody can connect at all.  `CheckIsPolicy` holds
only for calls during which at most one rule was added or expired: a deleted rule,
or `changeFirst`, in the middle of a walk can give an answer that the rules gave
at no moment.

*Logins.*  When a user logs in again, `ForceLogout(user,false)` ends the former login
and unlocks `m_lock` (`KUser.cpp:692`), which its caller `Login` holds and unlocks
again at its end (228).  Between the two, `Login` writes `m_user[ip]` without the
lock; and another page may be inside its section, which is then not atomic either.
If page A is unlocked at 692, B takes the lock, finds its address free (223) and no
login of its user (226), A writes its entry (227) and then B its own, then B has
made a second login of the user, or has taken A's address over, although B has
never been unlocked.  A's second unlock now frees the lock that B holds, so that a
third page may enter B's section, and so on.  The two action properties of the
logins therefore name the whole time in which `m_lock` does not protect the table
(`Guarded` is false), and `OnlyForceLogoutUnguards` says how such a time begins.

*HTTP.*  `load_head` passes the parser the length of the last `recv` only: what
came before it in the buffer counts as not there, and bytes of a body behind a
head that arrived in two reads are lost to the client (the length then does not
fit, and nothing is stored).  `load_body` returns the result of its last `recv`,
so that a body that a timeout, a readable client or a failed send has cut short
counts as a success, and the connection is kept behind a truncated answer
(`"stalled"`, `"interrupted"`, `"gone"`); likewise a body longer than declared
(`"overlong"`).  "Can't send" is not `CONNECT_ERR`, so the connection is kept
(`"cannot_send"`); an object whose file cannot be read is answered with nothing,
and kept (`"unreadable"`); a redirect of the management pages has no length, and
is kept (`"redirect"`).  Requests that are sent behind the head of another one are
dropped with the buffer.

*Net requests and names.*  Both clocks are read before the bucket's lock; a thread
that is overtaken puts a time behind a later one (`late`).  The loser of a race to
the DNS cache goes on with its own answer, so the second look-up of a service that
connects by name can give another address than the rules saw (`moved`).

*Relays.*  SOCKS and MMS take one `recv` for a whole message, RTSP sends on as many
bytes as the last `recv` brought from the start of what it collected (`split`).
`create_smtp_connect` tests `connect()<0`, which is never true.  A UDP association
that names no port is told port 0, and `open(0)` reports success when there is no
socket (both named in `ToldTruth`).  A datagram of a denied host, or of any host
before the user is known, ends the association.

## 3. Proofs

### The object cache

`ObjCacheProofs` proves for every finite set of objects, workers, every set of
URLs and sizes, and all limits:

| Theorem | Statement |
|---|---|
| `Inductive` | `Spec => []IInv(Nat)` |
| `TypeCorrect` | `TypeOK`; in particular `refs` never becomes negative |
| `ReferencesAreCounted` | `RefsCounted` |
| `NoUseAfterFree` | `HeldIsCached` |
| `NoSendAfterSwapOut` | `SendingHasBody` |
| `OneLiveObject` | `OneLivePerUrl` |
| `ListIsSafe` | `NoNullDereference` |
| `HeadStays` | `HeadIsSet`: `l_head` is set whenever the list is not empty, until a shutdown sweeps it |
| `ListIsWellFormed` | `ListSound` |
| `ListRefinesLru` | `ListIsLru`: `ObjCache` implements `LruList` under the mapping `Lru` |
| `SizesAreExact` | `SizesAccounted`, and neither total is negative |
| `NoDeadForgotten` | `DeadAreRemembered`, if there is a disk cache (`UseDisk`) whose files do not fail (`~DiskFaults`), and one thread at a time uses an object (`[]ServedAlone`) |
| `OneWorkerForgetsNothing` | `DeadAreRemembered` for one worker thread, whatever it does, with the same disk cache |
| `CacheRefinesShared` | `CacheIsShared`: `ObjCache` implements `SharedCache` under the mapping `Shared` |

The assumptions are `NilAssumption` and `ConstantsAssumption`: NULL is no object,
the sets of objects and workers are finite, sizes are positive, limits are
natural numbers.

The argument.  A worker touches a freed object only if the collector destroys an
object with a positive `refs`, so `refs` has to be exactly the number of its
holders plus what was left behind (`RefsCounted`), which in turn needs to know at
each control point whether a thread has a reference and where it goes next
(`ClientOK`), and that private objects belong to one thread (`Private`).  The
collector reaches objects only through the list, so it destroys *cached* objects
only if the list holds nothing else.  That is the hard half: `Shape`
(`ObjListInv`) says that the links of the cached objects are inverse to each
other, that there is a row `f` of distinct objects from `l_dhead` to `l_end` along
`next`, a second row `g` of the objects `clean_disk` has parked, that `l_head`
stands in the first, and that both rows together hold every cached object unless
the list was lost.  The rows are existentially quantified functions on `1 .. n`;
each list operator gives a new row, which `ObjListProofs` names explicitly (an
append, a removal, a move to either end, or the concatenation at the end of
`clean_disk`).  What survives after `clean_disk` has lost the list is the weaker
part of `Shape`, still enough for memory safety of `update_list`.
`SendingHasBody` rests on `RefsCounted` and on the fact that `delete_cache` skips
objects with a positive `refs` outside shutdown.

The refinement.  `Chain` walks the links from a pointer with a recursive function,
and what it returns is pinned to the row of `Shape`: the list's abstract order is
the enumeration `g \o f` of its two rows (`OrderIsEnumeration`), whichever rows
`Shape` provides, since a row is determined by its first object and the links.
Thus each list operator, for which `ObjListProofs` has named the new row, has an
effect on `order` that can be read off: an append is `Add`, a removal followed by
an append is `Touch`, a move to the front `Bury`, a removal `Remove`, and moving
between the rows changes nothing, because the rows are read one behind the other.
Every step of `ObjCache` that has the list in its hand is one of these or a
stutter; the end of `clean_disk` that loses the list is `Lose`.  The mark is
`l_head`; that `Touch` may not leave it behind needs `HeadIsSet`, which in turn
rests on `delete_cache` never swapping out the newest object.

The totals.  `Total(f)` is the cardinality of a set of units, so that adding or
removing one object's share is a lemma about disjoint unions and not an induction
over a sum.  Each of `stored_obj`, `swap_in_obj`, `swap_out_obj` and `destroy_obj`
changes the share of one object and a total by the same amount; `FlagsFit` (no
flag is set on memory that is not cached) is what makes the amounts the same on
the failing paths.

The dead objects.  `clean_disk(0)` stops at the first object that may stay, so it has
met every dead one only if these stand in front (`DeadFirst`, about the enumeration
of the two rows): an object is `Buried` from `dead_list` on, and no buried object
stands behind another one.  That `update_list` does not move a buried object back
to the end is the point where the hypothesis is used: a thread that rates an object
serves a live one (`ServedIsLive`), since only a thread that holds the object
kills it (`KilledIsLeft`), and `ServedAlone` says that this is the same thread.
Every step kills, buries, or is `Quiet`, that is, it leaves what threads are about to
report, and which cached objects are dead, as it was.  What was found above names
a behaviour for each hypothesis that refutes the theorem without it.

The shared cache.  `Shared` maps an object to what it is for the threads (`Life`:
none, being made, current, withdrawn), and a thread to the object it may use
(`Using`, at the control points with a reference).  `SharedCache` gives a request
the one current object of its target, and frees memory only when nobody
uses it; that `ObjCache` does this is `RefsCounted` for `clean_disk`,
`OneLivePerUrl` for `locate_in_mem` and `stored_obj`, `Private` for two threads
that fill objects at the same time, and `SlotsFit` for the slots that are used
again.  `locate_in_mem` tests `FLAG_DEAD` without the object's lock
(`run_client.cpp:363`) and counts the reference behind it (line 374); the two are
one step here because `dead_obj` and `swap_in_obj`, which may set the flag between
them, could as well set it after both, without a difference to any thread, while
`swap_out_obj` and `clean_disk`, which could kill or free an object that has no
reference yet, run under the lock of the hash entry that `locate_in_mem` holds.

Left to TLC: the liveness properties, which are outside the prover's reach, as is
everything that needs ENABLED or induction over data.

### The thread pool

`ThreadPoolProofs` proves, for all sets of connections and addresses, every
finite set of threads and all limits (`PoolAssumption`):

| Theorem | Statement |
|---|---|
| `Inductive` | `Spec => []IInv` |
| `TypeCorrect` | `TypeOK`; the total and the counts never become negative |
| `TotalIsExact` | `TotalIsBusy` |
| `NoLostWakeUp` | `NoticeKept` |
| `CountsCovered` | `CountCovers` |
| `OneOwner` | `EveryConnOnce` |
| `PoolRefinesAdmission` | `PoolIsAdmission`: `ThreadPool` implements `Admission` under the mapping `Line` |

The argument.  `NoticeKept` ties the three places that say what a thread is doing
(`FreeThread`, its command, the pending signal) together; it says which threads
are busy, and each step adds one thread to the busy ones (`StartNew`,
`StartFree`), takes one away (`Done`), or leaves them as they are (`BusyStep`,
`QuietBusy`).  So `total_thread` is a cardinality, and so is the part of an IP's
count that is being served (`CountCovers`).  `CountCovers` is an upper bound: a
thread may serve an IP without being counted for it, when the limit was switched
on, or the IP banned, after it started.  It also says that a count is greater
than the length of the queue, and this is why `dec_per_ip`, which erases an entry
without looking at its queue, never loses a connection (`OneOwner`).  `Owners`
adds that a thread has a connection only while it is busy.

The refinement.  The line of an IP is its queue, and in service are the connections
that threads have (`Service`).  A thread that ends takes the next connection
without comparing `total_thread` with `conf.max`; there are still never more than
`conf.max` in service, because this thread was counted and had none (`ServiceSize`:
connections in service are no more than busy threads, without that thread).
That a newcomer is served at once only if nobody of his IP waits does not follow
from a test in the code: as long as the limit has not changed, an IP with a queue
has a count of at least the limit plus the length of the queue (`WithinLimits`),
so that `Exceeds` holds for every newcomer.  A connection that `Admission` calls
present is open (`PresentIsOpen`), so `accept` cannot return its descriptor again.

`ConnectionsEnd` is a liveness property and is left to TLC.

### The users and the access filter

`AccessProofs` proves, for all sets of users, addresses,
page threads, connections, rules and configurations (`UsersAssumption`,
`AccessAssumption`):

| Theorem | Statement |
|---|---|
| `TypeCorrect` | `TableTypeOK`; no login was used later than now |
| `LoginIsGuarded` | `GuardInv`: while `Guarded` holds, who is about to write an entry has found out what `Login` asks, and it is still so |
| `OneLogin` | `TableSpec => SecondLoginUnguarded` |
| `OneUserPerAddress` | `TableSpec => TakeoverUnguarded` |
| `OnlyForceLogoutUnguards` | `Guarded` becomes false by `LoginAgain` only |
| `CallsAreOwned` | `ListInv /\ WalkInv`: each call of `Check` belongs to a thread that waits for it |
| `UsesLoginTable` | `Spec => TableSpec`: `Access` implements `LoginTable` |
| `AccessTypes` | `TypeOK` of `Access` |
| `CheckFollowsPolicy` | `CheckIsPolicy` |
| `FlushKeepsUsedLogins` | `UsedLoginsStay` |
| `ListedServersLive` | `ListedAreAlive` |

`AccessAssumption` says what the program's own data guarantee: rules and the
configured lists are rules, no configured list is longer than `MaxRules`, the
duration of a ban is a number, and the marks `DELAYUSER`, `Nil` and `Collector` are
no user, no service and no connection.

The argument for the logins: each step either brings no new login (`NoNewLogin`), or
it is `LoginWrite` and brings the one of its page (`NewLoginIsWritten`).  While
`Guarded` holds, a page that is about to write has found its address free, and after
`ForceLogout` its user logged in nowhere (`FoundOut`), and nobody has changed the table
since (`GuardedTable`): the page is the only one inside, with the lock, and nobody is
past `ForceLogout` without it.  If `Guarded` holds after a step in which a page stays
inside, it held before (`GuardStays`), although it may be lost and come back: it comes
back only when all sections that met have ended, and then nobody is about to write.
So a write that brings a second login, or takes an address over, starts from a state
that is not `Guarded`.  For `OnlyForceLogoutUnguards` each other step is shown to
keep `Guarded`, pages in `PageGuards`, the rest in `GuestGuards`.

Since `Spec => TableSpec` (`UsesLoginTable`), all this holds in the whole filter.  The rules that a page
edits are no login, so `MakeChain`, `DelChain`, `changeFirst` and `Ban` are
`OtherPage`; a round of `CheckChain` that asks about a user is `Use` or a stutter;
the time thread's flush is `FlushTable`.  That the address asked about is one of
`Addr` needs `WalkInv`.

The argument for the list: a connection has its server from `Serve` to
`DeleteServer`, it is listed only between its first `add_filter_time` and
`del_filter_time`, and `del_filter_time` comes before the server is deleted
(`ListInv`).  While `check_time` is in its loop nobody else changes the list, so
the entry it is at is listed, and its server alive.

The argument for `CheckIsPolicy` (`PolicyInv`).  `Knows(w)` says what a call has found
out at each point as long as at most one change fell into it (`torn < 2`): the rules
it has walked past do not match (`Passed`), `first` is what it was when the call
read it, and the decision by the rules as they are now is among those `seen`.
Behind the first list without a match, what the call will answer is `Second`,
which must have been the decision at some moment: if nothing has changed since,
the first list still has no match; if the one change was there, the decision
before it is in `seen` already.  Rules are added, and expire, under the write lock,
so that `Passed` cannot be disturbed in the middle of a list; whatever else changes
a decision (a rule deleted from the list that is being read, `first`, a login that
begins or ends, a group, a rule's time) sets `torn` to 2 at once.

The argument for `UsedLoginsStay` (`PassInv`).  A decision can be *firm*: each rule it
was made by, walked past or matched, either does not depend on a login, or depends
on one that was made recent when the rule asked (`Firm`, with `Recent`: used since
the tick began).  What `check_time` finds out about a connection stays firm until
`FlushLoginUser`, because nothing else is changed in between (`still`), and a login
used since the tick began is not idle when it is flushed, because the tick is
shorter than `user_time_out`.  So the flush changes no firm decision
(`FlushKeepsDecision`), although it may erase any other login.

Left to TLC: the liveness properties `IdleEnd` and `DeniedEnd`.

### Net requests and names

`RequestsProofs` proves, for every finite set of threads, all names, addresses,
limits and ages (`NameAssumption`, `RequestAssumption`, `SameAssumption`):

| Theorem | Statement |
|---|---|
| `TypeCorrect` | `TypeOK` of `Requests` |
| `RequestsAreCounted` | `UsersAreCounted` |
| `CheckedIsConnected` | `ConnectsToChecked` |
| `BurstsAreBounded` | `BurstIsBounded` |

The argument.  `Stages` says what a thread holds of the two tables at each place.
From it, `refs` is a cardinality that `Count` and `End` change by one thread, and
`flush_net_request` deletes only what nobody is counted in.  For the addresses:
between the check and the connection the entry of the name is either the checked
address, or the thread is in `moved`.  For the bursts: as long as no time was put
behind a later one, the ring `ips` of an entry and the history `taken` are
sorted, the ring holds the last times whether they were let through or not, and
an entry that was flushed was last used more than `total_seconds` ago; so the
request that completes a burst finds in the ring a time that is not before the
first of the burst.

### The HTTP session

`SessionProofs` proves, for any number of requests and any lengths
(`SessionAssumption`):

| Theorem | Statement |
|---|---|
| `WholeBodiesStored` | `StoredIsWhole` |
| `KeptAnswersAreWhole` | `KeptIsWhole` |
| `FormsForwardedWhole` | `FormForwarded` |

The argument for bodies: the units in the container are consecutive ones of the
answer (`Numbered`, `Filled`), there are no more than have arrived, and if they are
as many as declared then none was missed between the head and the first of them.
For answers: what the client has got is followed beside the container
(`Answering`, `Stored`, `Kept`), and each way out of a request ends with a complete
answer, a closed connection, or a fault.  For forms: a polite client is at most one
request ahead of the thread (`Waiting`), so behind the head of its request there
are only units of its own body, split between `data`, `up` and what it has still
to send (`Forwarding`).

### Relays

`RelayProofs` proves, for all services, any number of messages, data and
datagrams (`RelayAssumption`):

| Theorem | Statement |
|---|---|
| `DeletedOnce` | `FreedOnce` |
| `RepliesAreTrue` | `ToldTruth` |
| `AnswersToPeer` | `UdpToPeer` |
| `NothingIsLost` | `NothingLost` |

The argument.  What the thread owns (`Owned`) and what it knows of the host
(`Linked`) depend on which operations of the script it has behind it (`Behind`),
so each step needs only the order of the operations, which `ScriptOrdered`
establishes for every script: a mysocket is made, a connection or a port is
opened before success is told or the pipe begins, none twice, and only an
association opens a port.  An operation that succeeds adds itself to what is behind
(`Advance`); one that fails leaves nothing allocated that `End` would delete again
(`Failed`).  For datagrams, the peer is where the first one let through came
from, and taking one more cannot make an earlier one first (`TakesOne`).

`NothingLost` speaks of the end of a handshake only; inductive is `CarryInv`
(`RelayInv`), which TLC checked on the instance of `relay` first.  It holds as long
as no message was taken for whole that was not (`split` is never undone), while
the thread is in the script or the pipe:

- *Shape.*  What a side has sent is `Messages(s)` messages of two units, and behind
  them data, but data only when all its messages are sent (`Spelled`).
- *Counts.*  How many messages are still to be read follows from the place in the
  script (`Left`, `HostHeard`).  A user that waits has been asked for no more
  messages than were read, and one more during a read.
- *Streams.*  What was passed on, and what is not read, is what was sent behind the
  messages that were read (`UserCarried`, `HostCarried`).  A handshake that sends on
  what it read has nothing behind it: the user's bytes are `read` and what is not
  read.

The step that could fail is a read.  One `recv` takes whatever is there: with an end
in it, it is one message and nothing behind it, because the side has not been asked
for another (`WholeMessage`; `Recv`, `Until`, `Banner`).  A line ends at the second
unit whatever follows (`LineTaken`).  Sending adds the same units to both sides of
the equation (`SentOn`), the pipe moves a unit within one of them (`PassCarried`).
At the end of a script `Left` is 0, so all messages are read and the rest is the
payload (`RestIsPayload`).  The lemmas on `Before` and `After` need no induction:
sequences are equal if their lengths and elements are (`SameSeq`); for the same
reason `Payload` is stated with the place of the last end, not by selecting units.

Left to TLC: the liveness properties `GoneIsLeft` and `RelayEnds`.

### Files and index

`DiskProofs` proves, for any number of objects, requests, ticks and runs, bodies of
all lengths, any set of long URLs and crashes at any moment (`DiskAssumption`: the
clock and the names are bounded, a body has a piece):

| Theorem | Statement |
|---|---|
| `FilesAreTrue` | `DiskIInv`, the inductive invariant of `DiskInv` |
| `BodiesAreOwn` | `OwnBody` |
| `RestartKeepsAll` | `RestartKeeps` |
| `TypeCorrect` | `TypeOK`: in particular, the list holds no object twice |

`DiskIInv` was checked by TLC on the instance of `disk` before it was proved.  Its
parts, and why `OwnBody` is not inductive without them:

- *Names.*  Those given in this run are below `clock + count_file_name`, the next
  one, so a run gives no name twice; a name of an earlier run may come again, and
  then both objects are in `clashed`.  `Counted`, which counts the objects that have
  no name yet (`Nameless`), bounds the counter.
- *Files.*  The file of an object that is not in `clashed` is gone or has the first
  pieces of its own body (`OnFile`, `Holds`): `swap_out_obj` writes only what is
  `Unwritten`, and no other object writes, or removes, that file.
- *Memory.*  A container in use is the body itself (`Unwritten`), was read back from
  a file that has the body (`ReadBack`), or is one that nobody can use (`Spoilt`).
  Before a read (`ToRead`), either the file does not have the length of the object,
  so that no read of it fits; or the container is empty or has what reads have left
  that stopped before the end: then these are pieces of the object's own body
  (`Leftover`), and a read that fits puts the whole body behind them (`ReadAgain`).
- *The index.*  A record leads to a file that is `OnFile`, cached or not
  (`Recorded`); `Destroy` may remove the file under it, and a crash may bring back
  an index that is older than the files.
- *Shutdown.*  From `Shutdown` to `Exit`, what is `due` is killed by a failed write,
  or cached and, once on disk, `Safe`; while the program is down it is in the index
  and still `Safe` (`Promised`).  The records that `Restored` keeps are all those in
  front of the first long URL (`RestoredOK`).

Each action has a lemma; the steps that touch one object in memory share
`TouchStep`, those that write a file `WriteStep`, those that forget what nobody
leads to `KeepOK` and `DownOK`, and those that leave objects and files alone
`QuietStep`.  `Selected` is the loop over the list that `save_index_file` and
`destroy_obj` stand for; `SelectedOK` says that it finds the objects asked for, and
none twice where none was there twice.

### What is only model-checked

Of the properties that hold, only the liveness properties (`RequestsEnd`,
`DeadReclaimed`, `ShutdownEnds`, `ConnectionsEnd`, `IdleEnd`, `DeniedEnd`, `GoneIsLeft`,
`RelayEnds`).  All invariants, action properties and refinements that the passing
runs check are theorems, `DeadAreRemembered` under the hypotheses named above.

## 4. Not modelled

- `ftp.cpp` and `http_ftp.cpp`: scripts of commands and replies like those of
  `Relay`, with a second connection for the data, which makes no check of its
  destination; `dnsproxy.cpp`: one datagram each way, without state between two.
- `KTimeMatch.cpp`: a table look-up; what a rule's time says is a choice of `Access`.
- The arithmetic of ranges and of freshness (`http_utils.cpp`, `check_object`):
  loops over numbers without another actor.  A range that starts inside a chunk
  takes the whole chunk off the length that is left (`http_utils.cpp:950`).
- The users' file and the accounting of time (`KUser.cpp:465`), and the loadable
  user model.
- The pages that list users and groups (`KUser.cpp:489`, `:538`).  They change
  nothing, but call `GetUserName(...,false)` in a section under `m_root_lock`, which
  unlocks it at the first name it finds (`KUser.cpp:752`): the rest of the list is
  walked without the lock, and the `Unlock` at the end may free the lock of another
  thread, just as with `m_lock` above.  The steps that are sections under
  `m_root_lock` here (`LoginStart`, `DelUserRecord`, `NewUser`, `AddGroup`,
  `DelGroup`, `CheckGroup`) are thus atomic only while nobody looks at such a page.
- Configuration, management pages, logging, digests: text and files.  What pages
  change is part of the components they change.
- Signals: a handler that calls `shutdown()` in a thread that holds a lock is
  undefined behaviour of POSIX; when `shutdown()` runs, it is modelled in
  `ObjCache` and `DiskCache`.
- Hashes and their buckets; numbers of 2 GB and more in the totals of the cache.
