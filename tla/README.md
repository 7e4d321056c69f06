# TLA+ models of snotstream

This directory holds a formal model of the SNO+ stream monitor in this
repository (`snotstream.c`, the libraries in `lib/`, and the data generator):
TLA+ modules, TLC configurations that check them on small instances, and
theorems about them checked by the TLA+ proof system.

## 1. Inventory

The monitor is one process with one libevent loop. Everything happens in
callbacks of that loop; a callback is never interrupted, so the interleavings
that matter are those of whole callbacks, of the iterations of the loops inside
`main`'s cleanup, and of the connections, hosts and servers on the other side
of the sockets. `pr_do` of `pouch.c` is a blocking call, in which libcurl calls
back. The generator and `porca` are programs of their own.

| component | state | operations | who calls it |
|---|---|---|---|
| **ring buffer** `lib/ringbuf/ringbuf.c` | `write`, `read`, `num_keys`, `keys`, `fill` of a `Ringbuf`, and the heap objects the keys point to | init, clear, copy, dup, isfull, isempty, push, pushcp, pop, insert, get | the data path |
| **connection table** `snotstream.c:29-33, 73-88, 186-282, 437-446` | `monitoring_cons`, `cur_mon_con`, a bufferevent and a host string per slot | `start_con`, `stop_con`, `data_event_cb`, `delete_con`, `stop_all_cons` | controller commands, libevent, `main` |
| **controller** `snotstream.c:448-504` | `have_controller`, `controller_bev`, the sessions | `listener_accept_cb`, `controller_event_cb`, `controller_read_cb` | libevent |
| **XL3 data path** `snotstream.c:284-367, 390-436` | an evbuffer per connection, `xl3_buf`, its copy, the sums of a document | `data_read_cb`, `parse_xl3`, `xl3_watcher_cb`, `upload_xl3` | libevent (bytes, timer) |
| **bundle layout** `pkt_utils.h`, `pkt_types.h` | none | `UNPK_*` macros | `parse_xl3` |
| **multi_pouch** `lib/pouch/multi_pouch.c`, `snotstream.c:167-184, 370-388, 516-535` | the multi handle, its timer and sockets, `still_running`, the list of requests | `pr_domulti`, `check_multi_info`, `multi_timer_cb`, `event_cb`, `timer_cb`, `sock_cb`, `pmi_multi_cleanup`, `pr_del_pmi`, `url_get`, `pr_callback`, `signal_cb` | the data path, libcurl, libevent |
| **node list** `lib/node/node.c` | a doubly linked list | make, append, insert, remove, foreach, destroy | the request callbacks |
| **pouch** `lib/pouch/pouch.c` | a `PouchReq`: method, URL, headers, data to send with its offset, response | setters and builders, `pr_do`, `send_data_callback`, `recv_data_callback`, `doc_get_cur_rev`, `pr_free` | multi_pouch, a client of the library, libcurl |
| **JSON nodes** `lib/json/json.c:407-621, 1335-1456` | a tree of `JsonNode`s on the heap, five pointers each | making, `json_append_element` and its kin, `json_remove_from_parent`, `json_delete`, `json_mkcopy` | `upload_xl3` |
| **JSON text** `lib/json/json.c:30-326, 361-405, 623-1311` | a string buffer; what a call has allocated | `json_decode`, `json_validate`, `json_encode`, `json_stringify`, UTF-8 and `\u` escapes | `upload_xl3`, clients of the library |
| **data generator** `xl3_data_generator/packetgenerator.c` | rings of channels, cards and crates, the sequencers, `done` | the four stages of the main loop | a test tool |
| file server `xl3_data_generator/porca.c` | a socket | send a file | a test tool |
| grapher `grapher/` | - | - | browser and database |

How they interact: a controller's `start` fills a slot of the table and opens a
socket; bytes that arrive there reach `data_read_cb`, which pushes samples into
`xl3_buf`; every half second `xl3_watcher_cb` moves the ring to a copy, averages
it, makes a JSON tree of it, prints that into the body of a `PouchReq` and hands
it to multi_pouch; SIGINT ends the loop, and `main` then stops the connections,
the controller and multi_pouch. The generator writes the packets that `porca`
sends to the monitor.

What is hard to get right, and hardly reached by a test:

- *orders of calls.* Connections close at either end in any order, so free
  slots appear anywhere in the table; deleted slots keep stale pointers. A
  request is built, sent in part, fails and is used again; JSON nodes move
  between parents.
- *boundaries.* A full ring looks like an empty one but for `fill`; copies of
  rings that wrap or are full; a full table; sums near 2^32; the edges of UTF-8
  and of the number grammar; a string buffer whose room is made sure of ahead.
- *atomicity.* Samples move from evbuffer to ring to copy to document; packets
  arrive in pieces while the watcher runs; a body is sent in pieces between
  pieces of the answer; `stop_all_cons` changes its own bound.
- *stale pointers.* `json_delete` keeps the next child while the recursion
  changes the list it is in; libcurl keeps the `PouchReq`; `signal_cb` walks a
  list that it frees.
- *liveness.* The watcher has to empty the ring under endless traffic; requests
  end; the generator's `done` follows four memories that drain at random paces.
- *partial failure.* A connect that fails inside `start_con`; requests that
  fail; a `realloc` that fails; a parse that fails at any depth.

`PROJECT.json` lists every hazard at its line, with the property that covers it
or the reason why none does.

What makes each component correct: the ring is a bounded FIFO and every object
in it has one owner; the table's counter is the first free slot and no slot is
freed twice or overwritten; there is one controller; every accepted sample is in
exactly one document; every request is freed once after it is done; a body is
sent, and an answer kept, whole and in order; the pointers of JSON nodes are an
ordered forest; the parser accepts JSON and nothing else, and what is printed is
read back; the monitor and the generator agree on the layout of a bundle; hits
keep their order through the generator's memories.

## 2. Modules

| module | models | kind |
|---|---|---|
| `BoundedFifo` | what a queue promises | abstract specification |
| `RingBuf` | the functions of `ringbuf.c` as operators on the struct | operators |
| `RingQueue` | one ring, a second one made from it, a heap and a client | state machine |
| `MCRingQueue` | symmetry for TLC | MC module |
| `RingQueueProofs` | theorems about `RingQueue` | proofs |
| `MonitorCons` | connection table, controller, shutdown | state machine |
| `MonitorConsProofs` | theorems about it | proofs |
| `Xl3Stream` | bytes, packets, ring, copy, document (uses `RingBuf`) | state machine |
| `Xl3StreamProofs` | theorems about it | proofs |
| `PmtBundle` | the macros of the monitor and the generator's unpacking of a bundle | operators |
| `MultiPouch` | requests of libcurl's multi handle, their list, the timer, the end of the program | state machine |
| `MultiPouchProofs` | theorems about it | proofs |
| `PouchReq` | one request over its life | state machine |
| `MCPouchReq` | documents for TLC | MC module |
| `PouchReqProofs` | theorems about it | proofs |
| `Forest` | what the tree operations promise | abstract specification |
| `JsonTree` | JSON nodes on a heap | state machine |
| `MCJsonTree` | symmetry for TLC | MC module |
| `JsonTreeProofs` | theorems about the pointers of `JsonTree` and about its trees: deleting, copying, the forest | proofs |
| `Utf8` | UTF-8, surrogate pairs, hexadecimal digits | operators |
| `Rfc3629` | what UTF-8 is by its definition | reference definition |
| `JsonString` | string buffer, `parse_string`, `emit_string` | operators |
| `JsonParse` | the parser of `json_decode` and `json_validate` | operators |
| `JsonMemory` | what `json_delete` frees of a parsed document | operators |
| `JsonGrammar` | which texts are JSON | reference definition |
| `JsonText` | the two printers | operators |
| `MCJsonText` | texts, typed piece by piece | MC module |
| `JsonTextProofs` | theorems about characters, strings, parser, memory and grammar, for texts of any length | proofs |
| `Generator` | the memories and stages of `packetgenerator.c` | state machine |
| `MCGenerator` | event files for TLC | MC module |
| `GeneratorProofs` | theorems about `Generator` and `PmtBundle` | proofs |

Operators and actions carry the names of the functions they translate, or a
comment names them; `PROJECT.json` "map" gives the lines. Operators whose
comment begins with "Mutant:" are faulty variants of a definition; they appear in
no specification and serve to show that a property can fail.

### RingBuf and RingQueue

A key is an address or `NULL`. `RingBuf` keeps the record fields of the C
struct; `fill`, and what `ringbuf_copy` makes of it, are kept modulo `Word`
(2^64), because `ringbuf_insert` and `ringbuf_pop` are the only operations that
could take a position or counter outside `0 .. num_keys`, and they do so to
`fill` only. `RingbufCopy`, `RingbufCopied` and `CopyOverruns` are the three
effects of `ringbuf_copy`: the new ring, of `fill + 1` keys (`CopySize`), the old
one, and whether something was written outside the new array. That is so when a
position `i - offset` is negative, or not less than the number of keys, or when
`fill` has wrapped around below zero and `ringbuf_init` is asked for more keys than
it can set up: `MaxKeys`, at most 2^31 - 1, for it counts them with an `int`. A
`fill` greater than `num_keys`, which inserts and pushes together can reach, is
none of these: such a copy is made, and is longer than its original. At a `fill`
of 2^64 - 1 the copy has no keys, and the first pop from it reads outside its array
(`PopNothing`). After an access outside an array the program has no defined
behaviour and `RingQueue` stops (`overrun`).

`RingQueue` adds the heap (`size`, bytes at each address), what the client owns
(`held`), the second ring (`out`) and the last key delivered (`got`).
`QueueSpec` uses the ring as a queue; `Spec` adds copy, dup and insert.
`ringbuf_clear` also frees the array of keys, so `alive` must be
restored by `ringbuf_init` before the ring is used again: the model's client
keeps to that protocol, and it owns what it pushes. A client that pushes an
object twice is outside the contract of `ringbuf.h` and of the model.

### MonitorCons

A slot has `valid`, `type`, `place` (host and port, only ever compared) and
`mem`, the state of its host string and bufferevent, which are allocated and
freed together. `delete_con` is the whole function: free, invalidate, search for
the first free slot. A slot's stale contents stay, as in the code. `Scan(c,
last)` is where a search for a free slot may end; `start_con`'s has no bound, so
with a full table it ends wherever the memory behind it holds a zero (`Overrun`
places further at most). Those places are taken not to match a `stop`.

`StartCon` has the two outcomes of the call: pending, or deleted again before
the call returns, which happens by its result (line 276) or by a call of
`data_event_cb` for a failed lookup. Either way `start_con` repeats the search.
`StopAllStep` is one iteration of `stop_all_cons`, whose bound `delete_con`
moves. `LoopEnds` may come at any time (signal or listener error).
An extra controller is closed at once and changes nothing; `help`, `print_cons`
and `url_get` do not change this state.

### Xl3Stream and PmtBundle

The loops of `data_read_cb`, `parse_xl3` and `upload_xl3` are unrolled, one
iteration a step, and `phase` keeps other callbacks out meanwhile. A packet is
`PktSize` bytes that contain up to `MaxBundles` bundles; a bundle is a tube and
one charge (the code treats its three charges alike). `Receive` covers the low
watermark, and connection types without a packet size, whose bytes are never
consumed. `batch` is a history variable: the accepted samples since the last
document. `phase = "crashed"` is the dereference of a `NULL` key in
`upload_xl3` or a copy that overran its array.

`PmtBundle` has the arithmetic that `Xl3Stream` abstracts: a bundle as three
words of 32 bits, the macros of the monitor, the bit functions of the generator,
and the tube number each makes of it.

### MultiPouch

A request has the state of its struct (`pr`), of its easy handle (`easy`) and
perhaps a place in `list`, the chain of nodes behind `pmi->custom` (its first
node, which carries nothing, is left out). libcurl is external: transfers of the
multi handle are `"running"` until a `curl_multi_socket_action` finishes a set
of them, for whatever reason; it asks for a timeout when a handle is added and
while one is running, and once, by `-1`, for none when the last is done.
`multi_timer_cb` adds the timer in every case. That and `still_running`, which
only `curl_multi_socket_action` writes, make the timer worth a property.
`event_cb` and `timer_cb` are whole callbacks: the socket action, all messages
(`check_multi_info`), the user's callback for each, the timer.

`upload_xl3` and `url_get` differ in one thing, the list. `pr_callback` frees
what it finds in the list; the requests of documents stay in state `"done"`, and
the runs stop making requests when `Req` is used up. The program ends through
`Signal` (whose loop over the list is unrolled, for it reads a freed node in
every iteration and may go astray) or `ListenerError`, and `main`'s cleanup.
The two ends differ: after `signal_cb` no request is left in the list
(`"stopped"`), after a listener error `nd_destroy` frees those that are in flight
while the multi handle still has their easy handles (`"failed"`, `"dropped"`).
The sockets of a transfer (`sock_cb`, `setsock`) are not in the model: libevent
is taken to report something on one at any time.

### PouchReq

`pr` is the struct; every setter and builder of `pouch.c` is an operator on it
and an action of a client (`Client`), to be called in any order between
transfers. A URL is a sequence of tokens of which `?` and `&` matter; a header is
its name; documents and answers are sequences of bytes. `req.offset`, a pointer
in the code, is an index, so a cleared buffer leaves it dangling as in the code.
The URL of a request that has none is the empty sequence. A request without a
method in `pr_do`, or without a URL in `pr_add_param` or `pr_clear_params`, gives
the string functions a null pointer (`NullCrash`); one without a URL in `pr_do` is
refused by libcurl, so that nothing is sent or received (`Connected`).

`pr_do` is split where libcurl calls back: what the function does before
`curl_easy_perform`, any number of `SendPiece`, `SendEnd`, `RecvPiece` and
`RecvFails` in any order, and what it does afterwards. libcurl may give up at any
point, and `Return` does not tell success from failure, since the code only
copies the result codes. `doc_get_cur_rev` is its own way to call `pr_do` and to
go on with the answer (`ReturnRev`, `CrashRev`). `curl_easy_init` may fail in both
(`DoFails`, `DocGetCurRevFails`); the second then searches an answer it has not.
`start`, `sent`, `eof`,
`arrived` and `lost` are history variables.

### Forest and JsonTree

`JsonTree` has the five pointers of each node as functions of its address, and
`live`, the allocated nodes. The attaching and detaching functions are one step
each. `json_delete` and `json_mkcopy` recurse over children and change the lists
they walk, so they are unrolled: a step is one iteration of a loop or one return,
and `stack` has the calls in progress with their local variables. `arg`,
`subject` and `copies` are history variables. `Forest` is the abstract
specification: a set of nodes and a sequence of children for each; the
refinement reads the sequence off `head` and `next` (`Forward`), in every
intermediate state. A client keeps to what the functions assert (`CanAttach`),
and does not attach a node below itself.

### Utf8, JsonString, JsonParse, JsonMemory, JsonGrammar, JsonText and MCJsonText

These functions have no state of their own. A text is a sequence of bytes, a
pointer into it an index, and what lies behind its end is the 0 that terminates
it. A parse function returns whether it succeeded, the position behind the value,
the value, the blocks it has left allocated, and whether it wrote behind a
buffer. A string buffer is its contents and its size (`sb_need`, `sb_grow`). A
double is represented by the digits `"%.16g"` prints for it; `strtod` and
`sprintf` are external. The printers are written over the same trees.

A loop of the code is a function of the number of its rounds, each of which
takes the loop's local variables to what they are a round later (`StringRound`,
`EmitRound`, `ElementRound`, `MemberRound`); a round behind the last changes
nothing, and as each takes at least a byte there are no more than the text has.
The recursion of `parse_value` is a function of how deep containers are nested:
`Nested(t, out)[d]` is what the function does at each place if containers are
nested less deep than `d`, and `ValueAt` its body. Only the printers are
recursive operators. `ParseValueCallsItself` shows that the depth is no
restriction: what `parse_value` is, is what its body makes of itself.

`blocks` in a value counts, while the parser builds it, what it has allocated
for it; `JsonMemory` has what `json_delete` would free, node by node, so that
the two can be compared (`IsCounted`).

`MCJsonText` types every text of a few pieces, a piece a step. The references
are `Rfc3629`, UTF-8 by its definition, and `JsonGrammar`, which says of a span of
a text whether it is a number, a string or a value: some way to cut it into parts
is one of those of the grammar. It knows no order of reading and no longest match.

### Generator

A ring is its two pointers and its slots, with no look before a write, as in the
code. A turn of the main loop goes through the stages read, sequence, scan and
write, whose loops are unrolled: `ReadEvent` reads an event, `ReadChannel` is a
look of the sequencer of card `ifec`, `ScanSlot` the XL3's arrival at a card,
`TakeBundle` takes a bundle from it, `WritePacket` writes a packet. The number of
iterations that the code draws at random is any from 1 to a bound, so `EndRead`,
`NextFec`, `EndSequence` and `EndScan` may end a loop after any round but the
first, or skip it when `done` says so; `EndTake` and `EndWrite` end theirs when
the code's conditions do. A bundle is its channel and the number of its event.
`overrun` is a history variable; the code prints an error there but for the case
that the pointer has just wrapped. The pointer that reads the XL3's memory does
not wrap, and `LeaveArray` is the loop that leaves the array; that it first
writes what is left of the array is not modelled, as nothing looks at the packets
of a program that has crashed.

## 3. Runs

| run | instance | shows |
|---|---|---|
| `ring_queue` | `QueueSpec`, 3 keys, 4 addresses | `WindowHoldsKeys`, `OneOwner`, and `FifoSpec`: the ring refines `BoundedFifo` |
| `ring_all` | 2 keys, 3 symmetric addresses, counters cut to `Word` = 8, `MaxKeys` = 5 | `NoDoubleOwner` whatever is called |
| `monitor_table` | 3 slots, 3 type strings of which 1 is known, 2 places, 2 controllers | `CurIsFirstFree`, `ValidIffOpen`, `NoHeapMisuse`, `OneController`, `StopClosesWhatItNames` |
| `monitor_exit` | same | violates `NothingOpenAtExit` (snotstream.c:189) |
| `xl3_stream` | 4 connections, ring of 3, 2 tubes, charges to 2, with fairness | `NoPacketWaits`, `CopyIsSafe`, `SumsHaveRoom`, `DocumentIsBatch`, `CrashOnlyAfterFull`, and the liveness `SamplesAreUploaded` |
| `xl3_full` | same with 3 connections | violates `WatcherSurvives` (snotstream.c:324) |
| `pouch_requests` | 3 requests, with fairness | `ListIsPending`, `PrivateIsLive`, `NoDoubleFree`, `TimerKept`; every request is answered (`RequestsAreAnswered`); an idle timer stops (`IdleTimerStops`) |
| `pouch_signal` | same | violates `NoUseAfterFree` (snotstream.c:377) |
| `pouch_life` | 1 document of 3 bytes, pieces to 2 bytes, answers to 3, URLs to 5 tokens before a parameter, files to 1 byte | `SendsInside`, `BodyIsDocument`, `ResponseIsWhatArrived`, `UrlIsParsable` |
| `json_tree` | 6 symmetric nodes, trees built of 4 and copied of 3, 1 name | `Linked`, `DeleteIsSafe`, `JsonCheck`, `CopyIsEqual`, `ImplementsForest` (refinement of `Forest`), `DeletesTree` |
| `json_text` | 622,000 texts of five kinds, 4 to 6 pieces each | `Utf8IsRfc3629`, `AcceptsJson`, `MemoryIsKept`, `PrintsWhatItRead` |
| `generator` | 2 cards of 2 channels, rings of 3, 3 and 6, packets of 2, files of up to 3 events, bursts of up to 3 events | `ChannelsInOrder`, `NothingLost`, `DoneMeansWritten`, `CrashNeedsManyHits`, and the liveness `Terminates` |

Why the bounds are enough. A ring of 2 or 3 keys has every relation of `read`
to `write`: empty, full, wrapped and not; the addresses are one more than the
keys, so a full ring meets a further object. With `Word` = 8 and `MaxKeys` = 5 the
copies of `ring_all` have up to 4 keys, more than the ring and its spare one, and
a `fill` that has wrapped asks for 6 or more, or for none. Three slots have a hole below, between
and above connections; two unknown type strings show what `get_con_type` makes
the same. In `Xl3Stream` a read of 4 bytes delivers up to two packets or parts
of them, 2 packets of 2 bundles overfill the ring of 3, `SumWord` = 7 is the
least that a ring of 3 charges of 2 needs (a full ring ends in the crash of
`xl3_full`, so sums reach only 4 here; the theorem covers the rest). `MaxInput`
bounds the bytes of a connection nobody reads. Three requests are a first, a
middle and a last node of the list, listed or not, and finish alone or together.

In `PouchReq`, pieces of 1 and 2 bytes cut documents and answers before, in and
behind each byte; answers of 3 bytes have no, one, two or three quotes; a URL of
5 tokens before a parameter has room for a `?` with the `&` behind it. Four
JSON nodes are a parent of three children (a first, middle and last one) and a
chain of four; six nodes hold a forest of three and its copy, and copies may run
out of memory in every iteration. The pieces of `MCJsonText` are those each part of the code tells apart,
such as the least and greatest bytes of every class of UTF-8; six pieces nest an
array in an object with a key and a comma, and fail at each place. The rings of
channels and cards are overrun by files of three events, and not overrun at other
paces of the same files; the memory of the XL3 wraps.

Deadlock checking is off where the program ends (`MonitorCons`, `MultiPouch`,
`Generator`), may crash (`Xl3Stream`, `PouchReq`) or exit (`JsonTree`), where it
has overrun an array (`ring_all`), and where a text has all its pieces
(`MCJsonText`).

Fairness (`Xl3Stream`): weak fairness of the steps of a callback that has
begun, which nothing can interrupt; strong fairness of `Watch`, because the
persistent timer of the watcher is examined in every turn of the libevent loop
and stays due until it runs, while other callbacks make `Watch` disabled only
for as long as they run. There is no fairness of the network.

Fairness (`MultiPouch`): weak fairness of `timer_cb`, an event of the libevent
loop that is due once its time has come, and, for each request, weak fairness of
`timer_cb` finishing it, because `pr_domulti` sets `CURLOPT_TIMEOUT` to two
seconds: libcurl, called by the timer alone, ends the transfer. There is none of
`event_cb`: the network may stay silent.

Fairness (`Generator`): weak fairness of `Next`. It is a sequential program whose
main loop waits for nothing. No random choice is taken to be fair.

## 4. Where code and documentation disagree

With a run:

- `ringbuf_copy` of a full ring copies no key, and `upload_xl3` then
  dereferences `NULL` (`xl3_full`). `CrashOnlyAfterFull` shows that this is the
  only way there.
- `stop_all_cons` stops after the first slot (`monitor_exit`).
- `signal_cb` reads list nodes it has freed (`pouch_signal`).

Without a run:

- `ringbuf_copy` writes in front of its new array when the unread keys wrap
  (ringbuf.c:50). `xl3_buf` never wraps when it is copied, which `CopyIsSafe`
  states and `StreamCopyIsSafe` proves.
- `ringbuf_dup` copies `sizeof(void)`, one byte, of every object (`DupSize`),
  where ringbuf.c:62-64 promises the object; `ringbuf_insert` raises `fill`,
  "+writemoves -readmoves" (ringbuf.h:13), without moving `write`.
- `stop` does not find a connection above a free slot (snotstream.c:216), although
  README.md:33-34 describes it without that condition.
- Documents do not name their tubes: snotstream.c:351 reads identities that
  nothing has written (snotstream.h:35).
- The request of an uploaded document is never freed (snotstream.c:366), which
  multi_pouch.h:31-33 expects of the callback.
- The watcher runs every 0.5 s (snotstream.c:620), README.md:54 says .05.
- `pr_clear_params` is to remove all parameters (pouch.c:132) and cuts a URL at
  its last `?`. Within this library a URL has only one, by `UrlIsParsable`.
- A request that is used again after its body was sent sends an empty body:
  `offset` is at the end (comment at pouch.c:188-191). A PUT or POST without data
  has no read callback, so libcurl reads the standard input.
- `doc_get_cur_rev` crashes on an answer without an ETag (`CrashRev`), or when
  curl gives it no handle (`DocGetCurRevFails`); `pr_do` crashes without a method,
  and `pr_add_param` and `pr_clear_params`, "Otherwise, the URL string is left
  alone" (pouch.c:132-134), without a URL (`NullCrash`).
- After a listener error `main` frees the requests in flight (snotstream.c:652) before
  the multi handle that has their easy handles, whose `CURLOPT_PRIVATE`,
  `CURLOPT_WRITEDATA` and `CURLOPT_ERRORBUFFER` point into them; `pr_free`, which
  would remove the handles, is called only by `signal_cb`. `PrivateIsLive` states
  that this is the only such moment, and that it concerns only these requests.
- `doc_add_attachment` tests `if (!fd)` where `open` fails with -1, and leaks the
  file when `lstat` fails.
- After a failed `realloc` a response is gone but its `size` is kept, and the
  next piece is stored behind bytes that nothing wrote (`lost`).
- `json_mkcopy` gives a root the key of the member it copies, against json.h:47.
- `emit_string` writes U+001F as it is (`c < 0x1F`, json.c:1180), which
  `parse_string` refuses (`c <= 0x1F`, json.c:867). Numbers too large for a double
  are printed as `null`.
- The generator reports an overrun ring, but not when the pointer has just wrapped
  (packetgenerator.c:189), and `xreadptr` never wraps (packetgenerator.c:354).
- `porca.c:64` copies the address with the arguments of `memcpy` swapped, and does
  not look at how much `send` took.

## 5. Theorems

For all values of the constants that satisfy the modules' assumptions (a ring of
at least one key and no more than `ringbuf_init` can set up; a table of at least one slot; a ring of
samples whose charges cannot exceed `SumWord`, which 1,000,000 * 4095 < 2^32
satisfies; a finite set of requests; memories, loops and packets of the generator
of at least one; values of parameters without marks; `NULL`
different from the model's other values):

- `RingQueueProofs`. `IInv` is `TypeOK`, `WindowHoldsKeys`, `OneOwner` and
  `ClearedIsEmpty`. The last is needed because `ringbuf_init` makes the ring
  anew and must not lose objects. The window's arithmetic is done once
  (`SlotDist`, `SlotNext`, `NextSlot`: a slot's distance from `read`) and each
  operation's effect once (`PushEffect`, `PopEffect`). `QueueIsFifo` maps the
  unread slots to a sequence and shows that each call is a step of
  `BoundedFifo` or none.
  `AnyOrderInv` is for `Spec`, where the window is no longer kept: `NoDoubleOwner`
  needs only the ranges of the positions beside it, because each operation takes
  a key out of one place when it puts it in another, even in the step where
  `ringbuf_copy` writes outside its array. The second ring is one of at least one
  key, or has no keys at all (`NoRing`).
- `MonitorConsProofs`. The invariant joins the types, the counter, `valid` with
  `mem`, the controller, and what the shutdown loop may assume: it is the
  counter that keeps freed slots out of `stop_con`'s search, and therefore
  `NoHeapMisuse` is not inductive without `CurIsFirstFree` and `ValidIffOpen`.
- `Xl3StreamProofs`. `OkRing` says that a ring that is pushed and copied, but
  never popped, has its unread keys from slot 0; `OkCopy` says that its copy
  never wraps and has `NULL` keys only if the ring was full. With the sums
  bounded by `read * MaxCharge` these give `CopyIsSafe`, `SumsHaveRoom`,
  `CrashOnlyAfterFull`, and with the evbuffers `NoPacketWaits`.
  `StreamDocumentIsBatch` needs sums over the keys of a ring without induction:
  `AddsUp` says that a sum is the last of a row of partial sums, and `Accounted`
  that such a row exists for the ring and, during an upload, for the copy, whose
  popped keys and remaining keys make up the batch. No sum is reduced, because
  `SumsHaveRoom`.
- `PouchReqProofs`. `Fine(p)` says of a struct what every setter and builder
  keeps: its types, `SendsInside`, and a URL whose first mark is its only `?`.
  With `BodyIsDocument`, `ResponseIsWhatArrived` and two facts about when
  histories are empty it is inductive, for pieces, documents and answers of any
  size. `Least` (a set of naturals that is not empty has a least element) stands
  in for induction where a first mark or quote is needed.
- `MultiPouchProofs`. The list is a recursive removal (`Unlist`), about which
  nothing can be proved by the induction theorems of the library; the lemmas on it
  take a least counterexample instead. `ListIsPending`, `PrivateIsLive`,
  `NoDoubleFree` and `TimerKept` need each other, and that the list is empty when
  `signal_cb` or `nd_destroy` is through (`EmptyList`), so that `nd_destroy` frees
  only what a listener error has left.
- `JsonTreeProofs`. `Linked` is not inductive alone: it would allow siblings in a
  ring, all pointing to a parent whose list they are not in. `NoRing` (each
  nonempty set of live nodes has a node whose elder sibling is not in the set)
  excludes rings without counting anything. With what is known of the calls of
  `json_delete` and `json_copy` under way it gives `Linked` and `DeleteIsSafe`
  for heaps, and so trees, of any size and depth.
  The second half of the module is about whole trees, so its proofs must get from pointers to lists and trees, without induction. `NoCycle`,
  `NoRing` and `NoDescent` say that each nonempty set of nodes has one whose
  parent, whose elder sibling, or all of whose children are outside it; `Ends`
  says the same of `next` and `prev`. A counterexample to a claim about all nodes
  would be a set with such an end, at which the claim holds after all.
  `RecursionAlong` gives in the same way, from the ends of a pointer, that a
  function that is recursive along it exists, and so what `Forward` and
  `Backward` are (`FwdFacts`, `BwdFacts`, `ListFacts`); `TreeHolds` does it for
  what `Equal` compares.
  - `DeletesTreeHolds`: `Doomed` says that the nodes still to be freed are those
    at or below a node of the calls under way.
  - `JsonCheckHolds`: `KeyInv` says that what has a parent has the key it needs,
    that a root with a key is a copy or will be the child of one (`RootKeys`),
    and which original each call of `json_mkcopy` is at (`CopyFrames`). It would
    not be inductive without the last: the key a copy gets a step before its
    parent is right only because original and copy are in containers of the same
    tag.
  - `TreeImplementsForest`: each operation changes the list of children of one
    node, as `Forest` says, and no other (`MakeKids`, `AppendKids`,
    `PrependKids`, `UnlinkKids`). A list before a node is read by `prev`, one
    behind it by `next`, so that each half is untouched by a change in the other.
  - `CopyIsEqualHolds`: `Copied` says that the copy of each call under way has
    as many children as its original has before the child in hand (`Done`), that
    they look alike, and that no call copies from a node that is being built.
- `JsonTextProofs`. The functions on texts are loops and a recursion, about which
  the library's induction theorems say nothing here. What stands in for
  induction is that the naturals are well-ordered: `LeastNatural` gives a first
  round, or a least depth, at which a claim about all of them fails, and the
  round before it refutes that. `Turn` and `TurnsExist` say once that a
  function defined round by round exists and is what its rounds make it.
  - Characters: for every code point, surrogate pair and 16-bit number, what is
    written is accepted and read back as the same (`Utf8RoundTrip`,
    `SurrogateRoundTrip`, `HexRoundTrip`), the validator accepts nothing that
    `utf8_write_char` would not write (`Utf8NoOther`), and on texts of any length
    it is RFC 3629 (`Utf8OfEveryText`).
  - Strings: before each round there is room for the four bytes of a character,
    or the 14 of an escape, and the place is inside the text (`ParseStringKeeps`,
    `EmitStringKeeps`). `LiteralRoundTrip` follows `parse_string` along the
    literal that `emit_string` writes: after as many rounds, it is behind what
    the printer wrote in that round and has the same characters.
  - Parser: `Sound` says of a result of `parse_value` that it is inside the
    text, owns what a document of its tree has, and overran nothing; `Filling`
    says it of the loop of a container, with the container half full. Both hold
    at each depth if they hold at the one below (`NestedSound`), which gives
    `ParseValueKeeps`. That the counts of the parser are what `json_delete` frees
    is `MemoryOfEveryText`. A parse with and without `out` differ only in what
    they allocate (`NestedAgree`): `ValidateAgrees`.
    `ParseValueCallsItself`: a value takes at least a byte for each level, so a
    depth of the length of the text gives what a greater one would (`NestedDeep`).
  - Grammar: `GrammarOfEveryText`, which is `AcceptsJson`. `JsonGrammar` says which
    spans of a text are values, with no word of how they are read; `Fits` relates
    them to a table of results of the parser: what the table reads at a place is
    such a span, and a span in front of a byte of `Follow` (white space, a comma, a
    colon, a closing bracket or the end) is what the table reads. Without the
    condition on that byte it is false, for the grammar has a value in the first byte of
    `12`. It holds of strings (`StringsFit`), numbers (`NumberFound`, `NumberRead`)
    and literals, and of the containers of a depth if it holds at the depth below
    (`ValuesFit`). The grammar asks of the items of a container only that one leads
    to the next (`Lead`); the loops of `parse_array` and `parse_object` are the same
    loop over ends of items (`ItemLoop`), which stops at a closing byte exactly if
    items lead there (`LoopFinds`, `LoopReads`). The characters of a string are
    compared in the same way (`UnitFound`, `UnitRead`).
- `GeneratorProofs`. `StoredElems`, `RemovedElems` and `WrittenElems` say once
  what a step does to a ring as a set of hits in order, and that a ring which is
  overrun looks empty, which loses hits but never the order of those that remain.
  The invariant is that each memory and each packet is in order
  (`RingsInOrder`, `PacketsInOrder`), that what has come further is older
  (`StagesInOrder`), and that a hit is only where its channel and card are
  (`HitsBelong`): without the last, a hit could follow another of its channel on
  a different card. With `HitsAreKept` and `DoneIsRight` it gives
  `GeneratorInOrder`, `GeneratorLosesNothing` and `GeneratorEndsWritten`. For
  `GeneratorCrashNeedsManyHits`, `Xl3HasAll` says that until the XL3's pointer
  wraps its slots are all different recorded hits; when it wraps they are
  `PER_CRATE` many (`FullNeedsMany`).
  In the words of a bundle, monitor and generator agree
  (`SameNames`), the index into `upload_xl3`'s array is inside for the
  bundles of 19 crates and no others (`TubeInArray`), tubes have names of their
  own (`TubeNamesChannel`), and a charge is at most 4095, the number the sums are
  dimensioned for (`ChargeIsTwelveBits`).

Only model-checked: liveness (`SamplesAreUploaded`, `RequestsAreAnswered`,
`IdleTimerStops`, `Terminates`), which the prover does not reach; and that what
the printers write is read back as the same tree (`PrintsWhatItRead`), for the
printers are recursive operators over trees. Its part about string literals is
`LiteralRoundTrip` with `EmitStringKeeps`.

## 6. Not modelled

- How `controller_read_cb` cuts bytes into commands (the hazard at
  snotstream.c:454), and the wording of commands and replies: the model has
  commands. Of a command that is cut in two, the first half is an unknown command,
  which changes no state, or one with another place (`start xl3 host 445|98`), which
  is a command of the model; the second half is an unknown one.
- The buffer of 10,000 bytes for a line of the generator's file (longer lines would
  be read as several events), and crates above 18, whose channels lie behind its
  arrays: the events of the model are those the arrays and the buffer are made for.
- `sock_cb` and `setsock` of multi_pouch: which sockets libcurl opens and when it
  reports them is its own business, and the code only keeps an event for each.
- `nd_prepend`, `nd_first` and `nd_get_nth`, which nobody calls.
- The lookups of the JSON library that only read.
- `porca.c`, a loop that copies a file to a socket, and the grapher, which runs
  in a database and a browser.
- Formatting, printing, host names and addresses, and what happens after
  undefined behaviour.
- Memory exhaustion, but for `realloc` in `PouchReq` and `out_of_memory` in
  `JsonTree`.
- The composition of all parts in one state machine. They share little: a sample
  passes from the data path to a document, and the document to a request, by
  values; what each takes from the other is in its own model (any accepted
  sample, any document). The ends of all of them are in `MonitorCons` and
  `MultiPouch`, whose cleanups touch different memory.
