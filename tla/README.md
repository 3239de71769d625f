# A verification of the HTTP proxy

The program in `src/` is a caching HTTP proxy in C: one process, one thread, one
`select` loop over all its sockets. Clients send it `GET` and `CONNECT` requests;
it connects to the origin, keeps the response of a `GET` for as long as its
`max-age` says, relays the bytes of a `CONNECT` tunnel, and limits what it writes
to a client with a token bucket.

This directory holds TLA+ models of that program, TLC configurations that check
them on small instances, and theorems checked by TLAPS for instances of any size.

## The system

| Component | Code | State it keeps | Operations |
|---|---|---|---|
| Event loop | `proxy.c` `main`, `handleNewConnection`, `handleExistingConnection`, `handleDisconnect`, `handleClient`, `handleServer` | `master_fd_set`, `copy_fd_set`, `max_sock` | refill buckets, retry unpaid responses, select, accept, read, close |
| Server list | `proxy.c` `pushFrontServerNode`, `deleteFromServerList`, `isServer` | a linked list of (descriptor, URL) | push at the front, delete the first node of a descriptor, look a descriptor up |
| Cache | `HttpCache.c`, `CacheObject.c` | an array that doubles, with holes; `num_obj`, `capacity`; per object `client_fds`, `last_updated`, `max_age` | insert, find by URL, delete expired, strike a descriptor |
| Buffers and buckets | `Buffer.c`, `Bucket.c`, `add_tokens`, `use_tokens` | per descriptor the bytes received so far and a token bucket | insert, append, clear, delete; refill, pay |
| Tunnels | `proxy.c` `secureNodeList` | an array of (client, server) descriptors | insert, delete by descriptor, find the other end |
| Parsers | `HttpReqParser.c`, `HttpResParser.c` | none | is there a complete header; method, URL, length, `max-age` |
| Dynamic array | `utarray.h` | the elements of `client_fds`: next free slot, slots, contents | push, insert, erase, resize, walk |
| Legacy modules | `ServerHandler.c`, `HandleMessage.c` | a second server list, a second buffer array | earlier versions of the above; the Makefile does not build them |
| Not of the proxy | `uthash.h`, tests, `performance_tests/` | | |

**How they interact.** Everything happens in direct calls from the loop; there are
no locks and no callbacks. What ties the components together is the *descriptor
number*. The same small integer is a bit in `master_fd_set`, an index of the
buffer list, an element of some object's `client_fds`, the key of a node in
`server_list` and one half of a tunnel. The kernel hands a closed number out again
at the next `accept` or `socket`, so a component that was not told of a closing
keeps talking about somebody else. No component is told by a common routine:
`handleDisconnect` tells all but `server_list`; `handleServer`, which also closes a
descriptor, tells only `server_list` and `master_fd_set`.

**What is hard.** The peers are concurrent with the loop: they send, close, reset
and let time pass between any two of its steps, and each handler runs on a
snapshot (`copy_fd_set`) older than the handlers before it. Numbers are reused. A
response may find its clients without tokens and must wait. Objects expire
between any two passes. Any failed call ends the process (`server_error`, `assert`,
`SIGPIPE`).

**What makes each part correct.** The loop: the watched descriptors are the open
ones, no larger than `max_sock`, and have buffers; none is visited after it was
closed. The server list: an origin is recognised as that origin. The cache: a URL
has one object, every object lies where the retry loop looks, a waiting descriptor
is an open client that asked for that URL, responses go away when they expire.
Buffers and buckets: no bucket overflows or goes below zero, a response is sent
when it is paid for. Tunnels: each end leads to the other. The whole: nobody is
sent what he did not ask for; everything sent to the proxy is read. Parsers: a
message is recognised with its last byte, however the reads cut it, and read as it
was meant. Memory: no buffer is written past its end.

## The modules

| Module | Models | Extends |
|---|---|---|
| `ProxyBase` | descriptors, URLs, chunks of data, the clock | |
| `HttpCache` | the cache and its objects | `ProxyBase` |
| `BufferList` | partial buffers and token buckets, as the loop sees them | `ProxyBase` |
| `SecureNodes` | the tunnels | `ProxyBase` |
| `Proxy` | the loop, the handlers, the server list, the peers; composes the three | the above |
| `ProxyClaims` | what texts of the repository say and the code does not do | `Proxy` |
| `UrlStore` | abstract: what the cache is to somebody who only GETs | |
| `ProxyStore` | the mapping under which `Proxy` is a `UrlStore` | `Proxy` |
| `MCProxyGet`, `MCProxyTunnel`, `MCProxyMixed` | what clients and origins send in the runs; in `MCProxyMixed`, also tunnels that never fall silent | `ProxyClaims` |
| `TokenBucket` | one bucket at the resolution of the clock | |
| `RateLimit` | abstract: what a token bucket promises | |
| `PartialBuffer` | memory: sizes and lengths of buffers, the list's size, `max_sock` | |
| `Parsers` | both parsers, token by token | |
| `Assembly` | messages arriving in reads of any size, and which parser gets them; composes the two | `PartialBuffer`, `Parsers` |
| `MCAssembly` | the messages of the run | `Assembly` |
| `UtArray` | `utarray.h`, `delete_from_clientfds` and the loop of `handleServer` that calls it | |
| `FdList` | abstract: the list its callers take the array for | |
| `HandleMessage`, `ServerHandler` | the legacy modules | |
| `Legacy` | the loop their headers describe; composes the two | both |
| `SequenceLemmas` | what several proofs need of sequences and of loops over them; that recursive functions exist | community and proof modules |
| `ProxyTypeProofs` | what each operation of the cache and the buffers preserves; the type invariant, and the scan of the cache | `Proxy` |
| `ProxySafetyProofs` | what descriptor numbers mean to the components: sockets, origins, who waits, one object per URL, tunnels | `ProxyTypeProofs` |
| `ProxyFetchProofs` | what the proxy is to clients that only GET: the refinement to `UrlStore` | `ProxySafetyProofs`, `ProxyClaims`, `ProxyStore`, `SequenceLemmas` |
| `TokenBucketProofs` | a bucket is a rate limit | `TokenBucket` |
| `AssemblyProofs` | buffers are never overrun, and messages are read as they were meant | `Assembly`, `SequenceLemmas` |
| `UtArrayProofs` | the array is a list | `UtArray`, `SequenceLemmas` |
| `LegacyProofs` | what the legacy buffers and server list hold | `Legacy`, `SequenceLemmas` |

The variables keep the names of the code: `arr`, `num_obj`, `capacity` (the cache);
`live` (the slots of `buffers` that are not NULL), `content`, `tokens`, `elapsed`
(the buffers); `secure_list`; `max_sock`, `master` (`master_fd_set`), `ready` (what is
left of `copy_fd_set`), `idx` (the `i` of `check_cached_messages`), `server_list`; `pc`
says where the loop is. `sock` and `conns` are the kernel and the peers. `asks`,
`answers` and `partner` are history: what was read from and written to a
connection, and the tunnel it is in. No guard reads them.

One action is one thing the loop does between two points where the world may
change under it:

* `AddTokensStep`, `CheckCachedMessages` (one cache slot), `Select` and `EndOfPass`
  (with `delete_expired`) are the loop outside the handlers.
* `HandleNewConnection`, `HandleDisconnect`, `ReadError` and the handlers each visit
  one ready descriptor, smallest first, with `max_sock` read again before each
  (`Turn`), as the `for` loop does.
* `handleClient` is `ForwardGet`, `OpenTunnel`, `ConnectOnly` (any other method),
  `ServeFromCache`, `DropRequest` ("Invalid response in cache"), `Relay` and
  `KeepPartial`; `handleServer` is `StoreAndForward`, `Relay` and `KeepPartial`.
* `AcceptFails`, `OriginFails`, `AssertFails`, `WriteFails` and `RetryFails` end the
  process. `RetryFails` and `WriteFails` are enabled when the step would write to a
  peer that closed; the write may also succeed, as the kernel allows.
* `ClientSend`, `OriginSend`, `PeerClose` and `Tick` are the world.

In `Proxy`, this is abstracted:

* Bytes arrive in chunks that a parser tells apart: one that completes a request,
  one that completes a response, one that completes neither. A `read` returns one
  or more of the chunks that have arrived, so messages arrive split or joined.
* Times are ages counted up to `TimeCap`. The assumptions on `TimeCap` make what
  lies beyond it act the same: every response has expired, every bucket is full.
* `client_fds` is a set. The code erases from the array while it iterates over it;
  the order matters only with two elements, and `AtMostOneWaiter` says there never
  are two. The array itself is `UtArray`'s.
* `server_list` is one stack of URLs per descriptor: the linked list is only ever
  searched for the first node of a descriptor.
* A cache object has a `key` besides its `url`: `strncpy` copies the URL without its
  terminator (`proxy.c:289`), so `strcmp` may or may not read the same string.
  `KeysRead` gives the outcomes; the run `mixed` checks both.

The other modules refine what `Proxy` abstracts, each a part of it:

* `TokenBucket` has the clock `Proxy` rounds: refills come at any moment, are rounded
  down (`NumTokens`), and read the clock twice (`Refill`, then `Stamp`), with time
  passing between. `spent`, `refills`, `unpaid`, `capped` and `credit` are history.
* `PartialBuffer` has the sizes: `insertPartialBuffer` doubles once, or
  faults when the `int` size cannot be doubled (`Overflow`); handlers keep, clear or
  leave what was read. `Open` may find the buffer `handleServer` left behind.
* `Parsers` works on words, the pieces `strtok` cuts, not on characters: what matters
  is which token comes next and which characters cut it. A text is a sequence of
  words, one word standing for one byte in the counts of `Assembly`. The loop of a parser
  is a state machine over the words: where it is says what the next token is to it
  (`Awaits`: the name of a field, a host, a length, a directive, an age), and one turn
  (`ReqTurn`, `ResTurn`) takes one token, or, in a response, one word with all the parts
  that are cut from it. `Fault` is a `strdup`, `atoi` or `strncmp` of a null pointer, or
  the copy of the whole buffer that `parse_http_req` makes on the stack at every read
  (`HttpReqParser.c:52`), when it is longer than `StackSize`. Zero bytes inside a message
  are left out.
* In `Assembly` every action that changes `PartialBuffer`'s variables conjoins one action
  of `PartialBuffer`, chosen by what the parser says of the text so far. The parser is
  chosen as in `handleExistingConnection`, by `isServer` alone: `nodes` counts the nodes
  `server_list` has of each descriptor (which URLs they name is `Proxy`'s), connecting to an
  origin pushes one, a complete response deletes one, a closing none. So a client may
  inherit the node of a dead origin, and `parse_http_res` gets his request. The words of
  a request are cut at other characters than it cuts at; what it may come to is therefore
  left open (`Misread`), but for where the header ends. A field of a request may be
  written without a blank after its colon (`glued`), which changes what `strtok` cuts; to
  `parse_http_res` the colon is as good as a blank, so responses have no such fields.
* `UtArray` keeps `i`, `n` and `d` of `UT_array`; slots beyond `i` keep what was in them,
  freshly allocated ones hold `Junk`. A call that would make the array longer than
  `MaxLen` is not made. The proxy itself only creates, pushes, erases, walks and frees; the
  other operations are modelled because `utarray.h` is in the source with all of them.
* `Legacy` reconstructs a loop from the comments of the headers. Writing past the end
  of a buffer (`Survives`) and reading a freed node (`remove_list_node`) are choices over
  what the build may do: the process ends, hangs, or goes on.

## The runs

In the runs of `Proxy`, `ListenFd` is 3, as in a process with its standard streams; three
descriptors for connections (`MaxFd` 6) are a client, its origin and one other
connection, which is what it takes to reuse a number while the rest goes on.
`MaxConns` bounds the connections accepted, `MaxSends` the chunks each peer sends, but for
the ends of a tunnel in `mixed`, which go on for ever.
With `MaxAges = {1}` and `TimeCap = 1` a response is fresh, then expired; with
`BucketSize = TokenRate = 2` and messages of one token plus one for the Age header a
bucket that starts empty pays for no response, then for one, and for a retry twice.
The untimed run `mixed` sets all of these to 0: every response expires at the end of
the pass that stored it and every client can pay, which leaves the descriptors.

| Run | Instance | Checks | States |
|---|---|---|---|
| `http_get` | 2 URLs, 2 clients, one GET each, 3 descriptors, timed, with fairness | `TypeOK`, `WaitersAreAskers`, `AnswersWereAsked`, `OneFetchPerUrl`, `AtMostOneWaiter`, `WatchedSockets`, `NoStaleVisit`, `OriginsRecognised`, `ScanCoversObjects`, `UniqueKeys`, `StoredOnce`, `ImplementsUrlStore`, `ResponsesExpire` | 377 thousand |
| `mixed` | GET, CONNECT and others, 2 clients, ends of a tunnel that send again as soon as they were read, cache keys that may be misread, untimed, with fairness | `WaitersAreAskers`, `WatchedSockets`, `TunnelTruth`, `EverythingRead` | 239 thousand |
| `buckets` | a bucket of 3, 2 tokens in 3 ticks, responses of 1 and 3, 10 ticks | `BucketTypeOK`, `CreditBacked`, `RoundingLoss`, `ImplementsRateLimit` | 43 thousand |
| `messages` | 6 requests and 9 responses on 2 descriptors with up to 2 nodes each, reads of 1 to 3, buffers of 3 that double up to 23, a stack of 9 | `AssemblyTypeOK`, `Fits`, `ScanInBounds`, `RequestMeant`, `RecognisedAtItsEnd`, `PlainNeverFaults` | 334 thousand |
| `client_fds` | 3 descriptors, up to 4 elements, 1 slot at first | `UtArrayTypeOK`, `WaitersAnswered`, `ImplementsFdList` | 32 thousand |
| `legacy` | 2 descriptors, 2 URLs, up to 4 bytes, buffers of 2, `MAX_LENGTH` 6 | `LegacyTypeOK`, `MessagesFit`, `TextArrives`, `PresentOrigin` | 1319 thousand |

The bounds of the others are the smallest in which the hard cases happen. In `buckets`
a tick is worth two thirds of a token, so that most refills round; 10 ticks fill the
bucket twice. In `messages` the longest message needs two doublings, a third one passes
the largest int, and a client may send several requests; `BufListSize` 1 makes the list
double several times at the first connection. The longest plain request just fits
the stack; `MaxNodes` 2 is a dead origin's node behind another's or a present one's. In
`client_fds` the array doubles twice, and three waiting clients are an answered one, the one passed
over behind it, and one more. In `mixed` the two ends of a tunnel are ready in every pass and
the third descriptor, another client's, is smaller or larger than both.
In `legacy` a buffer grows twice while connections are reused, and `MAX_LENGTH` is larger
than some buffers and smaller than others.

What they show:

* Although the loop visits descriptors from a set taken before the handlers ran, it
  never reads one that was closed or reused meanwhile (`NoStaleVisit`): handlers only
  open numbers that were not selected, and close only the one they were called for.
  Although `handleDisconnect` decrements `max_sock` by one only, it stays an upper
  bound (`WatchedSockets`). Although `handleDisconnect` leaves nodes in `server_list`
  and descriptors are reused, an open origin is always recognised, because nodes are
  pushed at the front (`OriginsRecognised`). Although `num_obj` is never decremented, the
  retry loop reads no slot outside the array and misses no object (`ScanCoversObjects`).
* With clients that only GET, nothing is fetched twice at a time and the assertion of
  `handleServer` holds (`OneFetchPerUrl`); nobody is sent what he did not ask for
  (`AnswersWereAsked`); a response, once stored, is not stored over until it is deleted
  (`StoredOnce`). All of this is one refinement, `ImplementsUrlStore`: each URL is
  absent, being fetched, lost or stored, and goes from one to the next only as
  `UrlStore` allows. "Lost" is what the code does and a reader may not expect: a URL
  whose origin closed too early is never fetched again.
* With one tunnel at a time each end leads to the other (`TunnelTruth` in `mixed`): the
  copying loop of `deleteSecureNode` then has nothing to copy.
* A bucket limits its client to the rate and a burst of *twice* its size
  (`ImplementsRateLimit`): a full bucket that was not refilled for long can be emptied,
  refilled at once and emptied again. Rounding takes less than one token per refill
  (`RoundingLoss`), which a fast loop can turn into all of them.
* One doubling of a buffer is enough (`Fits`), because a read is never longer than the
  first size; buffers `handleServer` leaves behind are replaced. Messages the parsers
  are made for (`Plain`) are recognised with their last byte and read as they were
  meant, wherever the reads cut them (`RequestMeant`, `RecognisedAtItsEnd`), and no read
  of one ends the process (`PlainNeverFaults`). The conditions of
  `Plain` are what the code needs. Of both kinds of message: every field has a value,
  after a blank and with nothing in it that is spelt like a field's name the parsers know;
  and no message is longer than half the largest int, or its buffer could not be doubled.
  Of a request: one `Host`, no body, no number but the port, be it the name of a
  field, and no more bytes than fit the stack, on which every read copies the buffer. Of a
  response: one `Content-Length`, which is true, at most one `Cache-Control`, in which
  `max-age`, if it is there, is the first directive and followed by `=`, and a header of at
  most `MAX_HEADER_SIZE`. What was meant by a response is said without the parser:
  `ExpectedResponse` takes `max-age` wherever it stands. That the code takes it only as
  the first directive is therefore a condition, and a response of the run does not meet it.
* A client needs one thing more, `Understood`: that no dead origin left a node in
  `server_list` for his descriptor. If one did, his request goes to `parse_http_res`, is
  never recognised, and may end the process; `messages` has such clients, and
  `stale_server` shows how one comes about. A present origin is understood whatever
  nodes are behind its own.
* `client_fds` is the list its callers take it for (`ImplementsFdList`), and
  `delete_from_clientfds` removes the first entry and no other. The loop of `handleServer`
  calls it while it walks the array: `utarray_next` then asks for the entry behind a
  pointer that holds another entry by now, and passes over one. `WaitersAnswered` says
  exactly whom: the one behind each client that was answered. With one waiter, which
  is all the proxy has (`AtMostOneWaiter`), nobody.
* The legacy list names the present origin of every descriptor as long as the process
  runs (`PresentOrigin`), which is until its last node is to be removed (`node_removal`).

**Fairness.** `FairSpec` and `BusySpec` assume `WF_loopVars(Loop)` and `WF_vars(Tick)`; every step
of `Loop` changes `loopVars`. The loop waits
nowhere but in `select`, which has a timeout (`proxy.c:100`), so it always takes a
next step: weak fairness of the loop as a whole, not of any handler, is what one
thread gives. (Reads are of ready sockets, see `NoStaleVisit`; writes and `connect`
are assumed to return.) Time passes. The peers get no fairness: they may send
nothing, for ever, and in `mixed` the ends of a tunnel may send for ever
(`KeepsTalking`): what a loop that served only the lowest ready descriptor would starve
(`VisitedOnly`). Both liveness properties allow for the end of the process.

**Violations.** Six runs state what a text of the repository says, and fail:

| Run | The text | What the code does |
|---|---|---|
| `second_asker` | `CacheObject.h:23` client_fds: "sockfds who want this URL" | A request for a URL that is being fetched is discarded (`proxy.c:332`); its client is never answered. |
| `paid_asker` | the same | `check_cached_messages` (`proxy.c:665`) leaves a client it has answered in `client_fds` and sends it the response again on every pass it can pay for. |
| `stale_server` | `ServerHandler.h:75` | An origin that closes early leaves its node; the next client on that number is taken for the origin and never answered. |
| `assertion` | `proxy.c:359` `assert(cache_obj != NULL)` | A complete response on a connection opened by CONNECT or another method has no cache object. |
| `node_removal` | `ServerHandler.h:58` "Removes a node from the server list" | `remove_list_node` does not step past a node it found (`ServerHandler.c:84`): the last node it finds for ever, any other it reads after freeing it. |
| `tunnels_crossed` | `README.md:6` | With two tunnels `deleteSecureNode` copies the deleted node over those after it, and they are lost. |

`mixed` and `tunnels_crossed` check the same property, `TunnelTruth`, with one tunnel at a
time and with two.

Further differences met while modelling, which no run states since the
violated text would be a restatement of one line: `add_tokens` never refills the
largest descriptor (`i < length` with `length = max_sock`, `proxy.c:616`; modelled by
`Refillable`); an answer from the cache bypasses the bucket (`proxy.c:324`); `HttpCache.h:58` says objects go when not accessed, the code
looks at `last_updated` (`CacheObject.c:45`), so that a response may expire before the
client that waits for tokens has paid for it.

**Mutants.** Every property of a passing run is shown to be able to fail: beside
the definition it depends on, a module holds a variant with a plausible bug
(`select(max_sock, ...)`, a node pushed at the end of the list, `num_obj` decremented),
under which the same run finds the property violated.

## The proofs

TLAPS proves, for every value of the constants that satisfies the named
assumptions (`BaseAssumption`, `CacheAssumption`, `BufferAssumption`,
`ProxyAssumption`, `BucketAssumption`, `PartialBufferAssumption`, `UtArrayAssumption`,
`HandleMessageAssumption`, `ServerHandlerAssumption`, `ParsersAssumption`,
`AssemblyAssumption`, all evaluated by TLC in the runs):

* `TypeCorrect`: `Spec => []TypeOK`. Buckets stay between 0 and `BucketSize`,
  `max_sock` between the listening socket and the largest descriptor.
* `ScanComplete`: `Spec => []ScanCoversObjects`.

Both follow from `TypeInvariant`, `Spec => []TypeInv`. `TypeOK` is not inductive: the
step of `check_cached_messages` is well typed only if slot `idx < num_obj` is in the
array, so `TypeInv` adds `ScanCoversObjects`; and accepting a connection stays within
the bound only if a pending one was selected within it. `ProxyTypeProofs` first shows
that each operation of the cache preserves type and scan together (the delicate
one is insertion: slot `num_obj` is empty, so the first empty slot is not beyond
it), and the same for buffers and buckets; it then
has one lemma per action, which cites them, and puts them together.

* `WatchesOpenSockets`, `VisitsOpenSockets`, `RecognisesOrigins`, `WaitersAsked`:
  `WatchedSockets`, `NoStaleVisit`, `OriginsRecognised` and `WaitersAreAskers` always hold.

They are parts of one inductive invariant, `SafeInv` (`SafetyInvariant`), because they
lean on each other. A client that asks was selected, so it is open (`NoStaleVisit`),
watched and has a buffer (`WatchedSockets`); it has no node in `server_list`, so it is
no origin (`OriginsRecognised`); hence it may join `client_fds` (`WaitersAreAskers`).
Conversely `handleServer`, which closes a descriptor without telling the cache, may do
so because a descriptor with a node waits for nothing. The proof follows the three
things a step can do to descriptors: leave them what they are (`QuietStep`), close
one (`ClosingSafe`), or hand one out (`HandingSafe`); each action is shown to be one
of them.

* `WaitsAlone`: `AtMostOneWaiter`. It justifies modelling `client_fds` as a set.
* `OneObjectPerUrl`: `UniqueKeys`, provided a key is read as its URL or as none
  (`FaithfulKeys`). Without that a misread key could be another URL's.

Both rest on `OnlyFetchesJoin`: `ForwardGet` is the only step that inserts an object or
adds a client to one, and it does so when it found none.

* `NewestFirstTunnelsAreTrue`, `SingleTunnelsAreTrue`: `TunnelTruth`, on two conditions,
  which are needed. `deleteSecureNode` removes the right node only when it is the last
  one: so the newest tunnel ends first (`NewestEndsFirst`), or there is never more than one.
  And an end of a tunnel sends nothing a parser takes for a message (`QuietTunnels`): to a
  complete response `handleServer` closes the connection and leaves the node.

The conditions are about states, and the theorems say that `TunnelTruth` holds as long as
they do: `Spec /\ [](condition) => []TunnelTruth`. The first admits any number of
tunnels at a time; the run `mixed` has one, and `tunnels_crossed` two that end in the wrong order.
The invariant (`NodesStand`) adds to `SafeInv` that every node is a standing tunnel between two open
descriptors that are in no other.

Of clients that send nothing but GET (`OnlyGets`), with keys read as they were written
(`ExactKeys`), in `ProxyFetchProofs`:

* `FetchedOnce`, `AssertionHolds`, `StoresOnce`, `AnswersAsked`: `OneFetchPerUrl`,
  `AssertHolds`, `StoredOnce` and `AnswersWereAsked`.
* `ProxyIsUrlStore`: `Spec => ImplementsUrlStore`, the proxy is a `UrlStore`.

The invariant is `FetchInv`. To `SafeInv` and `UniqueKeys` it adds that what a client
sends is never taken for a response (`ClientsOnlyAsk`), so that `handleServer` acts on
origins only, even when a client has inherited the node of one; that an object is of the
URL it is found by (`HoldsItsUrl`); and that each open origin has a pending object of
its own (`OneFetch`). Each step is then one of four (`StepKinds`): it opens an
origin and inserts its object, stores a response and closes its origin, closes a
connection, or leaves the origins alone and at most deletes expired responses. That an
insertion always finds a slot is the least-number principle on the empty ones
(`InsertPuts`). The four kinds are `Fetch`, `Store`, `Lose` and `Expire` of `UrlStore`.
Both conditions are needed: the run `assertion` shows what happens without the first.

Of a token bucket (`TokenBucketProofs`), for every size, rate and resolution of the clock:

* `BucketStaysInRange`: `BucketTypeOK`, the bucket stays between 0 and `BucketSize`.
* `TokensBacked`: `CreditBacked`. It is already inductive over `Ranges`, the type invariant with bounds on the
  history: what the bucket holds, with what the time since its last refill
  will bring, is covered by the credit of a bucket twice the size. A refill only moves
  the second into the first, and rounds down (`NumTokensRounds`).
* `BucketLimitsRate`: `Spec => Limit!Spec`. A step of the clock is `Grow`; a paid write
  is `Send`, whose guard follows from `CreditBacked`; the rest leaves the credit alone.
* `LosesLessThanATokenPerRefill`: `RoundingLoss`, from the same rounding lemma.

Of messages and their memory (`AssemblyProofs`), for every `BUFSIZE`, list size and largest
int, and every set of messages:

* `MemoryIsTyped`, `ReadsFit`, `ScansStayInBounds`: `MemoryTypeOK`, `Fits` and
  `ScanInBounds` always hold. One doubling is enough (`OneDoublingIsEnough`) because a
  buffer with content is at least `BufSize` large and a read at most that. Stated of
  `MemorySpec`, which lets each read be kept, cleared or closed at will.
* `AssemblyUsesMemory`: `Spec => MemorySpec`. Whatever the parsers answer, the handlers do
  to the memory what `PartialBuffer` lets them or nothing, so the three hold of `Assembly`.
* `AssemblyIsTyped`: `AssemblyTypeOK`.
* `RequestsAreMeant`, `ResponsesEndInTime`, `PlainPeersNeverEndIt`: `RequestMeant`,
  `RecognisedAtItsEnd` and `PlainNeverFaults`, under the conditions of `Plain` and
  `Understood` stated above. A message may have any number of fields and words, there may
  be other messages on other connections that are not plain, and any nodes in `server_list`.

The proof of the last three has two halves. The first is about the parsers alone: a
plain request that has arrived is parsed to what was meant (`ParsesRequest`), and any
beginning of it to nothing yet (`RequestSoFar`); a plain response is parsed to what was
meant from any beginning of it that has its blank line (`ResponseSoFar`). The loop
of each parser is shown to be a loop that carries a state over a sequence (`Carried`, in
`SequenceLemmas`), so that it can be taken apart where a sequence is: over the
concatenation of two it goes on with the second where it got to with the first. A
field then changes the header by what it says or not at all, and leaves the loop
waiting for the next name (`ReqReadsField`, `ResReadsField`); a message follows field by
field, by induction on the number of them (`ReqReadsFields`, `ResReadsFields`).

The second half is the inductive invariant `AssemblyInv`. The properties do not say what is
in a buffer, so it adds that to them (`AsSent`): while the peer of a connection is
understood, the text in its buffer and the words still on the wire are, in this
order, the message being sent; until its last word has arrived nothing was recognised; and
with that word the request's text is gone, or the response's connection closed. An
origin that is connected has a node (`Known`), so that its responses go to
`parse_http_res`. That the text never holds more than one message is what the clients of this model give,
which wait for the end of a request before they send another (`NextRequest`).

Proving them sharpened `Plain`. The properties fail for messages that no run has: a field
of a request whose *name* is a number is taken for the port; of two `Cache-Control` fields
the last one counts; and `max-age` without `=` takes the next token, whatever it is,
for the age. A request longer than the stack faults however plain its words are.

Of `utarray.h` (`UtArrayProofs`), for every first allocation, every length and any set of
descriptors:

* `UtArrayTyped`: `UtArrayTypeOK`. `UtArrayIsFdList`: `Spec => ImplementsFdList`. The invariant
  is `ArrayInv`: the elements lie in slots that were allocated and written (`Shaped`), and
  the number of slots is a doubling of the first (`Sized`). Each call is composed
  as in the code, of `utarray_reserve`, a copy of slots and a new length, with one lemma for
  each part; from them follows what it does to the contents: a splice (`Spliced`), a
  cut, or padding. Every call of `UtArray` is then that call of `FdList`.
* `UtArrayAnswers`: `WaitersAnswered`. By induction on the turns of the loop (`Answering`,
  `AnswerStep`): what is left of the array behind the place the walk has reached is the
  end of the array it began with, and what lies before it was asked or stood behind one
  that was answered.

The doubling, the search by pointer and the answering loop are recursive functions, and so are the
loops of the parsers. That such a function exists and unfolds is proved once, in
`SequenceLemmas` (`RecursionDefines`, for recursions that descend along a measure); what
it computes follows by the least-number principle (`SmallestOf`) and by induction with the
set of the numbers or sequences that have a property (`EveryNumber`, `EverySequence`),
which take a set and no operator and so can be used where the induction theorems of the
library cannot.

Of the legacy modules (`LegacyProofs`), for any descriptors, URLs and sizes:

* `LegacyTyped`, `LegacyMessagesFit`, `LegacyTextArrives`, `LegacyNamesPresentOrigin`:
  `LegacyTypeOK`, `MessagesFit`, `TextArrives` and `PresentOrigin` always hold. The invariant is `LegacyInv`. Of the buffers it says
  that one that is in use is at least a read large (`Roomy`) and holds what was read
  as far as `strncpy` lets it (`TextHeld`); of the list, that there is
  one node for each descriptor behind the head (`ListShape`), and, while the process runs,
  that the nodes are the open origins (`ListTrue`). A call of `remove_list_node` after which
  the process runs on is one that removed the node and did not read it again.

Only model-checked:

* The liveness properties: fairness and `ENABLED` are beyond the prover.
* The violations, of course.

## Not modelled, and why

`uthash.h` is third party and only a test includes it. Of `utarray.h`, the sort
and find functions, which nothing calls, and constructors of elements, which
`ut_int_icd` has none of. The tests and the benchmarks keep no state of the proxy.
Logging and `printf`, and memory management (leaks, double frees) are left out, as are
`FD_SETSIZE`, signals, short writes and writes that block. A cache hit bypasses the
bucket and a failed connection to an origin ends the process; both are modelled
(`ServeFromCache`, `OriginFails`), but no property is about them, since no text of the
repository promises otherwise. Stray writes of the legacy `clear_buffer` are a choice
between ending and going on; what else they change is not modelled.
