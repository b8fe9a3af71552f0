# P2PDownLoader in TLA+

The program is a peer of a small BitTorrent-like network: it fetches chunks of
512 KB from other peers over UDP with a sliding window and congestion control of
its own, and serves the chunks it has. This directory holds TLA+ models of its
core, the configurations that check them with TLC, and proofs checked by TLAPS.
`PROJECT.json` lists runs, properties, the source lines behind each definition,
the hazards and the theorems.

## 1. The system and its parts

A peer is one process with one thread. `peer_run` (`peer.c:91-213`) loops over

1. one datagram, if there is one: `process_inbound_udp`, `dealwithincomepack`;
2. the user's input, if there is any: `process_user_input`, `process_get`;
3. `check_timeout` on the GETs sent, then `GET_sender`, then perhaps `WhoHas_sender`;
4. the pass over the uploads: send, finish, data timeout, abort;
5. the pass over the downloads: reap, finish, time out.

There is no locking. What makes the system hard is that two or more of these
loops run side by side, with only UDP between them: packets are lost, delayed,
repeated and reordered, peers stop and restart, and timers run on both sides.

| Component | State | Operations | What makes it correct |
|---|---|---|---|
| Sender window (`sock_io.c`) | `LPA` `LPS` `LPR`, `count`, `congwin_size`, `ssthresh`, a counter of ACKs per packet | `create_SW`, `send_onechunk`, `upon_receive_ACK`, `window_sender`, `check_datapack_timeout` | order of the three pointers; sends exactly what the window allows; never idle with nothing in flight; acknowledged means received |
| Receiver (`sock_io.c`) | `NPE`, `recv_buf`, `recv_bytesnum` | `create_Recver`, `upon_receiving_datapack`, `reap` | `NPE` is the first gap; byte count exact; ACKs cumulative; a chunk written is the one asked for |
| Transfer of a chunk | both of the above, packets in the network | their exchange of DATA and ACK | the sender never believes more than the receiver has |
| Download manager (`peer.c`) | `needlist`, `get_tosend_quene`, `get_sent_list`, `downloading_list`, four counters | `fill_toget_list`, `GET_sender`, `init_download`, `finish_one_download`, `check_timeout`, `check_recvdata_timeout`, `reset_mydownload`, `complete_mydownload` | counters exact; one connection per peer; a chunk fetched once; never silent while chunks are missing |
| Upload manager (`peer.c`) | `uploading_list`, `uploaded_list`, `concurr_upload_num` | GET case of `dealwithincomepack`, `init_upload`, `abort_upload`, the upload pass | limit kept; slots given back; one upload per peer |
| Discovery (`peer.c`, `hashlist.c`) | `curr`, a place in `needlist`, within a call | `WhoHas_sender`, `form_WhoHas`, `broadcast`, `IHav_sender`, `form_IHav` | packets of 50 hashes cover the open part of the needlist once; what some peer has is found there, as long as the peer keeps asking |
| Hash lists (`hashlist.c`) | linked nodes | append, delete, move, find, clear | no node lost, shared or leaked; loops reach every node while nodes move and are freed |
| User input (`input_buffer.c`) | a line buffer, `cur` | `process_user_input` | every line handled once and whole, `cur` never wraps |

The remaining parts keep no state of interest: command line and chunk files
(`bt_parse.c`, `chunk.c`), SHA-1 (`sha.c`), the socket wrapper (`spiffy.c`), logging
(`win_log.c`, `debug.c`), the fixed layout of packets (`packet.c`), the separate tools
`make_chunks`, `client`, `server`, and the router `hupsim.pl`, in which the peer is tested.

How they interact. The download manager of one peer broadcasts WHOHAS; an upload
side answers IHAVE; a GET makes it list an upload with a new window; its first DATA
makes the downloader list the download with a new receiver; DATA and ACK follow
until the receiver has counted 524288 bytes and, separately, the window has seen the
last ACK. DATA and ACK carry only a number: both ends match them to a
connection by the peer's address.

## 2. The modules

| Module | Models | Needs |
|---|---|---|
| `SenderWindow` | the window of one upload and the loop that drives it | |
| `Receiver` | the receive buffer of one download and the loop that drives it | |
| `ChunkDelivery` | what a transfer promises, with two counters | |
| `ChunkTransfer` | sender, receiver and network; implements `ChunkDelivery` | `SenderWindow`, `Receiver` (instances) |
| `Downloads` | the download manager, with peers as environment | |
| `Uploads` | the upload manager, with peers as environment | |
| `NodeLists` | linked lists of nodes in a heap: the operations of `hashlist.c` | |
| `PeerLists` | the lists of both managers as nodes, under the loops of `peer_run` | `NodeLists` (extended) |
| `UserInput` | the line buffer | |
| `Discovery` | WHOHAS and IHAVE between one peer and the others | |
| `PeerPair` | two peers, chunk after chunk, with every timer and faults; implements `Downloads` | `SenderWindow`, `Receiver`, `Downloads` (instances) |
| `MC...` | what TLC runs, with one or more `.cfg` | the module they are named for |
| `Requests_proofs` | theorems and proofs of `UserInput` and `Discovery` | these two, whose names differ so that one module may extend both |
| other `..._proofs` | theorems and proofs | the module they are named for |

### SenderWindow

Variables have the names of the fields of `struct _Window`. `phase` is the place of
the loop: `recv` (at most one datagram), `send` (`window_sender`), `check` (finished?
timed out?), and `done` or `aborted` when the upload has left `uploading_list`.

`UponReceiveACK` has one action for each way through `upon_receive_ACK`: an illegal
number, a jump beyond `LPS`, new packets acknowledged in slow start or in congestion
avoidance, the same ACK again with or without a rollback, an older one. A rollback
(`Collapse`) is shared with `check_datapack_timeout`, as the code repeats it.

Abstractions:
- `congwin_size` is a float. The model keeps its integer part `congwin` and whether
  anything is left (`frac`). The only operations are `+1`, `+k`, `/2`, `+k/size` and the
  cut at `TCP_MAXWIN`; only the fourth loses information, and there the model lets
  the fraction carry or not wherever the real sum might. The conversion back to
  `int` in `count` truncates towards zero, also for a negative value.
- The counter of ACKs is kept for packet `LPA` only, and saturates one above the limit
  of three. A counter above `LPA` is 0, one below is never read.
- A timeout may fire whenever its other conditions hold, as time is left out.

Mutual dependencies worth knowing: when the cut at `TCP_MAXWIN` shrinks the window
under a flight that a jump had let grow, `count` is negative; `window_sender` then
sends nothing and the next ACK repairs it. The assertion that is commented out
at `sock_io.c:236` (flight = window after sending) can fail only then, and
`SendFillsWindow` is the form of it that holds.

### Receiver

`recv_buf` maps a number to the chunk its payload was cut from, so that packets of
another chunk, left over from an earlier transfer, are told apart. All packets of a
chunk are full (524288 = 512 x 1024), so `recv_bytesnum` counts packets. `acks` is what
the last step sent. The pass of `peer_run` over one download is `Reap` (complete, the hash
matches or not), `RecvTimeout`, or `KeepReceiving`.

### ChunkTransfer and ChunkDelivery

Two loops, each with its own phase, step in any interleaving. The network is the set of
packets ever sent; receiving does not remove one. That is every loss, delay, repetition and
reordering at once, more than `hupsim.pl` does. The transfer begins when both ends exist,
with an empty network: packets of earlier transfers are studied in `PeerPair`, and in `SenderWindow`
and `Receiver`, where any number may arrive at any time. Packets that find no
connection any more are not received. `Delivers` maps `got` to `NPE - 1` and `confirmed` to `LPA`.

### Downloads

`needlist` is how often each hash occurs in it, as a user's list may name the same content
twice; `length_of_list` is the cardinality of its entries, a hash and which of its occurrences. The three other lists are sets of `[hash, from]`. Their order decides
only which of several possible GETs goes first, and there the model takes any.
`GET_sender` sends one GET at most for each call, though it is written for more: after
`move_node` the loop continues along the moved node's `next`, which is in `get_sent_list`
now, and nothing there passes the test. `filled` stands for a receive buffer: `part`,
or full with a matching (`good`) or another (`bad`) content.

The steps of an iteration are phases, so nothing interleaves inside one. `IHave` takes any
set of hashes, needed or not, from any peer at any time: late and repeated
ones are included. `CheckTimeout` and `DataTimeouts` drop any subset.

### Uploads

`uploaded_list` is a sequence with the newest first, as `append_node` inserts at the
head; `find_node_by_addr` finds the newest entry of a peer. At most one upload
finishes in one pass: only the one whose ACK, or whose GET, came in this iteration can have
become complete. `MaxUploaded` bounds finished uploads, for TLC only.

### NodeLists and PeerLists

A heap has a first node for each list, a `next` for each node and the set of nodes that are
allocated. The operations keep the order of the code's assignments: `Delete` leaves the
`next` of the freed node as it is, `Move` overwrites it, and both would dereference NULL on a
node that is not on a non-empty list (`Crashes`). `PeerLists` lets every loop of `peer_run` take
one step for each node, with `curr` as the loop's pointer, so that a pointer can go stale between
two iterations. In three places the code reads a node after `free`: the timestamp at
`peer.c:205`, and `next` in the headers of both passes (`peer.c:181`, `peer.c:185`). The model takes
what glibc gives for such a small block in the meantime: `next` is not the first field, keeps
its value, and nothing is allocated before it is read. `PassesComplete` holds on that
condition only; its mutant, a freed node whose `next` is cleared, breaks it.

Contents of the nodes are left out, but for the peer of a download, on which the busy tests rest.
`Downloads` takes from here that one call of `GET_sender` sends one GET at most (`OneGetPerPass`).

### UserInput

The buffer byte by byte, as the hazard is in the bytes behind `cur`. `Read` is the `read` of
`process_user_input` with any text of any length; `HandleLine` is one round of its loop. `typed` is
a history of what has not been handled, the reference for every line. The environment is the
constant `MaxFill`: how full a read may leave the buffer. While that is at most half of it, the rest
holds only zeros when a search begins, and all lines are right. A terminal is such an
environment, with lines of at most 4096 characters for a buffer of 8191. A pipe or
a file, as in `tests.txt:17`, is not.

### Discovery

One peer that needs chunks and the others that answer; packets stay in a set and may be
lost, read again or overtaken. An iteration of `peer_run` has two phases here, `recv` (a packet, perhaps)
and `gets`. `BeginRound` has the guards of `peer.c:145-148`: no GET was sent, no GET or
download runs, a slot is free, something is missing. Together they say that nothing is queued, requested
or arriving (`Unoccupied`), which is a theorem about the counters of `Downloads` (`AsksWithNothingListed`).
A consequence: the tests in `form_WhoHas` for hashes already listed skip none when `peer_run` calls it.

`FormWhoHas` and `Broadcast` are the two halves of one turn of
`WhoHas_sender`'s loop; nothing is received between them (`InLoop`), as the code returns to its
loop only at the end of the needlist. A node of `needlist` is its position, also in a
packet: packets keep the order of the list, and a hash that occurs twice is asked for twice.
`RoundAsksAll` says that what a round has asked for, the packet in hand and what lies before it
are always all that is open, one behind the other. `listed` stands for the three lists of chunks found. Their
inner life is `Downloads`; here a chunk that is listed can be moved to another peer that
has it, dropped (`Drop`: a GET or a download timed out), or finished, which takes its first node
out of `needlist`. Neither is promised to happen. Answering is the same code in every
peer and keeps no state.

### PeerPair

Peer A downloads a list of chunks from peer B, one transfer after the other. B's window is
an instance of `SenderWindow`, A's buffer one of `Receiver`; what is added is what
holds them together: GETs, the two lists of connections, all timeouts, and packets that outlive
the transfer they belong to. As there is one peer on each side, a list of connections is one
variable (`asked`, `downloading`, `up`): `OneConnPerPeer` of `Downloads` and `OneUploadPerPeer` of
`Uploads` are proved. Of `uploaded_list` only the first entry is read (`last`).

- *Packets.* Two FIFO channels, as the queues of `hupsim.pl` are (it adds to one end, and takes from
  the other). `DATA` has a number and, for the properties only, the chunk it was
  cut from; `ACK` has a number. `toA` is emptied when A crashes.
- *Time.* Ages in seconds, against the limits of 2, 10 and 16 (`TIMEOUT_SEC` and its multiples).
  `Tick` is one second in which no loop has anything to do and nothing is under way (`Quiet`). `Late` is
  the other case (`tests.txt:89-91` sets delays): what is under way stays there until the next timer expires. The loops may
  then act on the timer first, as `NoPacketAtA` and `NoPacketAtB` do not ask whether a channel is
  empty, or read the packet first. So a timeout races with the packets it waits for.
- *Loops.* The actions are the phases of one iteration of `peer_run`, for A as in `Downloads`, for B as in
  `SenderWindow`. Iterations of the two loops do not overlap, as an iteration reads one packet
  before it sends any and the loops share nothing but the channels. Iterations with nothing to do
  (`DownloadWork`, `UploadWork` are false) are left out.
- *Faults*, within a budget: a packet at the head of a channel is lost, packets are late, B restarts (with an empty
  `uploaded_list`), A stops for good, B cannot read the file of a chunk (`InitUpload` packs nothing), the
  user types GET again. `unread` remembers which chunks the file was missing for: an
  exception of one property needs it.

What the pair does not do, and what the properties therefore suppose. A packet that outlives its connection
passes for one of the next (`vulnerabilities.txt`, item 3), and nothing in the code prevents it. Two things lead there (`Stray`):
A gives a GET or a download up while packets are under way (`LeavesPackets`), or while B
has at most a receive window of it acknowledged and goes on repeating (`NearOrphan`). The second needs no
delay: packet 2 is lost, and its repeats after 3, 6 and 9 seconds; A gives up after 11, its next GET
is ignored since B's upload is still open, and the repeat after 12 opens the download that GET was for.
Then chunks are mixed, B's upload never ends, and A's download neither: `OwnPackets` and `Fetched` are false of
this behaviour. A delay in place of the losses breaks `UploadedIsReceived` too: an old DATA opens the next download and keeps its
slot, the sender's window jumps past it, the hash check fails, and B still lists the chunk as uploaded.
These three properties suppose `[]~Stray`. `UploadsEnd` has the only
way for an upload to stay open in its statement; `peer_pair_orphan` shows that it exists.

`Manages` maps A to `Downloads` with one other peer: the sets hold the one connection, the counters
are what the variables imply (`max_download_num` is 0 once all is written, as `complete_mydownload`
sets it), `filled` is read off the buffer. A chunk has at least two packets, as the code's has 512: with
a single one the DATA that opens a download would also complete it, in one step where `Downloads`
has two.

## 3. The runs

| Run | States | Bounds, and why they are enough | Shows |
|---|---|---|---|
| `sender_window` | 3207 | 24 packets, threshold 2, limit 4, 3 duplicates: slow start, avoidance, the cut, a negative `count`, jumps and several rollbacks all occur | pointer order, exact sends, no stall, safe rollbacks |
| `receiver` | 1683 | 6 packets, window 2: packets inside, outside, at both ends of the buffer, gaps of several packets; two chunks | first gap, exact count, cumulative ACKs, window |
| `chunk_transfer` | 46626 | 10 packets, limit 4, receive window 2, smaller than the congestion window gets, as 30 is below 128 | belief never ahead of truth, finished means received, refinement |
| `downloads` | 20575 | 3 hashes, 3 peers, 2 slots, a hash needed up to twice: a chunk queued behind a busy peer can move, slots run out, several time out together | exact counters, no double use, never silent |
| `uploads` | 17574 | 3 hashes of which 2 are held, 3 peers, 2 slots, 4 finished uploads | one per peer, slots never given back twice |
| `peer_lists` | 165274 | 4 nodes, 2 peers, 3 slots: two or three nodes of one list in each loop, addresses taken again by the other side | sound lists, no crash, one GET for each pass, complete passes |
| `user_input` | 1220 | a buffer of 11 bytes filled to 6, its half; texts of 0 to 6 characters over two letters and the newline: up to six lines in one read, leftovers of each length | the lines handled are the lines typed |
| `discovery` | 8066 | 2 peers, 3 hashes wanted in packets of 2: a full packet and a rest, one chunk nobody has; room for 10 packets at once, more than ever travel | packets cover the open needlist once; while the peer comes to rest again and again, every chunk is found where it is, again after each drop |
| `peer_pair` | 597977 | 2 chunks of 4 packets, receive window 1, window of 2 packets, the real timeouts, 4 faults, one of which may be a second GET, three of them used by a delay: two transfers after one another, each kind of fault alone and together with others, and the four losses that orphan an upload near its start | an upload that stays open is an orphan in the window of another download; without strays chunks are not mixed and everything is fetched; `Downloads` is implemented |

Four packets are the fewest with an upload beyond the receive window of the next download, and four faults the fewest
with which strays mix chunks and keep an upload open for good, in one GET command and with no delay. Without `[]~Stray`
in `OwnPackets`, `UploadedIsReceived` or `Fetched`, or without the second half of `UploadsEnd`, the same run finds a violation of each;
with `[]~NearOrphan` alone, too.

Hashes and peers of `downloads`, and nodes of `peer_lists`, are symmetric: nothing distinguishes
them in the modules, and the properties there are safety properties. `discovery` and `peer_pair` have no symmetry.

Three runs are expected to find a violation. Each checks a sentence of the source:

| Run | Sentence | What the run shows |
|---|---|---|
| `downloads_got_file` | `peer.c:201` "GOT file!" | a chunk with a wrong hash leaves the needlist unwritten |
| `peer_pair_orphan` | `tests.txt:37` "If the receiver has closed the conneciton, the sender can detect it" | after four losses of one packet, in a single GET command, sender and receiver keep each other's connection alive for ever with packet 2 and ACK 0, and no GET is served |
| `user_input_full` | `input_buffer.c:35` "buffer full;  line too long!" | after a read that fills more than half of the buffer, an old newline is found again, `cur` wraps, and the peer exits over a short line |

Deadlock is checked in every run but `user_input_full`, where the peer exits. A transfer that is
over stutters (`Closed`, `BothClosed`, `Over`), as the loop of its peer goes on without it.

Fairness is assumed in `discovery` and `peer_pair`. The loop of `peer_run` never blocks for good, as
`select` has a timeout.

- In `peer_pair` each loop (`ALoop`, `BLoop`) and `Tick` are weakly fair, nothing else: no packet
  is promised to arrive, faults are bounded by the budget. `Fetched` says that all chunks are then
  written, if there are no strays and the user lets the download run (`Undisturbed`). In its one exception the data file
  could not be read: the empty upload counts as finished, and the chunk is refused from then on. `UploadsEnd` supposes
  nothing: an upload ends, or is an orphan in the window of a new download from some time on. `FarOrphanClosed` is the other half of that: an orphaned
  upload beyond the window is closed. `OrphanClosed` drops the difference and fails.
- In `discovery` the loop of the asking peer is weakly fair: it reads no packet if none comes, and asks if it is
  unoccupied. That it ever is, is not assumed of the code, since a connection may be kept alive for ever (`peer_pair_orphan`), and nothing is asked for
  meanwhile: `KeepsFinding` supposes that the peer comes to rest again and again (`[]<>Rests`), and then claims
  that each chunk that some peer has is, again and again, listed at a peer that has it, or no longer needed. Strong fairness is assumed of
  the packets about a hash between the asking peer and one that has it: of those sent again and again,
  one arrives (`AskReaches`, `AnswerReaches`), and one that arrives again and again is read
  (`AnswerIsRead`). Nothing is assumed of peers that do not have the hash, nor that drops of listed
  chunks ever cease.

`NoStall` and `NeverSilent` state, as safety properties, the absence of the two ways to stop that the
code could have.

Seen while modelling, and not made runs of their own:

- The guard `NPE>0` under "never send ACK 0 back" (`sock_io.c:367`) is always true: a packet ahead
  of a missing first one is answered with 0. The sender ignores the number but not the sign of life
  (`peer.c:346`), which is one half of what `peer_pair_orphan` shows.
- A GET for a chunk that the peer does not hold takes an upload slot for good (`peer.c:565`):
  `SlotsCoverUploads` is an inequality for that reason.
- "I will not give the same chunk to the same peer again!!" (`hashlist.h:55`) is more than the code
  does: it compares only the peer's last finished upload (`peer.c:304`). A chunk whose download failed
  could otherwise never be fetched.
- `init_upload` ignores the -1 of `send_onechunk`: with a data file that cannot be opened, `LPA == LPR-1`
  holds at once and the upload counts as finished (`peer.c:165`). It is the exception in `Fetched`.
- `fill_toget_list` compares only the ports of two addresses (`peer.c:435`), which tells peers
  apart on one machine, as the models assume.

## 4. The proofs

Each theorem holds for every value of the constants under the module's ASSUME
(numbers positive, more than one packet to a chunk in `PeerPair`, `None` not a chunk).

- `SenderWindow_proofs`: `TypeCorrect`, `WindowOrdered`, `NeverStalls`, `SendsFillWindow`,
  `RollbacksKeepAcked`. `WindowOrder` alone is not inductive and `NoStall` says nothing of the phases
  before `check`. The invariant `IInv` adds three facts: a positive `count` is exactly the
  room left in the congestion window (`CountIsRoom`); with nothing in flight and something left to
  send, `count` is the whole window when sending begins (`OpenWhenIdle`); the loop does not return
  to `recv` with a finished window (`BusyInRecv`).
- `Receiver_proofs`: `TypeCorrect`, `NextIsGap`, `BytesExact`, `AcksAreCumulative`. The
  invariant adds `AcksBelowNPE`: what was acknowledged lies below `NPE`, from which the
  cumulative meaning follows.
- `Uploads_proofs`: `TypeCorrect`, `OneForEachPeer`, `SlotsSuffice`. The invariant adds that `uploading_list`
  is finite (`ListFinite`), without which its cardinality says nothing; a pass that finishes and
  aborts any uploads then gives back as many slots as the list loses.
- `Downloads_proofs`: `SlotsAreExact`, `OneForEachPeer`, `HashesListedOnce`, `ListedAreNeeded`, `LimitIsKept`
  (the limit of the option `-m` holds for the counter), `TypeCorrect`, `FoundIsExact` and `NeverIsSilent`.
  They are inductive only together:
  `complete_mydownload` drops the lists without touching the counter, which is right because
  they are empty then, and they are because every listed chunk is needed; a finished chunk leaves no
  other entry without its need because it was listed once. The counting steps rest on lemmas about the
  cardinality of a finite set that gains one element or loses a part. `howmany_found` (`FoundExact`) is
  carried by the same lists: a finished chunk leaves `Listed` and takes one entry from the needlist.
  `NeverSilent` is an action property and rests on it: with nothing under way, what is found is what
  is queued or finished, a queued chunk would have been asked for, so something missing makes
  `howmany_found < howmany_need`, and the peer asks. `AsksWithNothingListed` turns that around: when no GET was sent, the peer asks just if
  nothing is listed and something needed, which is the guard `Discovery` begins a round with.
- `ChunkTransfer_proofs`, first part: `SenderNeverAhead` (`AckSound`) and `ImplementsDelivery` (`Delivers`). The
  invariant says that the sender's pointers are ordered, that every ACK in the network lies below
  `NPE` and `NPE` never falls, hence so does `LPA`, which only ever takes such numbers.
  Every step is then a step of `ChunkDelivery` or a stutter.
- `ChunkTransfer_proofs`, second part: each side of a transfer is a run of its own module (`SenderIsWindow`:
  `Spec => S!Spec`, `ReceiverIsReceiver`: `Spec => R!Spec`), whatever the network does. The invariant `Parts`
  joins the inductive invariants of both modules with what each assumes of the other: only numbers
  of the chunk travel. `TypeCorrect` follows, and `DoneIsReceived` (`DoneMeansReceived`), which takes a fact of each side:
  a finished window has every packet acknowledged, what is acknowledged lies below `NPE`, and nothing below `NPE` is empty.
- `Requests_proofs`, first part: `LinesAsTyped` and `InputTypeCorrect`, for every buffer with `2 * MaxFill <= Size + 1` (`HalfFull`;
  8191 bytes and a terminal's 4096 satisfy it). The invariant is about bytes that no variable counts: all of them
  from `cur` on are 0. `memmove` leaves the last bytes as they are, and these were never written.
- `Requests_proofs`, second part: `RoundsAskForAll` (`RoundAsksAll`), `DiscoveryTypeCorrect` and `ListedWhereHeld`, for every needlist and
  packet size. The invariant says that what is asked for or in hand is what is open before `curr`. That a
  packet never has too many hashes is a fact about the place where `form_WhoHas` stops, the first at which the
  packet is full: the count of hashes copied grows by one at a time, so it equals the size of a packet before it
  exceeds it (`CountMeets`). `ListedWhereHeld`: a chunk is only listed for a peer that has it, and only if it is needed; it rests on
  what is in the network, as an answer names what its peer has, however late it is read (`AnswersHeld`).
- `PeerLists_proofs`: `ListsStaySound`, `NeverCrashes`, `OneGetOnly`, `PassesReachAll`, `TypeCorrect`, for any number of nodes, peers and
  connections. `NodeLists` follows `next` by a recursive function; what it computes after a pointer is
  written cannot be had by the library's induction, but by the least element of a set of numbers. `Shape` says what a sound list is
  without recursion: a set of nodes that `next` does not leave, along which a rank grows, in which each node but the first
  has exactly one before it. A walk over such a set repeats no node and reaches all of it, or there would be a lowest node it
  missed. One lemma for each operation of `hashlist.c` gives the sets and ranks afterwards (`PutNew`, `TakeOff`, `MoveOver`, `ClearOne`).
  The invariant adds where the loops stand. `Passing`: what a pass has not reached lies behind the `next` of the node it
  stands on, even if that node has just been moved or freed. `Picks`: once `pick_tosend_GET` has moved a node, its walk is
  in `get_sent_list`, where every peer is busy.
- `PeerPair_proofs`: `TypeCorrect`, `EndsStaySound`, `RefinesManager`, for any number of chunks, packets of a chunk, faults and GET commands and any
  lengths of the timeouts. The inductive invariants of `SenderWindow` and `Receiver` are taken over by instance
  and hold at both ends through every transfer, although packets of earlier ones arrive and either side goes away; joined to them are
  what travels in the channels and which chunk is queued, asked for, arriving or written (`Lists`). `RefinesManager` (`Manages`)
  goes through the actions: each step of A is one of `Downloads` under the mapping, what B, the network and the clock do is a
  stutter. So what `Downloads_proofs` says of the manager is true of the pair.

- `PeerPair_proofs`, second part: that chunks do not mix. `ChunksStayApart` (`OwnPackets`), `UploadsAreReceived`
  (`UploadedIsReceived`) and `AnswersOwnUpload` (every ACK is for a packet of B's present or last upload, and of the chunk A downloads)
  hold for any number of chunks, packets and faults, delays among them, under two hypotheses.
  `LongChunks`: a chunk has more packets than can be in flight and in the receive window together, and the window limit exceeds the
  threshold; the code has 512 > 30 + 128 and 128 > 64. And `[]~Stray`, which is part of the properties: A never gives up a GET or a download
  with packets under way, nor stops listening to B while B has some packets of the upload acknowledged, but no more than the
  receive window. That channels keep their order is an assumption of the model: a packet that overtakes others is not covered.
  So losses, refused GETs, late and repeated packets, restarts and unreadable files, in any number, mix no chunks; a download given up
  in its first 30 packets, or with packets under way, can.

  The invariant (`Apart`) has two halves. `Sending` says how much B has in flight: at most `Flight`, twice the largest threshold
  (slow start ends there and a rollback halves), and nothing new before the first packet is acknowledged, as B repeats
  none then. `Peers` says how the two stand to each other. `Joined`: B's upload is the one A waits for; what is on its way to A is
  first some stale packets, refused by a buffer that is still empty, and then packets of the upload itself, none of which is `Flight` or more
  ahead of a later one or of a packet still to come; so when the chunk is complete, what is left of it on the way is near its end. `Detached`: A's buffer is empty, and all that is on its way or will be sent
  is beyond the window of an empty buffer, until A's GET opens the next upload. `Dead`: A has stopped. From `Joined`
  to `Detached` A passes when a chunk is complete, and then B is at most `Flight` packets from its end (here `LongChunks` is
  used), or when it gives up, and then B is past the receive window (here `~NearOrphan` is) or has sent one packet that nobody
  acknowledged, and nothing is under way (here `~LeavesPackets` is). `Calm` joins the phases of the two loops.

  `Apart` was model-checked before it was proved, on instances that satisfy `LongChunks` (for one, 6 packets, windows of 3 and 1, 2
  chunks, 4 faults). The constants of `peer_pair` do not satisfy it: they are the smallest in which every kind of fault happens, and
  half of a chunk fits into their congestion window.

Only model-checked, and why:

- `OwnPackets` and `UploadedIsReceived` of `PeerPair` on chunks that are not long (`LongChunks`). For more than one GET command they are not claimed at all.
- Liveness (`UploadsEnd`, `Fetched`, `FarOrphanClosed` of `PeerPair`, `KeepsFinding` of `Discovery`) rests on fairness, and so on ENABLED, which the prover
  does not treat.
- The three expected violations.

## 5. Not modelled

Not at all: the layout of packets (packed and
unpacked in one step on both sides; a packet is its type, number and hashes here), SHA-1 (an
equality test), option and file parsing (start-up, sequential), the socket wrapper and
logging (pure I/O), the tools, which the peer does not use, and the router, a test tool that does
less to packets than the networks of `ChunkTransfer` and `Discovery`.

In part: the main loop. A peer that uploads and downloads at the same time is not composed: its two
sides share the loop, but no variable, and their lists are walked together in `PeerLists`. `PeerPair` leaves
out lost WHOHAS and IHAVE packets, which are in `Discovery`, and a second source for a chunk, which is in `Downloads`.

Timers are nondeterministic everywhere but in `PeerPair`. That keeps the safety properties sound,
and `PeerPair` is what says whether something happens in the end.

## 6. Plan

1. Done: all modules of section 2, their runs, and the proofs of section 4.
2. Open: `PeerLists` as a refinement of the sets of `Downloads` and `Uploads`. Its nodes would have to carry hashes.
3. Open: the uploading side of `PeerPair` against `Uploads`. It is not a refinement as it stands: `RestartB` empties `uploaded_list`, which
   `Uploads` never does, and `PeerPair` keeps only the entry of that list that is read.
