# MocksySQL in TLA+

MocksySQL is a proxy for the MySQL client/server protocol. A worker thread per
client decodes the packets that go by, tracks the state of the protocol, can answer
writes itself, records what UPDATEs would have changed, and drops or rewrites the rows
of later answers accordingly. These modules model that logic. TLC checks them on small
instances, and TLAPS proves what matters most of them for every instance: the
reassembly of packets, where a reply ends and how its packets are numbered, the shared
difference log and its counter, the log of answers that are replayed, the conversions of
numbers and texts, and the rows as the recorded UPDATEs rewrite them.
Paths below are relative to the repository (`src/...` is its source directory).

## 1. The system

### Components

| Component | Source | State | Operations | Correct if |
|---|---|---|---|---|
| frame reassembly | `src/state_handler.rs`, `src/mysql/packet.rs`, `src/connection.rs` | `partial_bytes` | `make_packets`, `parse_buffer`, `verify_packet_order` | packets come out whole, in order, once, however TCP cuts the stream; no panic on a well-numbered stream |
| worker loops and phases | `src/connection_handler.rs`, `src/state_handler.rs` | `phase`, which side is read | `exchange`, `process_incoming_frame`, `switch_to_tls` | the worker stays in step with both ends: never waits for a side that waits for it, never gives one reply for another, ends when an end goes away |
| authentication accumulators | `src/mysql/accumulator/handshake*.rs`, `auth_*.rs` | `handshake_response` (flags) | `consume` of each | each lets the next speaker speak |
| command accumulator | `src/mysql/accumulator/command.rs`, `src/mysql/command.rs` | `last_command` | `consume` | remembers the command the reply is for, starts a fresh response |
| response accumulator | `src/mysql/accumulator/result_set.rs` | `query_response` | `consume` and its states | a reply ends with its last packet and at no other; skipped rows leave no gap |
| write interception | `src/connection_handler.rs` | `GLOBAL_COUNTER` (all workers) | `intercept_command`, `is_write_query`, `get_write_response` | writes never reach the server and are answered once; ids distinct within a round |
| difference log | `src/materialization/mod.rs`, `src/util/cache.rs` | `DashMap` of `TtlCache` (all workers) | `get_diff`, `update_diff_log`, expiry | nothing recorded is lost, order is kept |
| row override, WHERE | `src/materialization/evaluator.rs`, `result_set.rs` | none of its own | `Parse::evaluate`, `parse_row`, `override_row` | a row shows what a server would hold after the updates |
| replay over Kafka | `src/connection_handler.rs`, `src/main.rs` | replay map (all workers), `partial_replay_bytes`, log buffer | log, look up, wait, resume | nothing is missing from the log; what is replayed is one whole answer |
| wire types | `src/mysql/types.rs` | none | encode and decode numbers and texts | what is written is read back |
| listener | `src/main.rs` | - | one thread per connection | - |
| TLS set-up, delays, printing | `src/tls/mod.rs`, `src/util/packet_printer.rs`, ... | - | pure, or only sleep or log | - |

A worker owns its `Connection`; workers share the difference log, the write counter and
(with the feature `replay`) the replay map and the Kafka producer. Within a worker all
is sequential: read one side, reassemble, let the accumulator of the phase consume each
packet, write the other side, look at the phase to decide whom to read next.

### What is hard here

- **TCP**: reads cut packets anywhere and join them (`ForwardsWholePackets`,
  `CompletePacketsForwarded`).
- **Half-duplex loops over a full-duplex connection**: one missing phase in
  `SERVER_TRANSITION_PHASES`, one reply ended a packet early or late, and three parties
  wait for each other or answers shift by one (`NoMutualWait`, `InSync`, `AnswersMatch`).
- **Guessing types**: a packet's type follows from its first byte and its length
  (`EndsWithLastPacket`, `ReplyEnds`).
- **8-bit numbers**: sequence numbers roll over in the middle of replies and frames, rows
  are skipped in between, write ids wrap (`NoGapInResultSet`, `NoPanicOnWellFormed`,
  `ValuesDistinct`).
- **Shared maps**: three separate accesses for one difference (`NoDiffLost`,
  `EntryExists`).
- **A log that others replay**: answers are cut by reads, kept back, published without
  acknowledgement, lost, reordered, replaced and expired while another worker hands them
  out in chunks (`LogCoversAnswer`, `LogComplete`, `AnswerIsOneReply`,
  `ReplayedQuerySettled`).
- **Rows rewritten in flight**: differences change from one row to the next, the last one
  that matches wins, the query's WHERE is judged anew, and lengths change their form
  (`RowsFollowTable`, `FieldsAsAnnounced`).
- **Ends that go away**: idle sessions dropped by the server, clients that vanish
  (`WorkerFollowsClient`, `EveryCommandSettled`).
- **Panics**: a release build aborts the process, and with it all sessions
  (`WorkerNeverPanics`, `WholeEntriesNeverPanic`, `PanicsOnlyIfUnsupported`).

`PROJECT.json` lists these hazards at their lines with the properties aimed at each, or
the reason there is none.

## 2. The modules

| Module | What it is |
|---|---|
| `PacketStream` | abstract: packets of a stream come out whole, in order, once |
| `Framing` | the reassembly of one direction of a connection, byte by byte |
| `FramingProofs` | theorems about `Framing` |
| `MySqlWire` | packets as the decoders tell them apart, `get_packet_type`, the replies of a server |
| `ResultSet` | `ResponseAccumulator::consume` as operators (no state of its own) |
| `ResponseFlow` | one reply going through the accumulator, packet by packet |
| `ResultSetProofs` | lemmas about the operators of `ResultSet`, used by the proofs about all who use them |
| `ResponseProofs` | theorems about `ResponseFlow` |
| `QueryProxy` | abstract: a session through the proxy as its two ends see it |
| `Exchange` | a worker between a client and a server; extends `ResultSet` |
| `ExchangeProofs` | the types of a session: variables, packets, queues |
| `SessionProofs` | theorems about orderly sessions of `Exchange`, and its refinement of `QueryProxy` |
| `DiffStore` | abstract: a store of differences that keeps what it is given, in order |
| `Interception` | the workers that intercept writes, and what they share: the difference log and the counter of write ids |
| `InterceptionProofs` | theorems about `Interception` |
| `WireTypes` | `IntLenEnc` and `StringLenEnc` on bytes (no state) |
| `Evaluator` | `Parse::evaluate` on a row (no state) |
| `TableRows` | reference: what an SQL server makes of the same WHERE and updates |
| `RowOverride` | a query's rows rewritten by differences that others record; extends `TableRows`, `WireTypes` |
| `RowOverrideProofs` | theorems about `WireTypes`, `Evaluator` and `RowOverride` |
| `Replay` | workers that log answers and workers that replay them; extends `ResultSet` |
| `ReplayProofs` | theorems about `Replay` |
| `MC...` | the small instances of the modules |

Operators introduced by "A faulty form of" are plausible bugs in the definition that
follows them. They are used by no specification; putting one in the place of the
definition must make TLC find a property violated, and `PROJECT.json` ("mutants") says
which.

**Framing.** A byte is its position in the stream, a packet its index. A stream says
where its packets end and what sequence number each header carries. `ReadFrame` is one
pass of the loop in `exchange` up to `make_packets`: it reads between 1 and `BufSize`
bytes, and `IsBatch` says which packets `parse_buffer` finds whole in `partial_bytes`
followed by them. `PartialAfter` is what `set_partial_data`/`unset_partial_data` leave.
`BatchPanics` has the panic of `verify_packet_order` and the read of `body[0]` in
`get_packet_type`. The peer (`PeerSend`, `PeerClose`) sends pieces of any size and may
stop inside a packet.

**ResultSet** and **ResponseFlow.** A packet is its first byte, the length class that
`get_packet_type` looks at, its sequence number, the count it announces, and its role in
the reply (what a decoder that would parse its body would find). Each state of the Rust
`State` has an operator; where `consume` calls itself after a change of state, the
operator of the new state is applied to the same packet. `Filters` stands for
`override_row`: on a table with differences a row may be skipped or not, whatever its
content. The byte a prepare's answer carries as `metadata_follows` is a field of the packet
(`metadata`). `OverflowChecks` tells the dev profile, where `-=` panics, from the release
profile, where it wraps.

**Exchange.** `side` is the loop the worker is in and `pc` where in it: `read`,
`process` (the packets in `frame` go through `process_incoming_frame` one by one, one
action per accumulator), `write`. The four channels hold whole packets, and a read takes
any number of those that have arrived (`Framing` is about what is below that). The
client follows MySQL's connection phase and then asks one command at a time;
`COM_STMT_CLOSE`, `COM_STMT_SEND_LONG_DATA` and `COM_QUIT` it does not wait for. The server
runs any of the authentication flows in `AuthFlows` and answers each command with any of
its `Replies`. A packet in a phase without an accumulator (`Untracked`) is the panic of
`get_accumulator`.
Either may go away; `write_bytes` ignores errors, so writes to a closed end vanish.
The client's TLS handshake is one message `hello`; if a read of the MySQL loop takes it,
it ends up in `partial`, as `make_packets` would keep it. The delay of
`delay_if_required` is a pause any interleaving allows. Rows are not skipped here
(`ResponseFlow` is about that). A command is `[com, prefix, writes]`: its kind, whether
its text starts with `insert`, `update` or `delete`, whether it is a write.

**Interception.** `present` and `log` are the map: which tables have an entry, and what
is in it. A difference is a number, in the order of recording. `GetDiff` takes a
command of any statements: UPDATEs to record, UPDATEs `process_assignments` does not
support (`ScanEnds` stops there, as `get_diff` does), and others. `CheckTable`,
`CreateTable` and `RecordDiff` are the three accesses of `update_diff_log` to the shared
map, each of which locks it for itself, so that other workers come between. All
differences live equally long, so `Expire` drops the oldest. `Respond` is
`get_write_response`, whose `fetch_add` is one step; `PassOn` leaves the command to the
server. `ids`, `recorded` and `expired` are histories for the properties.

**WireTypes.** Bytes are numbers, a text is the sequence of its characters' code points.
Encoding and decoding are what the code does, so decoding a text makes a character of
each byte, and encoding writes characters as UTF-8.

**Evaluator, TableRows and RowOverride.** A row maps column names to NULL or a text, an
expression is the sequence of its nodes, each behind its operands and naming them by their
places, so that `Evaluate`, which mirrors `evaluator.rs` with its errors and panics, is a
recursive function of the place (`NodeValue` is one call of `Parse::evaluate`, and what
`EvaluateConjunction` does not evaluate it does not look at).
`TableRows` is written independently of it, with SQL's three truth values; columns hold
texts, which compare by their characters. `RowOverride`
sends each row as bytes through `Fields` and `ParseRow` (`parse_row`), `Applied`,
`Rewritten`, `Body` and `Skips` (`override_row`), unless it passes for an OK packet
(`TakenForOk`): then it goes on as it came and ends the reply. Meanwhile `RecordUpdate` and
`ExpireOldest` change the differences between any two rows; the entry of the table stays
when all of them have expired, and rows then go through the same conversions. While a row
is handled the entry is locked (`diff.get_mut`), hence the guard `shown = <<>>`. What the
three accesses of a recording allow in between is in `Interception`. The server sends
only rows its WHERE held on (`ServerSends`), which is what makes skipping a row a matter
of the updates.

**Replay.** A packet travels as two pieces, so that a read can cut it, and a piece says
which reply it is of, so that a mixture of two is seen. `Ask` is the client loop: the
command goes to the server, which answers, unless `SendCommandToServer` keeps it back.
`ReadServer` and `ServeChunk` are the two sources of the server loop, and `HandleFrame`
the rest of its pass: whole packets through the accumulator of `ResultSet`, to the client,
and to the log (`Push`). `rest` is `partial_replay_bytes`, `buffer` is
`kafka_log_buffer`. Publishing may lose the entry (`RequiredAcks::None`), and
`ReceiveEntry` takes the entries in any order: they have no Kafka key and may lie in
different partitions. `ExpireEntry` drops an entry at any time. Clients may leave in the
middle (`ClientCloses`), which only the client loop notices. The server does not leave
here (`Exchange` has that), and no row is skipped. A worker that finds no entry waits: no
action is enabled for it until one arrives. A packet behind the end of a reply is a panic in
`After`, as it is for `CommandAccumulator` unless the packet looks like a command. None
occurs: a frame ends where a read or an entry does, and so does a reply, also one whose
entry is cut off between two packets.

## 3. The runs

The passing runs take from a few seconds to about two minutes (`Replay`) with 2 workers.

| Run | Bounds | Shows |
|---|---|---|
| `Framing` | all streams of up to 3 packets, bodies of 0..2 bytes, headers of 2, reads of 1..5 bytes, numbers modulo 3 | `TypeOK`, `ForwardsWholePackets`, `NoPanicOnWellFormed`, `CompletePacketsForwarded`; implements `PacketStream` |
| `Response` | queries, COM_FIELD_LIST, COM_PING, COM_STMT_RESET, prepare and execute; 1..2 columns and parameters, up to 5 rows of 3 shapes (text) or 1 (binary), text rows each skipped or not; numbers modulo 7 | no reply ends before its last packet, every one that can be followed ends there, only skipped rows are missing, and there is no gap |
| `ResponseEmptyFirst` | two columns, rows that start with an empty string | **violates** `EndsWithLastPacket` |
| `ExchangeIntercept` | 3 commands out of 4 kinds, 5 authentication flows, TLS or not, a server that may drop the session | in step with both ends, no mutual wait, no panic, answers match commands, writes stay local, every command settled, the worker ends with its client; implements `QueryProxy` |
| `ExchangePipelined` | 3 commands out of 3 kinds, one of them unanswered; writes forwarded | in step, every command settled; implements `QueryProxy` |
| `ExchangeTls` | a client that starts TLS at once | **violates** `TlsBytesReachTls` |
| `Replay` | one logging and one replaying worker, a replayed SELECT (3 packets) and a forwarded one (1 packet), 2 replies of the server, reads and chunks of up to 3 pieces, answers of up to 8 pieces | nothing is missing from the log, an answer is one reply, no worker dies of a whole entry, none waits for a server it has not asked, what can be replayed is, workers end with their clients |
| `ReplayCut` | the same, with the SELECT only | **violates** `PublishesFullResponses` |
| `RowOverride` | up to 2 updates out of 8 kinds, 4 lists of columns, 5 WHEREs; NULL, the empty text, two short ones, one of 251 bytes, one that is not ASCII | rows follow the table within the premise, panics are for unsupported expressions only, rows keep their fields |
| `RowNumbers` | updates that set a column to a number | **violates** `UpdatedValuesShown` |
| `Interception` | 2 workers, 2 tables of which one is new and has one creator, 2 differences, commands of 0..2 statements, 3 writes, a counter of 3 values | order kept, nothing lost, no missing entry, values distinct within a round; implements `DiffStore` |
| `InterceptionRace` | 2 workers make the first update of a table | **violates** `NoDiffLost` |

**Why the bounds are enough.** In `Framing` a read and the rest kept may hold two whole
packets and part of a third, a header may be split, and numbers roll over inside a frame;
the theorems have no bounds at all. In `Response` numbers roll over within a reply, at
every position relative to the skipped rows, and a binary row may come behind the
rollover. In `Exchange` three commands give
every pair of consecutive replies, and a third command to notice that they were shifted.
`ExchangePipelined` lets the worker panic: a frame that joins an unanswered command and
the next one panics in `verify_packet_order`, and the properties hold regardless. Two
differences are enough for one to be lost, and for two to be out of order; the counter
wraps within the run. In `Replay` a chunk ends inside the second of three packets, so that
a rest, an incomplete packet and a change of the entry fall together; two replies to one
command are enough to mix them up; `MaxAnswer` stops a worker that is served a cut entry
again and again, and no whole reply is as long. In `RowOverride` two updates give every
order of matching and not matching, and the texts lie on both sides of the one-byte
length.

**What the premises exclude.** `NoPanicOnWellFormed` is about streams numbered as one
reply with no empty body: an empty body panics (`get_packet_type` reads `body[0]`), and
joined commands do. `EndsWithLastPacket` leaves out binary result sets in which numbers
recur: each of their rows starts as an OK packet does, and `process_binary_result_set`
takes the one numbered 1 for the end. `ReplyEnds` leaves out the replies to prepared statements
that the accumulator cannot follow: the repository's README calls prepared statements
unsupported. `WorkerNeverPanics` is about the authentication flows the accumulators
foresee, and a client that waits. The properties of replayed answers hold while every
entry is a whole reply (`PublishesFullResponses`), which run `ReplayCut` shows not to be
certain. `Simple`, the premise of `RowsFollowTable`, is the list of what the code
does not do: rows that pass for an OK packet (they are not rewritten), columns of one name,
columns of several tables, texts other than ASCII (encoded twice), numbers (stored as NULL),
quoted tables (never found), updates that build on earlier ones (only the last match is
applied), `=` of two NULLs and `<>` with one (unknown in SQL), numbers put in order (the
evaluator orders texts), and expressions that are not conditions over selected columns.

**Deadlock** is not checked where the system may stop for good (all but `ResponseFlow`,
which has an explicit `Settled` step): a client that asks nothing more, a finished
stream, a bound reached.

**Fairness.** `Framing`: weak fairness of the worker, a thread that only blocks in
`read()`; none of the peer. `ResponseFlow`: of the consumption of packets already read.
`Replay`: of each worker, which goes on with what it can read or look up, and of the
consumer thread, which polls for ever; none of clients, of expiry, or of the broker's
keeping an entry. `Exchange`: of the worker; of the server handling what it receives and noticing that the
proxy is gone; of the client's authentication and its taking replies. Nothing makes the
client ask, or either end close, and the server need not drop a session.
`WorkerFollowsClient` therefore rests on the server answering what was under way and on
nothing else.

## 4. Disagreements found

Each violation run checks what a comment, an assertion or the README of the repository
says against what the code does; `PROJECT.json` ("findings") quotes the line.

1. A row of 7 bytes or more whose first column is the empty string counts as an OK packet
   and ends the reply.
2. TLS bytes read together with the request for TLS are lost to rustls.
3. Two first updates of a table race, and one difference is lost.
4. A reply that arrives in several reads is published as several entries of one key.
5. `SET b = 5` stores NULL.

Known besides, without a run of their own (see the hazards): `verify_packet_order` panics
on the joined commands of a client that does not wait; an error after skipped rows is not
renumbered; `EofData::from_packet` does not accept the EOF packet of a client without
DEPRECATE_EOF; a binary result set ends at the row behind the rollover; the subtraction of `skipped_packets` panics after a rollover in dev builds
(`OverflowChecks`); ids wrap at 255; a write behind white space or a comment goes upstream
in spite of `INTERCEPT_WRITES` while its difference is recorded; `insert` followed by a
line break gets no `last_insert_id`; and what `Simple` lists.

## 5. What is proved

A theorem holds for every value of the constants that meets the assumptions of its
module, which TLC evaluates on each run. Every theorem below of a safety property rests
on an inductive invariant that is named with it.

**`FramingProofs`**, for every set of streams and every header size, buffer size and
modulus (`SizesAssumption` and `StreamsAssumption` only say that the sizes are positive
and the streams well laid out):

- `TypeCorrect`: `Spec => []TypeOK`;
- `WholePackets`: `Spec => []ForwardsWholePackets`;
- `NoSpuriousPanic`: `Spec => []NoPanicOnWellFormed`;
- `Refinement`: `Spec => ImplementsPacketStream`.

The inductive invariant `IInv` is `TypeOK` together with both safety properties. None is
inductive alone: `parse_buffer` finds the right packets only because the buffer starts
where the last forwarded packet ends, which `ForwardsWholePackets` says
(`stream.end[k] + partial = read`). Lemma `BatchAligned` draws the conclusion: a batch
read there begins with the next packet, and what is kept is what follows its last one.
From it each action preserves each conjunct; a well-formed stream cannot panic because
the consecutive numbers of the whole stream are consecutive in every frame. For the
refinement, `ReadFrame` maps to `Deliver`, or to `Stop` when it panics, `ReadEnd` to
`Stop`, and the peer's actions to stuttering.

**`ResponseProofs`**: `NumbersHaveNoGap` (`Spec => []NoGapInResultSet`), for every
command, number of columns, row, and choice of the rows to skip, both builds and both
capabilities. The premise `RowsAreSound` says that no row of a text result set passes for
an OK packet or an error; run `ResponseEmptyFirst` has such a row. `ConsumeStep` says
what any packet does to the count of skipped rows: it is renumbered by it, or nothing
has been skipped, or its type alone ends the reply. The inductive invariant `FlowInv`
adds that rows are skipped only in the state whose packets are all renumbered, and that
forwarded and skipped packets together are those consumed; `WrapsAlike` is the
arithmetic, that subtracting before or after the wrap is the same.

`EndsAtLastPacket` (`Spec => []EndsWithLastPacket`), for clients with
DEPRECATE_EOF and without OPTIONAL_RESULTSET_METADATA, as in run `Response`, and rows
that look like rows (`RowsLookLikeRows`). `RepliesHaveShape` says what the packets before
the last one are, and the inductive invariant `EndInv` where the accumulator is while
packets are to come. A packet of no special type ends no text result set
(`ConsumeOpen`); a binary one cannot end while each number comes once (`BinaryOpen`); the
answer to a prepare ends when the counts it announced are used up, which needs the exact
count in each state (`Progress`).

`OnlyRowsAreMissing` (`Spec => []OnlySkippedRowsMissing`) and `TypeCorrect`
(`Spec => []TypeOK`), under the same two premises. The inductive invariant `SkipInv` says
that the count of skipped rows is the number of those hidden, that none but a row is, and
that every other packet consumed lies in front of the client, as many places further up
as rows were hidden before it (`Passed`). A row is skipped only where the accumulator
expects one, which `Place` ties to the number of packets consumed: in `HydrateColumns` as
many columns have gone by as packets after the count. `PlaceStep` is one packet of it;
`HiddenBefore` counts a set, and adding the packet at hand adds nothing to the counts of
those before it.

**`ExchangeProofs`**: `TypeCorrect` (`Spec => []TypeOK`), for every set of commands and
rows and all bounds. `TypeInv` adds what is in the queues: packets whose bytes agree with
their role (`Kind`), each with the command it belongs to; and that the accumulator is one
and has skipped nothing. `ExchangeAssumption` only gives the constants their types.

**`SessionProofs`** is about orderly sessions: `Orderly` says that the replies are those
the accumulator follows to their end (DEPRECATE_EOF, no OPTIONAL_RESULTSET_METADATA, rows
that look like rows) and that the client sends no command of a prepared statement. How
far the code is from serving the others is what the runs `ResponseEmptyFirst` and
`ExchangePipelined` are about. Run `ExchangeIntercept` is an instance of it. For any number
of commands and rows, any authentication flow, with TLS or without, with interception or
without, and whichever end closes when:

- `StaysInSync`: `Spec => []InSync`;
- `AnswersTheAsked`: `Spec => []AnswersMatch`;
- `NeverBothWait`: `Spec => []NoMutualWait`;
- `NeverPanics`: `Spec => []WorkerNeverPanics`;
- `WritesAreKept`: `Spec => []WritesStayLocal`, if a write's text starts as
  `is_write_query` expects (`WritesArePrefixed`);
- `SessionRefines`: `Spec => ImplementsQueryProxy`.

The inductive invariant `SessionInv` lists the situations a session goes through: 21 until
the client is let in (`Connecting`), eight per command (`Conversing`), and the end. Each
says where the worker is, what the client and the server are doing, and what every queue
holds. That is what makes it inductive: the worker may take the last packet of a reply for
the last one only because `Remaining` says that what is left of the frame and of the queue,
together, is what the accumulator expects in its present state (`Expects`); a read that
cuts a reply anywhere changes neither (`RemainingAlike`), a packet consumed takes it one
state further (`Follows`). `PassedTo` and `Answerable` carry the order of the commands from
the client to the server, as `QueryProxy` wants it. `Books` is what holds in all situations:
the types in a frame, the flags, what the client is owed, and that nothing kept was
executed. There is a lemma per action, and `Situations` tells which situations an action's
guard leaves. In the refinement `ClientAsks` maps to `Ask`, `ServerExecutes` to `Execute`,
`ClientReceives` to `Answer` on a last packet, a server that closes to `End`, and all else to
stuttering.

**`InterceptionProofs`**, for every number of workers, tables and commands and every width
of the counter:

- `TypeCorrect`: `Spec => []TypeOK`;
- `EntryFound`: `Spec => []EntryExists`, a table has an entry while a worker records in it,
  for entries are created and replaced but never removed;
- `RecordingOrder`: `Spec => []InRecordingOrder`, inductive with `TypeOK`;
- `DistinctValues`: `Spec => []ValuesDistinct`, from `InRound`: values taken within one
  round of the counter differ by the number of writes between them;
- `NothingLost`: `Spec => []NoDiffLost`, and
- `Refinement`: `Spec => ImplementsDiffStore`, both assuming `OneCreatorPerTable`: of each
  table without an entry at most one worker records a difference. The invariant
  `CreatesNew` then says that a worker about to create an entry finds none. That the
  assumption is needed is what run `InterceptionRace` shows.

**`ReplayProofs`**, for every number of workers, commands and replies and every buffer
size, has two parts. The first leaves the accumulator's verdict open, any phase may follow
any packet:

- `FlowTypeCorrect`: replies, log, map and what a worker holds keep their types;
- `NothingMissing`: `Spec /\ []LogComplete => []LogCoversAnswer`. The inductive invariant is
  `LogCoversAnswer` with `AskedIfListening`; that the end of an answer is recognised where
  it is, is a premise.

The second discharges that premise, for replies the accumulator follows. `RegularReplies`
says that clients have DEPRECATE_EOF, that the accumulator goes through each reply without
a panic and ends at its last packet (`Traces`), and that commands of one text are of one
kind. TLC evaluates it for the replies of run `Replay`, and that every reply to a query,
a field list or a ping with up to two columns and two rows is `Regular` (`AnswersAreRegular`
in `MCReplay`). A prepare the server refuses is not: the worker panics on its ERR, as
`ResponseFlow` shows. Under this premise:

- `TypeCorrect`: `Spec => []TypeOK`;
- `LogCovers`: `Spec => []LogCoversAnswer`;
- `LogIsComplete`: `Spec => []LogComplete`;
- `NeverPanicsOfWholeEntries`: `Spec => []WholeEntriesNeverPanic`;
- `NeverWaitsInVain`: `Spec => []WaitsForServerOnlyIfAsked`;
- `OneReplyAtATime`: `Spec => []AnswerIsOneReply`.

The inductive invariant `ReplayInv` (`Followed`) puts each worker `At` a place of one reply:
what the client got, the incomplete packet and the accumulator all agree on how many
pieces of it have gone by. A worker that reads the server is at a place of what the server
answered (`Reading`); one that is served from the map has asked nothing (`Idle`), waits for
an entry (`Fresh`) or holds the rest of the reply it is at (`Served`), whatever the map has
by then. None of the five properties is inductive without it, for what a packet does
depends on the accumulator, and the accumulator on all packets before it. The last three
parts are what holds of any entries, also of those that are parts of a reply: nothing is
left over between commands (`Tidy`), no query's entry goes on behind a packet that ends a
reply (`Entries`), so that a reading worker never inherits pieces of an entry, and a worker
dies of nothing but an entry that is no whole reply (`DiesOfEntries`).

What `Outcomes` makes of a frame is a recursive function of its packets. The lemmas
`WalkAlong` (along a reply it stays on the reply's trail), `WalkClear` and `WalkQuery` (on
other packets) do the induction over them with a least counterexample (`LeastNatural`), for
which a fixed formula is enough.

**`RowOverrideProofs`**, for every set of updates, queries, lists of columns and values.
`RowOverrideAssumption` says that these are what their names say: expressions whose nodes
stand behind their operands, texts of bytes no longer than a packet, lists of at least one
column. The theorems about the state:

- `TypeCorrect`: `Spec => []TypeOK`;
- `FollowsTable`: `Spec => []RowsFollowTable`;
- `PanicsOnlyOnUnsupported`: `Spec => []PanicsOnlyIfUnsupported`;
- `KeepsFields`: `Spec => []FieldsAsAnnounced`;

and those about the operators that they rest on:

- `NumbersReadBack`: for every number below 2^64 and whatever bytes follow, `IntLenEnc`
  reads back what it wrote and takes as many bytes as it wrote;
- `TextsReadBack`: `StringLenEnc` reads back the UTF-8 bytes that it wrote, each as a
  character of its own, which is the text itself for ASCII only;
- `WrittenFields`: the loop of `parse_row` reads the fields that `override_row` wrote, as
  many and in their order;
- `EvaluationAgrees`: a supported condition of any depth is true to `Parse::evaluate` where
  it is to SQL, and false to it where it is false or unknown to SQL;
- `LastHolds`: what a sequence of `Independent` updates makes of a row is what the last one
  that holds on the row as it was makes of it.

The inductive invariant `RowInv` says that the row being handled is what `Handled` makes of
some row the server sends, with the updates, columns and WHERE there are now: a row is
handled under the lock of its table's entry, so nothing it depends on changes meanwhile
(`HandledSame`); and that each live update's key has an entry. The properties alone are not
inductive: a step that stutters or records must know where the row came from, and that no
update lacks an entry. From `RowInv` each property follows by what the operators do. `Outcome`: the row is read as it was
written, without a panic, each field under its column's name, so that `OverrideRow` can
only panic in an evaluation; `ConditionsJudged`: the evaluation of a supported condition
gives a boolean, which leaves unsupported expressions for the panics. `RewrittenOK` and
`Bodies`: what is put in the row can be written, and is read as one field for each column,
if their names differ (`NamesCounted`: the code writes as many fields as the map has
names). For `FollowsTable`, `ReadAsHeld` makes the row read the server's row;
`RewrittenAsTable` has the updates the code finds be those of the table and the last that
matches be the one of `LastHolds`, which is then the whole effect of all of them;
`WhereAgrees` judges the rewritten row as SQL does. If the table has no entry, no live
update is one of the table, and the row goes on as it came (`OriginalBody`), with a WHERE
that holds because the server sent it. Recursive functions over places (`Fields`,
`Evaluate`, `SqlTruth`, `AfterUpdates`, the encoding of all fields) are unfolded with
`Recursion` and `Determined`, whose inductions are over numbers with a fixed formula
(`Counting`, from a least counterexample).

**Only model-checked.** Liveness and ENABLED are out of the prover's reach:
`CompletePacketsForwarded`, `ReplyEnds`, `EveryCommandSettled`, `WorkerFollowsClient` and
`ReplayedQuerySettled` stay with TLC, as do the five violations of section 4. Every
invariant and every refinement that the passing runs check is a theorem; those about sessions
and replies have premises on what is sent, named above.

## 6. Not modelled

- **Replies of several result sets** and an OK packet that announces more. The
  repository's README calls them partially supported; on the code as it is, the announced
  set makes the worker panic at once (`HydrateRows`), so that there is nothing further to
  follow.
- **Authentication flows the accumulators do not foresee**: a public key exchange, more data
  after a switch. Each panics where it departs from those in `AuthFlows`.
- **The contents of handshakes**: the fields the accumulators of the connection phase
  decode (`IntFixedLen`, the null-terminated and fixed strings) steer nothing but the
  flags that `Exchange` has. Assertions on them are left out.
- **Several sessions with a panic that aborts the process** (`panic = "abort"`): each
  module says when a worker panics; that all sessions end with it adds no state to any
  of them.
- **TLS configuration, the listener, delays, printing, the Kafka client library**: no state
  of their own, or only sleeping and logging, which any interleaving allows.
- **Skipped rows in `Replay` and `Exchange`**: `ResponseFlow` and `RowOverride` are about
  those. In consequence the empty entry that a read of skipped rows only would publish
  is listed as a hazard but not checked.
- **Entries of prepared statements in `Replay`**: the key of an entry is the command's text
  alone (`connection_handler.rs:235`), so that a prepare and a query of one text share an
  entry and all executes have the empty text. The runs' commands, and those of
  `RegularReplies`, are of one kind per text; the repository's README.md:18 calls prepared
  statements unsupported.

Worth adding next: sessions with prepared statements in `Orderly`; columns of other types
than text in `TableRows`; and a composition of `Interception` with the sessions that read
the log while it changes.
