# A TLA+ model of twamp-light

twamp-light measures delay and loss between a client and one or more
reflecting servers over UDP. This directory models the control of both
programs in TLA+, model-checks it with TLC on small instances, and proves the
most important invariants with TLAPS for all instances.

The layers, from the inside out: `TwampClient` is the three threads of the
client; `ClientMain` is the client program around them; `Server` is the server
program, which implements the abstract `Reflector`; `Session` puts a client and
the server on a network, each with a clock of its own, and computes with their
times as `TimeArithmetic` says.

## 1. The system and its parts

| Part | Source | State | Operations |
|---|---|---|---|
| Client, sender thread | `src/client/Client.cpp` `runSenderThread`, `sendPacket` | `index`, `sent_packets`, `sending_completed` | number and send a packet to every remote; queue its CLIENT_SEND observation; stop after `num_samples` or `runtime` |
| Client, receiver thread | `runReceiverThread`, `awaitAndHandleResponse`, `handleReflectorPacket` | `received_packets` | receive a reply, queue its three observations; after a failed `recvmsg` try to close the oldest entry; stop when all replies came or the timeout passed |
| Client, collator (main thread) | `runCollatorThread`, `process_observation`, `check_if_oldest_packet_should_be_processed`, `aggregateRawData` | `collator_started`, `collator_finished`, the four `sqa_stats` | move observations into entries; close the oldest entry when it is complete or expired |
| Client, shared lists | `include/packetlist.h` `ObservationList`, `include/Client.h` `RawDataList` | two deques with a mutex each | push, pop, oldest, `isEmpty` and iteration, the last two without the mutex |
| Client, main program | `main_client.cpp`, `Client::Client`, `Client::~Client` | the Client object, the two thread objects | parse, construct, create the threads, collate, join, report, destroy |
| Server | `src/server/Server.cpp` | sample counter, the socket's receive queue | open the socket; receive, stamp, reflect; end on the sample limit, a timeout or an error |
| Time conversions | `src/utils.cpp`, `include/utils.hpp`, `computeTimeData` | none | NTP timestamps to nanoseconds and back, delays and their sums |
| Reports | `printMetrics`, `printStats`, `JsonLog` | none | counters, delays, duration; formatting |
| Command lines | `main_client.cpp`, `main_server.cpp` | none | options and their limits |
| Statistics library | `qoo-c` (submodule, not in the tree) | samples and losses | add a sample, count a loss |

Interaction: client and server exchange datagrams that the network may lose,
duplicate and reorder. Inside the client the three threads share one `Client`
object. Observations flow sender/receiver -> `observation_list` -> collator ->
`raw_data_list` -> statistics and rows. The only locks are inside single list
operations; flags and counters are plain integers.

What is hard here, and what makes each part correct:

* *Two closing threads.* Receiver and collator both peek at the oldest entry,
  aggregate it and pop, in separate steps, and update the same statistics
  without a lock. Verdicts must balance removals and counts; what is removed
  should be what was judged.
* *Expiry against a reply under way*: a packet whose reply was read in time
  must not be counted lost, whichever thread closes its entry.
* *Lookup and push in separate steps*, over an unlocked iteration: there must
  be one entry per packet, in the order of sending.
* *A reply is three queue operations*: a row must not show half of a reply.
* *Start and end races*: `collator_started` is set after the other threads
  start, and `collator_finished` is decided from two reads at different times.
* *Ending at all* under loss: three stop conditions that depend on each other.
* *Ending in time*: `recvmsg` blocks across the client's own time limit.
* *Start-up failures*: the second thread may fail to start when the first
  already uses the object that is about to be destroyed.
* *Two clocks*: the delays are unsigned differences of times from different
  clocks, some converted to an NTP fraction and back and some not, and the
  client's clock may be set while it measures.
* *Server*: each datagram is answered at most once, in order for each client,
  with times that enclose its stay; limits are exact at their boundaries.

`PROJECT.json` lists these as hazards with their source lines.

## 2. Modules

| Module | Contents |
|---|---|
| `TwampClient` | the client: three threads, network, clock; its properties |
| `ClientMain` | `main()` around `TwampClient`: construction, threads, reports, exit |
| `MCTwampClient` | statements of comments, help texts and tests about the client that TLC refutes |
| `TwampClientProofs` | theorems about every client: types, order, completeness of the record |
| `ClientMainProofs` | theorems about `ClientMain`, that it implements `TwampClient` included |
| `ClientClosingProofs` | theorems about two threads that close entries: verdicts, statistics, removals |
| `ClientTimingProofs` | theorems about prompt clients and time: when they end, which replies they count |
| `PromptClientProofs` | theorems about the measurements of a prompt client that loses nothing |
| `Server` | the server with the datagrams of several clients; its properties |
| `Reflector` | what a reflector promises its clients, an abstract specification |
| `ServerProofs` | theorems about `Server`, the refinement of `Reflector` included |
| `TimeArithmetic` | times, NTP timestamps and delays as operators |
| `Session` | `Server` and the times of a client, with two clocks and a network |
| `TimeArithmeticProofs` | lemmas and a theorem about `TimeArithmetic`, for every scale |
| `SessionProofs` | theorems about the times of a session |
| `MCSession` | a statement about the RTT statistic that TLC refutes |

A definition whose comment begins with "Mutant of" is a plausible bug in the
definition after it. It is not used by any specification; replacing the
definition by it must violate a property, which shows the property is about
the code.

### TwampClient

One step is one list operation, one system call or one access to a shared
field; `pc[t]` says where thread `t` is. Variables keep the names of the code.
Abstractions:

* `raw_data` holds every `RawData` object ever made and `popped` counts
  `pop_front()`; the deque is the part after `popped`. A shared pointer is a
  position, so a thread can hold an entry that is no longer in the deque, as
  in the code.
* A time is abstracted to the reply it came from (the remote's number) or 0
  while it is not set. Four reads of fields that only go from 0 to a value are
  one step: the result is that of the deciding read.
* `Tick` is the roll-over of the wall clock's second, which is what
  `time(nullptr)` sees. `age` counts roll-overs since an entry was made; at
  `age = Timeout` the nanosecond test may go either way, so both are allowed.
* `undefined` becomes TRUE when the code reaches undefined behaviour: a pop of
  an empty deque, or (as one of two outcomes) a pop under the collator's
  iterators. Nothing more happens after that. Flags and counters that threads
  share without synchronisation are read and written as single steps: each
  loop that reads them makes opaque calls (`time`, `recvmsg`, `usleep`), so
  the compiler has to read them again, and aligned integers are not torn.
* The statistics are the exception: an update is a read, a computation and a
  write inside the library. While both closing threads are in
  `aggregateRawData`, what one of them counts may be lost, in each of the
  statistics independently (`Counted`). Other damage to a t-digest is not
  modelled.
* A row stands for the verdict of `aggregateRawData` with the times it was
  based on; the printed text is left out. The code reads the fields once more
  to print them, and the receiver's row may then show a time the collator set
  after the verdict; the model has one read, and no property is about the
  difference. A delay of exactly 0 ns, for which
  the code adds no RTT sample, is not modelled.
* `in_time` and the field `entry` of a row are history variables: the packets
  with a reply that was read while their entry had not reached the timeout, and
  the entry a row is about. Nothing in the code's steps reads them. The age of
  an entry that no thread can look at any more is forgotten (`InUse`).
* `recvmsg` returns -1 only by its timeout; other errors of a bound UDP socket
  take the same path as a truncated reply and are covered by that action.

Parameters: `NumSamples`, `Runtime`, `Timeout`, `NumRemotes` and `Collate` are
the options; `Lossy`, `MaxDuplicates`, `SendMayFail`, `OversizedReplies` are
what the environment may do; `MaxPackets` bounds the packets of a client
without a sample limit, and `Horizon` the seconds counted after the last one.
`Prompt = TRUE` restricts attention to executions in which the threads are fast
compared with a second: it does not roll over while one of them could do
something, that is unless the sender sleeps, the receiver is blocked with time
left and the collator finds nothing to do (`Quiet`). The collator looks at the
oldest entry only, so a second may pass while complete entries wait behind an
incomplete one. Replies are then fast too,
unless `SlowReplies`. `EarlyPackets = FALSE` leaves out packets that are sent
before `runCollatorThread` has set `collator_started`: the first of them can be
recorded although its reply was not, and is then counted lost.

### ClientMain

`main` says where `main()` is, `created` which threads exist, `alive` whether
the `Client` object does. A thread takes exactly the steps `TwampClient` gives
it, from its creation until the process ends; the collator runs on the main
thread. Modelled failures: arguments that end the program (the version and a
missing address do so with status 0), a constructor that exits or throws, and
either thread that cannot be created. If the second one cannot, the exception
meets the joinable first one and `std::terminate` ends the process with
SIGABRT instead of the exit status the `catch` clauses have prepared. The
reports show the number of packets sent, samples and losses. `JsonLog` may
throw, which `main()` turns into a failure, or write nothing: it does not notice
a file it cannot open, and the program returns 0. `ParseErrors` stands for the
exit codes of the command line library.

### Server and Reflector

The constructor succeeds or exits; `listen()` is one thread, so its steps are
the system calls and the two readings of the clock. `arrivals` holds all
datagrams that reached the socket and `consumed` how many `recvmsg` returned.
A client's datagrams are numbered as they arrive (`SentBy`), so what a number
stands for is the order of arrival; a network that reorders or repeats them on
the way only changes which packet a number is of.
`UintModulus` is the range of `counter`. `KernelStamps`, `ReceiveMayFail`,
`SendMayFail` say what the environment may do (a datagram comes with or without
a kernel time), `Ports` what `local_port` may be: a number, or a service name,
which `getaddrinfo` accepts and `std::stoi` does not.

`Reflector` says what this amounts to for the clients: requests are taken in
the order they arrived, each is answered once or given up, an answer repeats
what its request said and its two times enclose the request's stay, and nothing
is sent after closing. `Server!Outside` maps the server's state to it: a
request is handled when it was answered or dropped, so the reading of the two
clocks and the steps of the loop are stutters.

### TimeArithmetic and Session

A time is a number of nanoseconds. `Wire` is what a clock reading looks like
after `timespec_to_timestamp` and `timestamp_to_nsec`: the seconds go through a
`uint32_t` counted from 1900, the nanoseconds through a fraction of 2^32, and
both divisions truncate. The code computes the fractions with `double`; for all
10^9 values of `tv_nsec` and all 2^32 fractions the result is that of the
integer division in the model (compared exhaustively with a program). A
reading is changed by at most one nanosecond and the order of readings is kept.
`Minus` is a difference of `uint64_t`; `computeTimeData` uses signed ones, and
the samples of the statistics unsigned ones.

`Session` keeps every clock reading together with the time it was really taken
at and how often the client's clock had been set before, so that properties can
compare what the client computes with what happened. `Advance` moves both
clocks, `SetClock` the client's alone. Datagrams take any time and any order;
one that is never delivered is lost. The client's threads are not modelled
again here: an entry is made when its packet is sent and closed when its reply
is handled, and a reply without an entry only sets the time of the last reply.
In the code the entry is made a little later, by the collator; the model's entry
is older, so it may expire whenever the code's does.

## 3. Runs

| Run | Instance | Shows |
|---|---|---|
| `client_main` | 1 packet, timeout 1, loss, any speed, every failure of `main()`; fairness | types; the unlocked `isEmpty` is safe; verdicts balance removals, and the unlocked statistics count them all unless an entry got two; the object outlives its threads on every path; reports are final; the program ends |
| `client_order` | 2 packets, timeout 2, loss, slow and oversized replies, early packets, prompt | entries in sending order, one per packet; the inductive invariant of the proof; once recording has begun no packet is left out; a packet with a reply in time is not counted lost; what is removed is what was judged, unless an entry got two verdicts; the client ends within three timeouts after the last packet |
| `client_prompt` | 3 packets, no loss, prompt | each packet gets at most one verdict, and no row shows half a reply |
| `client_legacy` | no collator, runtime 1, 2 remotes, one duplicate, failing sends; fairness | the client's threads end |
| `server` | 2 samples, timeout 1, 2 clients, 3 datagrams, two lengths, with and without kernel times, both kinds of port, all failures; fairness | conservation, order and times of replies; the sample limit is exact; the server ends; it implements `Reflector` |
| `server_forever` | neither sample limit nor timeout, 2 clients, 3 datagrams, two lengths, failing sends; fairness | every datagram that reached the socket is answered or dropped, by a server that nothing ends |
| `session` | 2 packets, one of which may be answered, clocks that agree or differ by 2, the client's set once by 2 | the printed RTT is right to a nanosecond whatever the clocks' difference; with clocks that agree no delay is negative; the samples of the statistics are right for exactly the packets the legacy format marks as in sync; no packet expires early and the reported duration is right unless the clock was set |

Five more runs (`claim_*`) check one statement each that a comment, a help
text or a test of the repository makes, and TLC finds an execution of the code
that contradicts it; `PROJECT.json` quotes them under `findings`:

* `claim_finished`: the collator can exit with the last packet unread;
* `claim_pop`: two threads aggregate one entry, and the second pop meets an
  empty deque or removes an entry that was never judged;
* `claim_remotes`: a second remote's reply is counted as a lost packet;
* `claim_runtime`: with `--timeout 0` a lost packet blocks the client for ever;
* `claim_rtt`: with a server clock that is behind, the RTT in the statistics
  is longer than the round trip by 2^64 ns.

Some things come out of the model without a run of their own. The client
accepts payloads of 1473 bytes (`main_client.cpp`, MAX_PAYLOAD_LEN, and the
test "Maximum payload is 1473 bytes"), one byte more than the server's buffer:
`Receive` drops them all. A server whose port is given as a service name ends at
the first datagram that fits its buffer (`PortThrows`): `getaddrinfo` accepts
the name and `std::stoi` throws. When the receiver aggregates an expired entry
whose reply is being recorded, the two halves of `aggregateRawData` can see
different fields, so that a loss comes with an RTT sample made of one delay.
`SampleBudget` fails for `--num_samples 4294967295`,
where `counter` wraps before it exceeds the limit; the theorem excludes that
one value. Rows need not start at packet 0, as an integration test expects,
since packets sent before the collator starts get none (`NoGapInRecord` says
what holds instead). The bound of `EndsInTime` is tight: with
`3 * Timeout - 1` TLC finds a client that still runs, while the help text of
`--runtime` promises one timeout. And reading the code for the arithmetic
showed two conversions that are wrong on every run and need no model:
`JsonLog` takes the microseconds of `t0` as nanoseconds modulo 1000
(`Client.cpp:846`), and `--print-RTT-only` divides by
`NANOSECONDS_TO_MILLISECONDS` where the other formats multiply
(`Client.cpp:599`).

Bounds. One packet is enough for the races between the threads: it gives the
receiver, the collator and a late observation something to compete for, and the
removal of one entry by two threads already reaches the empty deque. Order
needs two packets and an overtaking reply. Timeout 1 separates "just sent",
"may be expired" and "expired"; timeout 2 tells two timeouts from three, and
`Horizon` is one more than three. The server needs two clients to mix up
replies, three datagrams to reach a limit of three with one dropped and one
failed, and a clock of three values to tell arrival, receipt and sending apart.
In `session` a second has 3 nanoseconds and 8 fractions, so that truncation
happens and 8 seconds make an NTP era, which ends during the run; the
difference and the step of 2 exceed the shortest delays, so that delays become
negative and differences wrap; a timeout is one second, which fits into the run
with room for an early and a late expiry.

`NoFalseLoss` calls a reply in time if it was read by `recvmsg` while the
packet's entry, if there was one already, was in the list and younger than the
timeout. It is checked where time and the network are at their worst: packets
expire in front of, behind and during the reading of others' replies, and a
truncated reply or a timeout of `recvmsg` makes the receiver close entries while
observations are still in the queue. Two cases are exempt because the code
does get them wrong, `claim_finished` and `claim_pop`.

Fairness. `WF(Sender)`, `WF(Receiver)`, `WF(Collator)` and `WF(Proceed)`
for the server: the operating system runs a thread that can run; `WF(Tick)`:
time passes. `Proceed` leaves out `ReceiveError`, which is always possible
while the server waits: under fairness it would end a server that nothing else
ends. In `ClientMain` the collator is a part of the main thread and shares its
fairness. No fairness is assumed of the network: it may lose everything.

## 4. Proofs

TLAPS checks the theorems below for every value of the constants that satisfies
the ASSUMEs (counts are natural numbers, switches are Boolean, a scale has at
least one unit). A further hypothesis, where a theorem has one, is named in its
statement and given here.

### The client's threads (`TwampClientProofs`)

* `TypeCorrect`, `PopSafe`: `TypeOK` and `ObservationPopSafe`. The pop is safe
  because only the collator removes observations: an observation list that was
  seen non-empty stays so. The types include that a closing thread's `oldest`
  is not null where it is dereferenced.
* `PipelineCorrect`: `PipelineInv` is inductive (given the types). It has five
  parts. `EntriesInSendOrder` is not inductive by itself: a CLIENT_SEND
  observation still in the queue becomes an entry later, so what is in front
  of it anywhere in the pipeline has to be about earlier packets
  (`PipelineInSendOrder`), and when the sender queues it, everything in the
  pipeline has to be (`NothingFromTheFuture`). `LookupStillValid` carries the
  result of the lookup over to the push: the receiver may remove entries in
  between but not add any, so "not found" stays true.
* `SendOrder`, `NoDuplicateEntries`: the two parts that matter to a user.
* `RecordComplete`: `NoGapInRecord`, provided `sendmsg` does not fail. The
  CLIENT_SEND time of a packet is followed from the sender's hand through the
  queue and the collator's hand into an entry.

### The program around them (`ClientMainProofs`)

* `ProgramImplementsClient`: `MainSpec => Spec`; the steps of `main()` that are
  not steps of a thread leave the threads' variables alone. With it
  `ProgramSafe` carries `TypeOK`, `ObservationPopSafe`, `VerdictsMatchPops` and
  `PopRemovesJudged` over to the program.
* `ThreadsEndFirst`: `ObjectOutlivesThreads`, from `ThreadsInv`: which threads
  exist and which are done at each place of `main()`.
* `FinalReports`: `ReportsAreFinal`, from `PrintedInv`: when the reports are
  printed both threads are joined and the collator is done, so the counters
  have their last values.

### Two closing threads (`ClientClosingProofs`)

`claim_pop` shows that the receiver and the collator can both judge one entry.
These theorems say that this is the only thing that goes wrong between them, for
every client and every interleaving, with both threads closing entries at any
time. `TwoVerdicts` is the state in which an entry has got two verdicts or is
about to.

* `VerdictAccounting`: `VerdictsMatchPops`. Rows and removals balance always;
  the statistics count every verdict unless `TwoVerdicts`.
* `JudgedIsRemoved`: `PopRemovesJudged`.

Both follow from `TurnsInv`. A closer never holds an entry behind the front, and
either an entry has got two verdicts or the closers take turns (`InTurn`): one of
them at most is between its judgement and its removal, it holds the front, and
the rows so far are those of the entries in their order. The step that matters
is the judgement (`TurnsJudge`): what the closer looked at earlier is either
still the front and nobody else's, or it has a row or a closer already.

### Time limits (`ClientTimingProofs`)

The hypothesis of both theorems is `PromptThreads`: threads that are fast
compared with a second, and a timeout that is not 0. The network may do what it
likes, and so may `sendmsg`.

* `EndsWithinThreeTimeouts`: `EndsInTime`. `TimeInv` says where the
  three timeouts come from: the receiver enters its last `recvmsg` within one,
  leaves it after another (`ReceiverInTime`), so that the last observation comes
  within two (`ObservationsInTime`), and the entry made of it stays in the deque
  for a third (`EntriesInTime`). The collator looks at the oldest entry only;
  that is enough since no other is older (`AgesInOrder`).
* `TimelyRepliesCounted`: `NoFalseLoss`. `LossInv` follows a reply that was in
  time: each of its three times is in the entry, or it is still moving through
  the receiver's hand, the queue or the collator's hand and the entry is open,
  that is in the list and younger than the timeout (`AwaitsReply`); the same
  for a packet whose CLIENT_SEND time is to come (`AwaitsSend`). While something
  moves a prompt client lets no second pass, so an open entry stays open, and
  what is closed is complete or old (`JudgedInv`). With a timeout of 0 an entry
  may be old at once, between two of its observations, so the hypothesis is
  needed.

### Measuring under perfect conditions (`PromptClientProofs`)

What a client reports when nothing goes wrong outside of it: the hypothesis
`PerfectConditions` says that threads and replies are faster than the clock, the
network neither loses nor duplicates, replies fit the buffer, there is one
remote, a timeout, and a collator that starts first. The run `client_prompt` is
such an instance; `claim_remotes` and the remark on `EarlyPackets` in section 2
show what happens without one of these. `sendmsg` may fail, and the number of
packets, the runtime and the timeout are arbitrary.

* `OneVerdict`: `VerdictOnce`; `RepliesWhole`: `NoSplitReply`.

Both follow from `PromptInv`. Its core is `ObservationsInv`: the four
observations of a packet come into being together, when it is sent, and each is
then in exactly one of five places (on its way or in the sender's hand, in the
receiver's hand, in the list, in the collator's hand, in an entry). So an entry
is incomplete only while an observation of its packet is under way, and then a
prompt client does not let a second pass: `TickStill` shows that the deque is
empty whenever one does. Hence no entry ages, none expires, and what is closed
is complete (`EntriesInv`). `ReceiverInv` says why the receiver, which looks at
the deque after a timeout of `recvmsg`, finds nothing it could close, and
`EndInv` why a collator that ended early leaves no entry that could get old:
the replies on the network are as many as the receiver still waits for.
`RowsInv` carries this over to the rows.

### The server (`ServerProofs`)

* `ServerTyped`, `ServerConserves`: `TypeOK` and `Conservation`.
* `ServerImplementsReflector`: `Spec => Outside!Spec`. Initial states map to
  initial states, and every step of `Server` to a step of `Reflector` or a
  stutter. The step that sends a reply needs `StampInv`: the receive stamp held
  at that point is that of the current datagram, and both stamps lie between
  its arrival and the present.
* `RepliesInOrder`: `ReflectsInOrder`; `StayEnclosed`: `TimesEncloseStay`. Both
  from `OrderInv`: the datagrams of a client carry its numbers in order
  (`NumberedInv`), and the replies sent are those of an increasing sequence of
  datagrams already consumed (`RepliesInv`).
* `BudgetKept`: `SampleBudget`, from `CounterInv`, which relates `counter` to
  the datagrams received at each place of the loop; it needs
  `NumSamples # UintModulus - 1`, for which the counter wraps.

### Times (`TimeArithmeticProofs`, `SessionProofs`)

* `WireLosesOne`: for every scale and epoch, a reading below 2^32 seconds that
  goes through a timestamp and back loses at most one nanosecond, later
  readings do not become earlier ones, and whole seconds between two readings
  are kept. The argument is that of one division with remainder after another:
  the second can only lose what the first has rounded off.
* `RoundTripProved`, `DelaysProved`, `SyncProved`, `ExpiryProved`,
  `DurationProved`: the five properties of `Session`. They have the form
  `SessionSpec /\ []ClocksFit => []P`, where `ClocksFit` says that the server's
  and the client's clock show less than 2^32 seconds since 1970 (until 2106; the
  end of the NTP era in 2036 falls into it and does no harm). `SessionInv` says of every time that is kept anywhere (in a
  datagram, a socket, a reply or a row) that it is what a clock showed at the
  recorded moment, and that two readings of one clock between the same two
  settings differ by what really passed.
* `ShortSessionsFit`: `ClocksFit` follows from bounds on the constants, which
  the instance of the run `session` satisfies, so the hypothesis is not empty.

### Only model-checked

Liveness (`ProgramEnds`, `Termination`, `EventuallyExits`, `EventuallyHandled`)
is out of the prover's reach. So are the statements of the `claim_*` runs, which
are false. That the integer divisions of `TimeArithmetic` are those the code
does with `double` is neither checked by TLC nor proved: it was compared with a
program.

## 5. Not modelled

* The layout of rows, tables and JSON, and the t-digest in the JSON report: no
  state and no decision depends on it.
* Byte order, error estimates, TTL and TOS: copied from one packet to another
  or printed, never acted on.
* The options of the command lines and the parsing of `IP:port`: input
  validation without state. Whether parsing ends the program is in `ClientMain`.
* The random delays and lengths: any delay and any of the lengths is allowed.
* The steps between the constructors' system calls: each failure ends the
  program before a thread or `listen()` runs, and they are one action.
* The conversions for `timeval` and microseconds, which only unit tests use.
* The statistics library, a submodule that is not in the tree, beyond counting
  samples and losses; packaging and build.
* `TwampClient` and `Server` are not composed thread by thread: to the client's
  threads a server is a part of the network that answers or loses a packet,
  which `Reflector` justifies, and what server and client exchange besides that,
  the times, is in `Session`.

## 6. Plan

Modelling is complete as far as it seems worthwhile, and every invariant and
action property that a run checks is proved, some of them under the hypotheses
named above. What could still be proved is how far the hypotheses can be
weakened: how much of `PromptInv` survives a network that loses packets, and
whether prompt threads alone keep the two closers from judging the same entry
in some configurations.
