---------------------------- MODULE TwampClient ----------------------------
(***************************************************************************)
(* The measuring client (src/src/client/Client.cpp, include/Client.h,      *)
(* include/packetlist.h): a sender thread, a receiver thread and, in every *)
(* output format that reports per-packet rows, a collator that runs on the *)
(* main thread.  The three share the fields of one Client object.          *)
(*                                                                         *)
(*   sender    numbers packets 0, 1, 2, ..., sends each to every remote,   *)
(*             and queues a CLIENT_SEND observation for it;                *)
(*   receiver  turns every reply into three queued observations, and when  *)
(*             recvmsg fails tries to close the oldest raw_data entry;     *)
(*   collator  moves observations from the queue into raw_data and, when   *)
(*             the queue is empty, tries to close the oldest entry too.    *)
(*                                                                         *)
(* The only locks in the code are inside the two list classes, one per     *)
(* call.  So a step of this model is one list operation, one system call   *)
(* or one read or write of a shared field, and every interleaving of such  *)
(* steps is a behaviour.                                                   *)
(*                                                                         *)
(* Time: Tick is the roll-over of the wall clock's seconds, the unit of    *)
(* every time limit in the client.                                         *)
(***************************************************************************)
EXTENDS Integers, Sequences, FiniteSets

CONSTANTS
    NumSamples,    \* args.num_samples; 0 sends without limit
    Runtime,       \* args.runtime in seconds; 0 means no limit
    Timeout,       \* args.timeout in seconds
    NumRemotes,    \* size of remote_address_info
    Collate,       \* main() calls runCollatorThread: not "legacy", or print_lost_packets
    MaxPackets,    \* bound on index when NumSamples does not bound it
    Lossy,         \* the network may lose a request or its reply
    MaxDuplicates, \* how many replies the network may deliver twice
    SendMayFail,   \* sendmsg may return -1
    OversizedReplies, \* a remote may answer with more bytes than the buffer holds
    EarlyPackets,  \* the sender may send before the collator has started
    Prompt,        \* a second never rolls over while a thread could do something
    SlowReplies,   \* with Prompt: replies may take longer than that
    Horizon        \* bound on the seconds counted after the last packet

ASSUME NumSamplesAssumption == NumSamples \in Nat
ASSUME RuntimeAssumption == Runtime \in Nat
ASSUME TimeoutAssumption == Timeout \in Nat
ASSUME RemotesAssumption == NumRemotes \in Nat \ {0}
ASSUME BoundsAssumption ==
    /\ MaxPackets \in Nat /\ MaxDuplicates \in Nat
    /\ Horizon \in Nat /\ Horizon >= Timeout
ASSUME SwitchesAssumption ==
    /\ Collate \in BOOLEAN
    /\ Lossy \in BOOLEAN
    /\ SendMayFail \in BOOLEAN
    /\ OversizedReplies \in BOOLEAN
    /\ EarlyPackets \in BOOLEAN /\ Prompt \in BOOLEAN /\ SlowReplies \in BOOLEAN

VARIABLES
    pc,                \* where each thread is
    index,             \* runSenderThread: number of the packet being sent
    next_remote,       \* sendPacket: the remote the next sendmsg goes to
    sent_packets,
    received_packets,
    sending_completed, \* the time_t of the code, as "set" or "not set"
    collator_started,
    collator_finished,
    observation_list,  \* FIFO of QEDObservation, a sequence
    raw_data,          \* every RawData object ever pushed on raw_data_list, in order
    popped,            \* how many of them pop_front() has removed
    pending,           \* handleReflectorPacket: observations still to be queued
    tmp_obs,           \* runCollatorThread: the observation being processed
    entry,             \* process_observation: the RawData it found, 0 for a new one
    oldest,            \* check_...: oldest_raw_data of each closing thread, 0 for nullptr
    forward,           \* aggregateRawData: client_server_delay was computed
    stats,             \* samples in each sqa_stats, and the losses counted in all four
    rows,              \* the rows reported, one per aggregated entry
    network,           \* requests and replies in flight
    duplicated,        \* how many deliveries left the reply in flight
    in_time,           \* history: packets with a reply read before their timeout
    uptime,            \* seconds since start_time
    since_completed,   \* seconds since sending_completed was set
    recv_wait,         \* seconds the receiver has been blocked in recvmsg
    undefined          \* the execution ran into undefined behaviour

senderVars   == <<index, next_remote, sent_packets>>
collatorVars == <<tmp_obs, entry>>
listVars     == <<raw_data, popped>>
closeVars    == <<oldest, forward, stats, rows>>
netVars      == <<network, duplicated, in_time>>
timeVars     == <<uptime, since_completed, recv_wait>>
flagVars     == <<sending_completed, collator_started, collator_finished>>
vars == <<pc, senderVars, received_packets, flagVars, observation_list, listVars,
          pending, collatorVars, closeVars, netVars, timeVars, undefined>>

-----------------------------------------------------------------------------
Threads == {"sender", "receiver", "collator"}
Closers == {"receiver", "collator"}  \* they run check_if_oldest_packet_should_be_processed
ObservationPoints == {"CLIENT_SEND", "SERVER_RECEIVE", "SERVER_SEND", "CLIENT_RECEIVE"}
Remotes == 1..NumRemotes

(* The time a timestamp shows is abstracted to the reply it came from: the  *)
(* number of the remote, or 1 for CLIENT_SEND, which all remotes share.     *)
(* 0 is what the fields of RawData hold until they are set.                 *)
Stamps == 0..NumRemotes

Observation == [point : ObservationPoints, id : Nat, stamp : Remotes]
NoObservation == [point |-> "CLIENT_SEND", id |-> 0, stamp |-> 1]
Message == [to : Remotes, id : Nat]
RawData == [id : Nat, at : [ObservationPoints -> Stamps], age : 0..Timeout + 1]
(* A row has, besides what is printed, the position of the entry it is of.  *)
Row == [id : Nat, at : [ObservationPoints -> Stamps], entry : Nat]
Counters == {"client_server", "server_client", "internal", "RTT", "lost"}

(* getOldestEntry and the iterators see the entries that were not popped.   *)
Live == popped + 1 .. Len(raw_data)
(* Mutant of Complete: does not wait for the CLIENT_RECEIVE time.           *)
CompleteEarly(at) == \A p \in ObservationPoints \ {"CLIENT_RECEIVE"} : at[p] # 0
Complete(at) == \A p \in ObservationPoints : at[p] # 0

CheckLabels == {"peek", "judge", "forward", "aggregate", "pop"}
SenderLabels == {"loop", "send", "observe", "done"}
ReceiverLabels == {"loop", "recv", "enqueue", "done"} \cup CheckLabels
CollatorLabels == {"start", "loop", "poll", "pop_obs", "find", "update", "done"}
                    \cup CheckLabels
Labels == SenderLabels \cup ReceiverLabels \cup CollatorLabels

AllDone == \A t \in Threads : pc[t] = "done"

At(t, label) == ~undefined /\ pc[t] = label
Goto(t, label) == pc' = [pc EXCEPT ![t] = label]

Saturate(n, limit) == IF n < limit THEN n + 1 ELSE n

(* The members of Client before main() starts the threads.  Without a       *)
(* collator main() goes straight to joining the two other threads.          *)
Init ==
    /\ pc = [t \in Threads |->
                IF t = "collator" THEN IF Collate THEN "start" ELSE "done" ELSE "loop"]
    /\ index = 0 /\ next_remote = 1
    /\ sent_packets = 0 /\ received_packets = 0
    /\ sending_completed = FALSE
    /\ collator_started = FALSE /\ collator_finished = FALSE
    /\ observation_list = <<>>
    /\ raw_data = <<>> /\ popped = 0
    /\ pending = <<>>
    /\ tmp_obs = NoObservation /\ entry = 0
    /\ oldest = [t \in Closers |-> 0] /\ forward = [t \in Closers |-> FALSE]
    /\ stats = [c \in Counters |-> 0]
    /\ rows = <<>>
    /\ network = {} /\ duplicated = 0 /\ in_time = {}
    /\ uptime = 0 /\ since_completed = 0 /\ recv_wait = 0
    /\ undefined = FALSE

-----------------------------------------------------------------------------
(* Sender thread: runSenderThread and sendPacket                            *)

RuntimeOver == Runtime # 0 /\ uptime >= Runtime
WantsToSend == (NumSamples = 0 \/ index < NumSamples \/ Runtime # 0) /\ ~RuntimeOver

(* The while condition and the runtime test hold.  The next step waits in   *)
(* usleep first.                                                            *)
SenderNext ==
    /\ At("sender", "loop")
    /\ WantsToSend
    /\ index < MaxPackets
    /\ Collate /\ ~EarlyPackets => collator_started
    /\ Goto("sender", "send")
    /\ UNCHANGED <<senderVars, received_packets, flagVars, observation_list,
                   listVars, pending, collatorVars, closeVars, netVars, timeVars, undefined>>

SenderDone ==
    /\ At("sender", "loop")
    /\ ~WantsToSend
    /\ sending_completed' = TRUE
    /\ Goto("sender", "done")
    /\ UNCHANGED <<senderVars, received_packets, collator_started, collator_finished,
                   observation_list, listVars, pending, collatorVars, closeVars, netVars,
                   timeVars, undefined>>

(* One successful sendmsg of the loop over remote_address_info.             *)
SendOk ==
    /\ At("sender", "send")
    /\ network' = network \cup {[to |-> next_remote, id |-> index]}
    /\ sent_packets' = sent_packets + 1
    /\ IF next_remote < NumRemotes
       THEN next_remote' = next_remote + 1 /\ UNCHANGED pc
       ELSE next_remote' = 1 /\ Goto("sender", "observe")
    /\ UNCHANGED <<index, received_packets, flagVars, observation_list, listVars, pending,
                   collatorVars, closeVars, duplicated, in_time, timeVars, undefined>>

(* sendmsg fails: sendPacket throws, runSenderThread catches, and neither   *)
(* the remaining remotes nor the CLIENT_SEND observation are reached.       *)
SendFail ==
    /\ At("sender", "send")
    /\ SendMayFail
    /\ next_remote' = 1
    /\ index' = index + 1
    /\ Goto("sender", "loop")
    /\ UNCHANGED <<sent_packets, received_packets, flagVars, observation_list,
                   listVars, pending, collatorVars, closeVars, netVars, timeVars, undefined>>

(* Mutant of SenderObserve: not recorded while the collator is behind.      *)
SenderObserveIdle ==
    /\ At("sender", "observe")
    /\ observation_list' =
           IF collator_started /\ observation_list = <<>>
           THEN Append(observation_list, [point |-> "CLIENT_SEND", id |-> index, stamp |-> 1])
           ELSE observation_list
    /\ index' = index + 1
    /\ Goto("sender", "loop")
    /\ UNCHANGED <<next_remote, sent_packets, received_packets, flagVars, listVars, pending,
                   collatorVars, closeVars, netVars, timeVars, undefined>>

(* The packet went to every remote: queue its CLIENT_SEND observation if    *)
(* the collator has started.                                                *)
SenderObserve ==
    /\ At("sender", "observe")
    /\ observation_list' =
           IF collator_started
           THEN Append(observation_list, [point |-> "CLIENT_SEND", id |-> index, stamp |-> 1])
           ELSE observation_list
    /\ index' = index + 1
    /\ Goto("sender", "loop")
    /\ UNCHANGED <<next_remote, sent_packets, received_packets, flagVars, listVars, pending,
                   collatorVars, closeVars, netVars, timeVars, undefined>>

Sender == SenderNext \/ SenderDone \/ SendOk \/ SendFail \/ SenderObserve

-----------------------------------------------------------------------------
(* Receiver thread: runReceiverThread, awaitAndHandleResponse and           *)
(* handleReflectorPacket                                                    *)

(* Mutant of KeepReceiving: no limit on the time after the last packet.     *)
KeepReceivingForever == ~sending_completed \/ received_packets < sent_packets

KeepReceiving ==
    \/ ~sending_completed
    \/ received_packets < sent_packets /\ since_completed < Timeout

ReceiverContinue ==
    /\ At("receiver", "loop")
    /\ KeepReceiving
    /\ Goto("receiver", "recv")
    /\ UNCHANGED <<senderVars, received_packets, flagVars, observation_list, listVars, pending,
                   collatorVars, closeVars, netVars, timeVars, undefined>>

ReceiverStop ==
    /\ At("receiver", "loop")
    /\ ~KeepReceiving
    /\ Goto("receiver", "done")
    /\ UNCHANGED <<senderVars, received_packets, flagVars, observation_list, listVars, pending,
                   collatorVars, closeVars, netVars, timeVars, undefined>>

(* Delivering a message removes it from the network, or leaves a duplicate. *)
Deliver(m) ==
    \/ network' = network \ {m} /\ UNCHANGED duplicated
    \/ duplicated < MaxDuplicates /\ duplicated' = duplicated + 1 /\ UNCHANGED network

(* The order in which handleReflectorPacket queues its observations.        *)
ReplyObservations(m) ==
    << [point |-> "SERVER_SEND",    id |-> m.id, stamp |-> m.to],
       [point |-> "SERVER_RECEIVE", id |-> m.id, stamp |-> m.to],
       [point |-> "CLIENT_RECEIVE", id |-> m.id, stamp |-> m.to] >>

(* A reply to packet k would be in time: no entry for it was removed or has *)
(* reached the timeout.                                                     *)
InTime(k) ==
    \A i \in 1..Len(raw_data) :
        raw_data[i].id = k => i \in Live /\ raw_data[i].age < Timeout

RecvPacket(m) ==
    /\ At("receiver", "recv")
    /\ Deliver(m)
    /\ received_packets' = received_packets + 1
    /\ IF collator_started
       THEN pending' = ReplyObservations(m) /\ Goto("receiver", "enqueue")
       ELSE Goto("receiver", "loop") /\ UNCHANGED pending
    /\ in_time' = in_time \cup {k \in {m.id} : collator_started /\ InTime(k)}
    /\ recv_wait' = 0
    /\ UNCHANGED <<senderVars, flagVars, observation_list, listVars, collatorVars, closeVars,
                   uptime, since_completed, undefined>>

(* MSG_TRUNC: the reply is dropped and counts as no response.               *)
RecvTruncated(m) ==
    /\ At("receiver", "recv")
    /\ OversizedReplies
    /\ Deliver(m)
    /\ Goto("receiver", "peek")
    /\ recv_wait' = 0
    /\ UNCHANGED <<senderVars, received_packets, flagVars, observation_list, listVars, pending,
                   collatorVars, closeVars, in_time, uptime, since_completed, undefined>>

(* SO_RCVTIMEO expires; set_socket_options sets it only if the timeout is   *)
(* not 0.                                                                   *)
RecvTimeout ==
    /\ At("receiver", "recv")
    /\ Timeout # 0 /\ recv_wait >= Timeout
    /\ Goto("receiver", "peek")
    /\ recv_wait' = 0
    /\ UNCHANGED <<senderVars, received_packets, flagVars, observation_list, listVars, pending,
                   collatorVars, closeVars, netVars, uptime, since_completed, undefined>>

(* Mutant of Enqueue: goes on after the last observation.                   *)
EnqueueOneMore ==
    /\ At("receiver", "enqueue")
    /\ observation_list' = Append(observation_list, Head(pending))
    /\ pending' = Tail(pending)
    /\ IF pending = <<>> THEN Goto("receiver", "loop") ELSE UNCHANGED pc
    /\ UNCHANGED <<senderVars, received_packets, flagVars, listVars, collatorVars, closeVars,
                   netVars, timeVars, undefined>>

(* One of the three calls of enqueue_observation.                           *)
Enqueue ==
    /\ At("receiver", "enqueue")
    /\ observation_list' = Append(observation_list, Head(pending))
    /\ pending' = Tail(pending)
    /\ IF Len(pending) = 1 THEN Goto("receiver", "loop") ELSE UNCHANGED pc
    /\ UNCHANGED <<senderVars, received_packets, flagVars, listVars, collatorVars, closeVars,
                   netVars, timeVars, undefined>>

-----------------------------------------------------------------------------
(* check_if_oldest_packet_should_be_processed and aggregateRawData, run by  *)
(* the receiver after a failed recvmsg and by the collator when its queue   *)
(* is empty.                                                                *)

(* Back to the caller's loop; the local variables go out of scope.          *)
Return(t) == Goto(t, "loop") /\ oldest' = [oldest EXCEPT ![t] = 0]

(* Mutant of Peek: the last entry of the list.                              *)
PeekNewest(t) ==
    /\ At(t, "peek")
    /\ oldest' = [oldest EXCEPT ![t] = IF Live = {} THEN 0 ELSE Len(raw_data)]
    /\ Goto(t, "judge")
    /\ UNCHANGED <<senderVars, received_packets, flagVars, observation_list, listVars, pending,
                   collatorVars, forward, stats, rows, netVars, timeVars, undefined>>

(* getOldestEntry()                                                         *)
Peek(t) ==
    /\ At(t, "peek")
    /\ oldest' = [oldest EXCEPT ![t] = IF Live = {} THEN 0 ELSE popped + 1]
    /\ Goto(t, "judge")
    /\ UNCHANGED <<senderVars, received_packets, flagVars, observation_list, listVars, pending,
                   collatorVars, forward, stats, rows, netVars, timeVars, undefined>>

(* The list was empty: once sending is over this ends the collator.         *)
JudgeEmpty(t) ==
    /\ At(t, "judge")
    /\ oldest[t] = 0
    /\ collator_finished' = (collator_finished \/ sending_completed)
    /\ Goto(t, "loop")
    /\ UNCHANGED <<senderVars, received_packets, sending_completed, collator_started,
                   observation_list, listVars, pending, collatorVars, closeVars, netVars,
                   timeVars, undefined>>

(* Mutant of MaybeExpired: an entry expires one second early.               *)
MaybeExpiredEarly(e) == {b \in BOOLEAN : IF b THEN e.age + 1 >= Timeout ELSE e.age < Timeout}

(* now - added_at > timeout, in nanoseconds.  age counts roll-overs of the  *)
(* second, so at age = Timeout the entry may or may not be past its limit.  *)
MaybeExpired(e) == {b \in BOOLEAN : IF b THEN e.age >= Timeout ELSE e.age <= Timeout}

JudgeEntry(t) ==
    /\ At(t, "judge")
    /\ oldest[t] # 0
    /\ LET e == raw_data[oldest[t]] IN
       \E expired \in MaybeExpired(e) :
          IF Complete(e.at) \/ expired
          THEN Goto(t, "forward") /\ UNCHANGED oldest
          ELSE Return(t)
    /\ UNCHANGED <<senderVars, received_packets, flagVars, observation_list, listVars, pending,
                   collatorVars, forward, stats, rows, netVars, timeVars, undefined>>

(* One more in each of these counters: sqa_stats_add_sample and             *)
(* sqa_stats_count_loss.                                                    *)
Count(counters) == [c \in Counters |-> IF c \in counters THEN stats[c] + 1 ELSE stats[c]]

(* No lock guards the statistics.  While both closers are in                *)
(* aggregateRawData one may overwrite what the other counts, in each of the *)
(* statistics independently.                                                *)
Reporting(t) == pc[t] \in {"forward", "aggregate"}
Overlapping(t) == \E u \in Closers \ {t} : Reporting(u)
Counted(t, counters) ==
    {Count(counters \ missed) : missed \in SUBSET (IF Overlapping(t) THEN counters ELSE {})}

(* The first half of aggregateRawData reads two fields, the second half all *)
(* four: the collator may set fields in between when the receiver closes.   *)
AggregateForward(t) ==
    /\ At(t, "forward")
    /\ LET at == raw_data[oldest[t]].at
           known == at["CLIENT_SEND"] # 0 /\ at["SERVER_RECEIVE"] # 0 IN
       /\ forward' = [forward EXCEPT ![t] = known]
       /\ stats' \in Counted(t, IF known THEN {"client_server"} ELSE {})
    /\ Goto(t, "aggregate")
    /\ UNCHANGED <<senderVars, received_packets, flagVars, observation_list, listVars, pending,
                   collatorVars, oldest, rows, netVars, timeVars, undefined>>

(* A sample for the way back and the server's delay, or a loss for all four *)
(* statistics; an RTT sample if either delay was computed (a delay of       *)
(* exactly 0 ns is not modelled); then the row is written, with the times   *)
(* the verdict is based on.                                                 *)
AggregateRest(t) ==
    /\ At(t, "aggregate")
    /\ LET e == raw_data[oldest[t]] IN
       /\ stats' \in
            Counted(t, (IF Complete(e.at) THEN {"server_client", "internal"} ELSE {"lost"})
                         \cup (IF Complete(e.at) \/ forward[t] THEN {"RTT"} ELSE {}))
       /\ rows' = Append(rows, [id |-> e.id, at |-> e.at, entry |-> oldest[t]])
    /\ Goto(t, "pop")
    /\ forward' = [forward EXCEPT ![t] = FALSE]
    /\ UNCHANGED <<senderVars, received_packets, flagVars, observation_list, listVars, pending,
                   collatorVars, oldest, netVars, timeVars, undefined>>

(* Mutant of Pop: removes nothing if another thread took the entry already. *)
PopIfStillOldest(t) ==
    /\ At(t, "pop")
    /\ Live # {}
    /\ popped' = IF oldest[t] = popped + 1 THEN popped + 1 ELSE popped
    /\ Return(t)
    /\ undefined' \in IF t = "receiver" /\ pc["collator"] = "find" THEN BOOLEAN ELSE {FALSE}
    /\ UNCHANGED <<senderVars, received_packets, flagVars, observation_list, raw_data, pending,
                   collatorVars, forward, stats, rows, netVars, timeVars>>

(* raw_data_list.popObservation() removes whatever is in front now.         *)
Pop(t) ==
    /\ At(t, "pop")
    /\ Live # {}
    /\ popped' = popped + 1
    /\ Return(t)
    \* the collator's iterators may be using the removed element
    /\ undefined' \in IF t = "receiver" /\ pc["collator"] = "find" THEN BOOLEAN ELSE {FALSE}
    /\ UNCHANGED <<senderVars, received_packets, flagVars, observation_list, raw_data, pending,
                   collatorVars, forward, stats, rows, netVars, timeVars>>

(* front() and pop_front() of an empty deque.                               *)
PopEmpty(t) ==
    /\ At(t, "pop")
    /\ Live = {}
    /\ undefined' = TRUE
    /\ UNCHANGED <<pc, senderVars, received_packets, flagVars, observation_list, listVars,
                   pending, collatorVars, closeVars, netVars, timeVars>>

Check(t) == \/ Peek(t) \/ JudgeEmpty(t) \/ JudgeEntry(t)
            \/ AggregateForward(t) \/ AggregateRest(t)
            \/ Pop(t) \/ PopEmpty(t)

Receiver == \/ ReceiverContinue \/ ReceiverStop
            \/ \E m \in network : RecvPacket(m) \/ RecvTruncated(m)
            \/ RecvTimeout \/ Enqueue
            \/ Check("receiver")

-----------------------------------------------------------------------------
(* Collator: runCollatorThread and process_observation                      *)

CollatorStart ==
    /\ At("collator", "start")
    /\ collator_started' = TRUE
    /\ Goto("collator", "loop")
    /\ UNCHANGED <<senderVars, received_packets, sending_completed, collator_finished,
                   observation_list, listVars, pending, collatorVars, closeVars, netVars,
                   timeVars, undefined>>

CollatorLoop ==
    /\ At("collator", "loop")
    /\ Goto("collator", IF collator_finished THEN "done" ELSE "poll")
    /\ UNCHANGED <<senderVars, received_packets, flagVars, observation_list, listVars, pending,
                   collatorVars, closeVars, netVars, timeVars, undefined>>

(* Mutant of CollatorPoll: the test of isEmpty() is missing.                *)
CollatorPollUntested ==
    /\ At("collator", "poll")
    /\ Goto("collator", "pop_obs")
    /\ UNCHANGED <<senderVars, received_packets, flagVars, observation_list, listVars, pending,
                   collatorVars, closeVars, netVars, timeVars, undefined>>

(* observation_list.isEmpty(), read without the lock.                       *)
CollatorPoll ==
    /\ At("collator", "poll")
    /\ Goto("collator", IF observation_list = <<>> THEN "peek" ELSE "pop_obs")
    /\ UNCHANGED <<senderVars, received_packets, flagVars, observation_list, listVars, pending,
                   collatorVars, closeVars, netVars, timeVars, undefined>>

(* Mutant of CollatorPopObs: takes the newest observation.                  *)
CollatorPopObsNewest ==
    /\ At("collator", "pop_obs")
    /\ tmp_obs' = observation_list[Len(observation_list)]
    /\ observation_list' = SubSeq(observation_list, 1, Len(observation_list) - 1)
    /\ Goto("collator", "find")
    /\ UNCHANGED <<senderVars, received_packets, flagVars, listVars, pending, entry, closeVars,
                   netVars, timeVars, undefined>>

CollatorPopObs ==
    /\ At("collator", "pop_obs")
    /\ tmp_obs' = Head(observation_list)
    /\ observation_list' = Tail(observation_list)
    /\ Goto("collator", "find")
    /\ UNCHANGED <<senderVars, received_packets, flagVars, listVars, pending, entry, closeVars,
                   netVars, timeVars, undefined>>

(* Mutant of Matching: only the front entry is looked at.                   *)
MatchingFront(id) == {i \in Live : i = popped + 1 /\ raw_data[i].id = id}

(* The loop over raw_data_list: the first live entry with the packet's id.  *)
Matching(id) == {i \in Live : raw_data[i].id = id}
IsFirstMatch(i, id) == \A j \in Matching(id) : i <= j

CollatorFind ==
    /\ At("collator", "find")
    /\ \/ Matching(tmp_obs.id) = {} /\ entry' = 0
       \/ entry' \in {i \in Matching(tmp_obs.id) : IsFirstMatch(i, tmp_obs.id)}
    /\ Goto("collator", "update")
    /\ UNCHANGED <<senderVars, received_packets, flagVars, observation_list, listVars, pending,
                   tmp_obs, closeVars, netVars, timeVars, undefined>>

NewEntry(o) ==
    [id |-> o.id, age |-> 0,
     at |-> [p \in ObservationPoints |-> IF p = o.point THEN o.stamp ELSE 0]]

(* The setter for the observation point.                                    *)
Stamped(e, o) == [e EXCEPT !.at[o.point] = o.stamp]

(* Store the timestamp, in the entry found or in a new one that is pushed.  *)
CollatorUpdate ==
    /\ At("collator", "update")
    /\ raw_data' =
         IF entry # 0
         THEN [raw_data EXCEPT ![entry] = Stamped(raw_data[entry], tmp_obs)]
         ELSE Append(raw_data, NewEntry(tmp_obs))
    /\ Goto("collator", "loop")
    /\ tmp_obs' = NoObservation /\ entry' = 0
    /\ UNCHANGED <<senderVars, received_packets, flagVars, observation_list, popped, pending,
                   closeVars, netVars, timeVars, undefined>>

Collator == \/ CollatorStart \/ CollatorLoop \/ CollatorPoll
            \/ CollatorPopObs \/ CollatorFind \/ CollatorUpdate
            \/ Check("collator")

-----------------------------------------------------------------------------
(* Environment                                                              *)

(* A request, or the reply to it, is lost on the way.                       *)
Lose(m) ==
    /\ ~undefined /\ Lossy
    /\ network' = network \ {m}
    /\ UNCHANGED <<pc, senderVars, received_packets, flagVars, observation_list, listVars,
                   pending, collatorVars, closeVars, duplicated, in_time, timeVars, undefined>>

(* The sender sleeps or is done, the receiver waits for a reply and its     *)
(* timeout has not come, and the collator sleeps and finds nothing to do:   *)
(* it looks at the oldest entry only.                                       *)
Quiet ==
    /\ pc["sender"] = "done" \/ (pc["sender"] = "send" /\ next_remote = 1)
    /\ \/ pc["receiver"] = "done"
       \/ pc["receiver"] = "recv" /\ (Timeout # 0 => recv_wait < Timeout)
    /\ network = {} \/ SlowReplies
    /\ \/ pc["collator"] = "done"
       \/ /\ pc["collator"] = "loop" /\ ~collator_finished
          /\ observation_list = <<>>
          /\ Live = {} => ~sending_completed
          /\ Live # {} => /\ ~Complete(raw_data[popped + 1].at)
                          /\ raw_data[popped + 1].age <= Timeout

(* An entry whose age a thread may still look at; the age of any other is   *)
(* forgotten.                                                               *)
InUse(i) == i \in Live \/ \E t \in Closers : oldest[t] = i

Tick ==
    /\ ~undefined /\ ~AllDone
    /\ Prompt => Quiet
    /\ uptime' = Saturate(uptime, Runtime)
    /\ since_completed' = IF sending_completed THEN Saturate(since_completed, Horizon)
                                               ELSE since_completed
    /\ recv_wait' = IF pc["receiver"] = "recv" THEN Saturate(recv_wait, Timeout) ELSE recv_wait
    /\ raw_data' = [i \in 1..Len(raw_data) |->
                       IF InUse(i) THEN [raw_data[i] EXCEPT !.age = Saturate(@, Timeout + 1)]
                                   ELSE [raw_data[i] EXCEPT !.age = 0]]
    /\ UNCHANGED <<pc, senderVars, received_packets, flagVars, observation_list, popped,
                   pending, collatorVars, closeVars, netVars, undefined>>

(* The process has exited, or what it does next is not defined.             *)
Terminating == (AllDone \/ undefined) /\ UNCHANGED vars

Next == \/ Sender \/ Receiver \/ Collator
        \/ \E m \in network : Lose(m)
        \/ Tick
        \/ Terminating

Spec == Init /\ [][Next]_vars

(* Each thread runs whenever it can, and time passes.                       *)
FairSpec == Spec /\ WF_vars(Sender) /\ WF_vars(Receiver) /\ WF_vars(Collator) /\ WF_vars(Tick)

-----------------------------------------------------------------------------
(* Properties                                                               *)

(* Every variable has its type; a closer's oldest and the collator's entry  *)
(* point to existing RawData objects whenever they are dereferenced.        *)
TypeOK ==
    /\ pc \in [Threads -> Labels]
    /\ pc["sender"] \in SenderLabels
    /\ pc["receiver"] \in ReceiverLabels
    /\ pc["collator"] \in CollatorLabels
    /\ index \in Nat /\ next_remote \in Remotes
    /\ sent_packets \in Nat /\ received_packets \in Nat
    /\ sending_completed \in BOOLEAN
    /\ collator_started \in BOOLEAN /\ collator_finished \in BOOLEAN
    /\ observation_list \in Seq(Observation)
    /\ raw_data \in Seq(RawData)
    /\ popped \in 0..Len(raw_data)
    /\ pending \in Seq(Observation)
    /\ pc["receiver"] = "enqueue" => pending # <<>>
    /\ tmp_obs \in Observation
    /\ entry \in 0..Len(raw_data)
    /\ oldest \in [Closers -> 0..Len(raw_data)]
    /\ \A t \in Closers : pc[t] \in {"forward", "aggregate"} => oldest[t] # 0
    /\ forward \in [Closers -> BOOLEAN]
    /\ stats \in [Counters -> Nat]
    /\ rows \in Seq(Row)
    /\ network \subseteq Message /\ duplicated \in Nat /\ in_time \subseteq Nat
    /\ uptime \in 0..Runtime /\ since_completed \in 0..Horizon /\ recv_wait \in 0..Timeout
    /\ undefined \in BOOLEAN

(* ObservationList::popObservation does not test for an empty deque and its *)
(* caller tests isEmpty() without the lock: the pop is safe all the same,   *)
(* whatever the two producers do between the test and the pop.              *)
ObservationPopSafe == pc["collator"] = "pop_obs" => observation_list # <<>>

(* process_observation looks a packet up and pushes a new entry in separate *)
(* steps while the receiver removes entries: still no two entries in        *)
(* raw_data_list are for the same packet.                                   *)
LiveEntriesDistinct ==
    \A i, j \in Live : raw_data[i].id = raw_data[j].id => i = j

(* An entry, or an observation, may come before the CLIENT_SEND time of     *)
(* packet k.                                                                *)
HasSend(e) == e.at["CLIENT_SEND"] # 0
EntryBefore(e, k) == e.id <= k /\ (HasSend(e) => e.id < k)
IsSend(o) == o.point = "CLIENT_SEND"
ObsBefore(o, k) == o.id <= k /\ (IsSend(o) => o.id < k)

(* raw_data_list holds the packets in the order they were sent, whatever    *)
(* the order of the replies: an entry with its CLIENT_SEND time never       *)
(* follows an entry for a later packet, and no two entries, even of         *)
(* different times, have the CLIENT_SEND time of the same packet.           *)
EntriesInSendOrder ==
    \A j \in 1..Len(raw_data) : HasSend(raw_data[j]) =>
        \A i \in 1..j - 1 : EntryBefore(raw_data[i], raw_data[j].id)

(* The induction behind EntriesInSendOrder.                                 *)
Processing == pc["collator"] \in {"find", "update"}

(* Nothing is known of a packet before the sender reaches its number, and   *)
(* its CLIENT_SEND time is not known before the sender has left it behind.  *)
NothingFromTheFuture ==
    /\ \A m \in network : m.id <= index
    /\ \A i \in 1..Len(pending) : pending[i].id <= index /\ ~IsSend(pending[i])
    /\ \A i \in 1..Len(observation_list) : ObsBefore(observation_list[i], index)
    /\ Processing => ObsBefore(tmp_obs, index)
    /\ \A i \in 1..Len(raw_data) : EntryBefore(raw_data[i], index)

(* What precedes a CLIENT_SEND observation in the pipeline (observation     *)
(* list, observation being processed, raw data) is about earlier packets.   *)
PipelineInSendOrder ==
    /\ \A q \in 1..Len(observation_list) : IsSend(observation_list[q]) =>
         /\ \A p \in 1..q - 1 : ObsBefore(observation_list[p], observation_list[q].id)
         /\ Processing => ObsBefore(tmp_obs, observation_list[q].id)
         /\ \A i \in 1..Len(raw_data) : EntryBefore(raw_data[i], observation_list[q].id)
    /\ Processing /\ IsSend(tmp_obs) =>
         \A i \in 1..Len(raw_data) : EntryBefore(raw_data[i], tmp_obs.id)

(* The entry process_observation found is for the observation's packet; if  *)
(* it found none there is still none.                                       *)
LookupStillValid ==
    pc["collator"] = "update" =>
        /\ entry # 0 => raw_data[entry].id = tmp_obs.id
        /\ entry = 0 => \A i \in Live : raw_data[i].id # tmp_obs.id

(* The inductive invariant of the pipeline.                                 *)
PipelineInv == /\ NothingFromTheFuture /\ PipelineInSendOrder
               /\ LookupStillValid /\ EntriesInSendOrder /\ LiveEntriesDistinct

(* How many closers have aggregated an entry and not yet popped one.        *)
Popping == (IF pc["receiver"] = "pop" THEN 1 ELSE 0) + (IF pc["collator"] = "pop" THEN 1 ELSE 0)

(* An entry was given two verdicts, or is about to be: the two closers      *)
(* judged it at the same time, or one of them after the other.              *)
TwoVerdicts ==
    \/ \E i, j \in 1..Len(rows) : i # j /\ rows[i].entry = rows[j].entry
    \/ \E t \in Closers, i \in 1..Len(rows) : Reporting(t) /\ rows[i].entry = oldest[t]
    \/ \A t \in Closers : Reporting(t) /\ oldest[t] = oldest["collator"]

(* Every verdict goes with exactly one removal from raw_data_list, which    *)
(* happened or is about to, although two threads close entries; and the     *)
(* statistics, which they update without a lock, count every verdict unless *)
(* an entry got two of them: nothing else makes the updates overlap.        *)
VerdictsMatchPops ==
    /\ Len(rows) = popped + Popping
    /\ stats["lost"] + stats["server_client"] <= Len(rows)
    /\ ~TwoVerdicts => stats["lost"] + stats["server_client"] = Len(rows)

(* What check_if_oldest_packet_should_be_processed removes, in either       *)
(* thread and in whatever order they run, is the entry it judged and        *)
(* reported, unless an entry got two verdicts.                              *)
PopRemovesJudged ==
    TwoVerdicts \/ \A t \in Closers : pc[t] = "pop" => oldest[t] = popped + 1

(* The client exits (main() joins all its threads) whatever the network     *)
(* loses, duplicates or delays, unless the race on raw_data_list reaches    *)
(* undefined behaviour first.                                               *)
Termination == <>(AllDone \/ undefined)

(* A packet gets at most one verdict: no two rows have the same packet id.  *)
VerdictOnce ==
    \A i, j \in 1..Len(rows) : rows[i].id = rows[j].id => i = j

(* The packets whose CLIENT_SEND time was queued for the collator.          *)
Recorded ==
    {raw_data[i].id : i \in {i \in 1..Len(raw_data) : HasSend(raw_data[i])}}
    \cup {observation_list[i].id :
            i \in {i \in 1..Len(observation_list) : IsSend(observation_list[i])}}
    \cup (IF Processing /\ IsSend(tmp_obs) THEN {tmp_obs.id} ELSE {})

(* The collator starts while packets are already being sent, and what was   *)
(* sent before that is not recorded; but then the record has no gap: with   *)
(* no failing sendmsg, every later packet is in it.                         *)
NoGapInRecord == \A k \in Recorded : k..index - 1 \subseteq Recorded

(* A packet is not reported lost if its reply was read before the timeout:  *)
(* neither the other expiring packets, nor the order of its observations,   *)
(* nor the receiver closing entries while they are still in the queue makes *)
(* it incomplete.  Exempt are the collator that ended too early and the     *)
(* entry that got two verdicts.                                             *)
NoFalseLoss ==
    \/ collator_finished
    \/ TwoVerdicts
    \/ \A i \in 1..Len(rows) :
           HasSend(rows[i]) /\ rows[i].id \in in_time => Complete(rows[i].at)

(* A row is not made of a part of a reply: the three times that one reply   *)
(* brings, queued in three steps, are reported together or not at all.      *)
NoSplitReply ==
    \A i \in 1..Len(rows) :
        \A p, q \in ObservationPoints \ {"CLIENT_SEND"} : rows[i].at[p] = rows[i].at[q]

(* The receiver tests the time limit before each recvmsg, which may block   *)
(* for the whole timeout, and a reply that comes then may make an entry     *)
(* that needs a timeout of its own: a prompt client ends, but the limit is  *)
(* three timeouts after the last packet.                                    *)
EndsInTime == ~AllDone /\ ~undefined => since_completed <= 3 * Timeout
=============================================================================
