------------------------- MODULE TwampClientProofs -------------------------
(***************************************************************************)
(* Safety of the client's pipeline for every number of packets, remotes,   *)
(* duplicates and every timeout, with any of the switches on or off.       *)
(***************************************************************************)
EXTENDS TwampClient, SequenceTheorems, TLAPS

USE NumSamplesAssumption, RuntimeAssumption, TimeoutAssumption, RemotesAssumption,
    BoundsAssumption, SwitchesAssumption

-----------------------------------------------------------------------------
(* Lemmas about sequences                                                   *)

(* Replacing an element by another of the same set keeps a sequence typed.  *)
LEMMA ReplaceTyped ==
    ASSUME NEW S, NEW s \in Seq(S), NEW i \in 1..Len(s), NEW e \in S
    PROVE  /\ [s EXCEPT ![i] = e] \in Seq(S)
           /\ Len([s EXCEPT ![i] = e]) = Len(s)
  OBVIOUS

(* A function on 1..n is a sequence of length n.                            *)
LEMMA FunctionIsSeq ==
    ASSUME NEW S, NEW n \in Nat, NEW f \in [1..n -> S]
    PROVE  f \in Seq(S) /\ Len(f) = n
  OBVIOUS

(* What appending does.                                                     *)
LEMMA AppendTyped ==
    ASSUME NEW S, NEW s \in Seq(S), NEW e \in S
    PROVE  /\ Append(s, e) \in Seq(S)
           /\ Len(Append(s, e)) = Len(s) + 1
           /\ \A i \in 1..Len(s) : Append(s, e)[i] = s[i]
           /\ Append(s, e)[Len(s) + 1] = e
  OBVIOUS

(* What removing the head does.                                             *)
LEMMA TailTyped ==
    ASSUME NEW S, NEW s \in Seq(S), s # <<>>
    PROVE  /\ Head(s) \in S /\ Head(s) = s[1]
           /\ Tail(s) \in Seq(S)
           /\ Len(s) \in Nat \ {0}
           /\ Len(Tail(s)) = Len(s) - 1
           /\ \A i \in 1..Len(Tail(s)) : Tail(s)[i] = s[i + 1]
  OBVIOUS

-----------------------------------------------------------------------------
(* Type correctness, and the safety of ObservationList::popObservation      *)

Typed == TypeOK /\ ObservationPopSafe

(* The members of Client have their types before the threads start.         *)
LEMMA TypedInit == Init => Typed
<1> SUFFICES ASSUME Init PROVE Typed
  OBVIOUS
<1>1. /\ pc \in [Threads -> Labels]
      /\ pc["sender"] = "loop" /\ pc["receiver"] = "loop"
      /\ pc["collator"] \in {"start", "done"}
  BY DEF Init, Threads, Labels, SenderLabels, ReceiverLabels, CollatorLabels, CheckLabels
<1>2. /\ oldest \in [Closers -> 0..Len(raw_data)] /\ forward \in [Closers -> BOOLEAN]
      /\ tmp_obs \in Observation /\ stats \in [Counters -> Nat] /\ next_remote \in Remotes
  BY DEF Init, Closers, Observation, NoObservation, ObservationPoints, Remotes
<1>3. /\ sending_completed \in BOOLEAN /\ collator_started \in BOOLEAN
      /\ collator_finished \in BOOLEAN /\ undefined \in BOOLEAN
  BY DEF Init
<1>4. /\ observation_list \in Seq(Observation) /\ raw_data \in Seq(RawData)
      /\ pending \in Seq(Observation) /\ rows \in Seq(Row) /\ network \subseteq Message
      /\ popped \in 0..Len(raw_data) /\ entry \in 0..Len(raw_data)
  BY DEF Init
<1>5. /\ index \in Nat /\ sent_packets \in Nat /\ received_packets \in Nat /\ duplicated \in Nat
      /\ in_time \subseteq Nat
      /\ uptime \in 0..Runtime /\ since_completed \in 0..Horizon /\ recv_wait \in 0..Timeout
  BY DEF Init
<1> QED
  BY <1>1, <1>2, <1>3, <1>4, <1>5
     DEF Typed, TypeOK, ObservationPopSafe, SenderLabels, ReceiverLabels,
         CollatorLabels, CheckLabels, Closers

(* The entry process_observation makes, and the one it writes to.           *)
LEMMA NewEntryTyped ==
    ASSUME NEW o \in Observation
    PROVE  /\ NewEntry(o) \in RawData
           /\ NewEntry(o).id = o.id
           /\ HasSend(NewEntry(o)) <=> IsSend(o)
  BY DEF NewEntry, RawData, Observation, Stamps, Remotes, HasSend, IsSend, ObservationPoints

(* A setter keeps an entry's id, and only CLIENT_SEND sets its send time.   *)
LEMMA StampedTyped ==
    ASSUME NEW e \in RawData, NEW o \in Observation
    PROVE  /\ Stamped(e, o) \in RawData
           /\ Stamped(e, o).id = e.id
           /\ HasSend(Stamped(e, o)) <=> (HasSend(e) \/ IsSend(o))
<1> DEFINE at1 == [e.at EXCEPT ![o.point] = o.stamp]
<1>1. e.at \in [ObservationPoints -> Stamps]
  BY DEF RawData
<1>2. o.point \in ObservationPoints /\ o.stamp \in Remotes /\ o.stamp \in Stamps /\ o.stamp # 0
  BY DEF Observation, Remotes, Stamps
<1>3. at1 \in [ObservationPoints -> Stamps]
  BY <1>1, <1>2
<1>4. Stamped(e, o) = [e EXCEPT !.at = at1]
  BY DEF Stamped
<1>5. Stamped(e, o) \in RawData /\ Stamped(e, o).id = e.id /\ Stamped(e, o).at = at1
  BY <1>3, <1>4 DEF RawData
<1>6. at1["CLIENT_SEND"] = IF o.point = "CLIENT_SEND" THEN o.stamp ELSE e.at["CLIENT_SEND"]
  BY <1>1 DEF ObservationPoints
<1> QED
  BY <1>2, <1>5, <1>6 DEF HasSend, IsSend

(* A saturating counter stays within its limit.                             *)
LEMMA SaturateTyped ==
    ASSUME NEW limit \in Nat, NEW n \in 0..limit
    PROVE  Saturate(n, limit) \in 0..limit
  BY DEF Saturate

(* Ageing changes the age only.                                             *)
LEMMA AgedTyped ==
    ASSUME NEW e \in RawData
    PROVE  LET f == [e EXCEPT !.age = Saturate(@, Timeout + 1)] IN
           f \in RawData /\ f.id = e.id /\ f.at = e.at
  BY DEF RawData, Saturate

(* So does forgetting the age.                                              *)
LEMMA AgelessTyped ==
    ASSUME NEW e \in RawData
    PROVE  LET f == [e EXCEPT !.age = 0] IN
           f \in RawData /\ f.id = e.id /\ f.at = e.at
  BY DEF RawData

(* The steps that write sequences or records.                               *)
LEMMA TypedQueues ==
    ASSUME Typed
    PROVE  /\ observation_list \in Seq(Observation) /\ pending \in Seq(Observation)
           /\ raw_data \in Seq(RawData) /\ rows \in Seq(Row) /\ tmp_obs \in Observation
           /\ Len(raw_data) \in Nat /\ index \in Nat /\ popped \in 0..Len(raw_data)
           /\ network \subseteq Message
  BY DEF Typed, TypeOK

(* enqueue_observation moves the head of pending to the end of the list.    *)
LEMMA EnqueueQueues ==
    ASSUME Typed, Enqueue
    PROVE  /\ pending # <<>> /\ Head(pending) \in Observation /\ pending' \in Seq(Observation)
           /\ Len(pending) # 1 => pending' # <<>>
           /\ observation_list' \in Seq(Observation) /\ observation_list' # <<>>
<1>1. pending # <<>> /\ pending' = Tail(pending)
      /\ observation_list' = Append(observation_list, Head(pending))
  BY DEF Enqueue, Typed, TypeOK, At
<1>2. Head(pending) \in Observation /\ pending' \in Seq(Observation)
      /\ Len(pending') = Len(pending) - 1 /\ Len(pending) \in Nat \ {0}
  BY <1>1, TypedQueues, TailTyped
<1>3. Len(pending) # 1 => pending' # <<>>
  BY <1>2
<1>4. /\ observation_list' \in Seq(Observation)
      /\ Len(observation_list') = Len(observation_list) + 1
  BY <1>1, <1>2, TypedQueues, AppendTyped
<1> QED
  BY <1>1, <1>2, <1>3, <1>4, TypedQueues

(* The sender's observation keeps the list a list of observations.          *)
LEMMA ObserveQueue ==
    ASSUME Typed, SenderObserve
    PROVE  /\ observation_list' \in Seq(Observation)
           /\ observation_list # <<>> => observation_list' # <<>>
<1> DEFINE o == [point |-> "CLIENT_SEND", id |-> index, stamp |-> 1]
<1>1. o \in Observation
  BY TypedQueues DEF Observation, ObservationPoints, Remotes
<1>2. observation_list' = Append(observation_list, o) \/ observation_list' = observation_list
  BY DEF SenderObserve
<1> HIDE DEF o
<1>3. /\ Append(observation_list, o) \in Seq(Observation)
      /\ Append(observation_list, o) # <<>>
  <2>1. /\ Append(observation_list, o) \in Seq(Observation)
        /\ Len(Append(observation_list, o)) = Len(observation_list) + 1
    BY <1>1, TypedQueues, AppendTyped
  <2>2. Len(observation_list) \in Nat
    BY TypedQueues
  <2> QED
    BY <2>1, <2>2
<1> QED
  BY <1>2, <1>3, TypedQueues

(* process_observation changes one entry or adds one, and removes none.     *)
LEMMA UpdateRawData ==
    ASSUME Typed, CollatorUpdate
    PROVE  raw_data' \in Seq(RawData) /\ Len(raw_data') >= Len(raw_data)
<1>1. CASE entry # 0
  <2>1. raw_data' = [raw_data EXCEPT ![entry] = Stamped(raw_data[entry], tmp_obs)]
    BY <1>1 DEF CollatorUpdate
  <2>2. entry \in 1..Len(raw_data)
    BY <1>1 DEF Typed, TypeOK
  <2>3. raw_data[entry] \in RawData
    BY <2>2, TypedQueues
  <2> QED
    BY <2>1, <2>2, <2>3, TypedQueues, StampedTyped, ReplaceTyped
<1>2. CASE entry = 0
  BY <1>2, TypedQueues, NewEntryTyped, AppendTyped DEF CollatorUpdate
<1> QED
  BY <1>1, <1>2

(* Time changes nothing of an entry but its age.                            *)
LEMMA TickRawData ==
    ASSUME Typed, Tick
    PROVE  /\ raw_data' \in Seq(RawData) /\ Len(raw_data') = Len(raw_data)
           /\ \A i \in 1..Len(raw_data) : /\ raw_data'[i].id = raw_data[i].id
                                          /\ raw_data'[i].at = raw_data[i].at
<1>1. raw_data' = [i \in 1..Len(raw_data) |->
                      IF InUse(i) THEN [raw_data[i] EXCEPT !.age = Saturate(@, Timeout + 1)]
                                  ELSE [raw_data[i] EXCEPT !.age = 0]]
  BY DEF Tick
<1>2. \A i \in 1..Len(raw_data) : raw_data[i] \in RawData
  BY TypedQueues
<1>3. \A i \in 1..Len(raw_data) : /\ raw_data'[i] \in RawData
                                  /\ raw_data'[i].id = raw_data[i].id
                                  /\ raw_data'[i].at = raw_data[i].at
  BY <1>1, <1>2, AgedTyped, AgelessTyped
<1>4. raw_data' \in [1..Len(raw_data) -> RawData]
  BY <1>1, <1>3
<1> QED
  BY <1>3, <1>4, TypedQueues, FunctionIsSeq

(* aggregateRawData keeps the statistics counters.                          *)
LEMMA AggregatedStats ==
    ASSUME Typed, NEW t \in Closers, AggregateForward(t) \/ AggregateRest(t)
    PROVE  stats' \in [Counters -> Nat]
<1>1. stats \in [Counters -> Nat]
  BY DEF Typed, TypeOK
<1>2. ASSUME NEW S PROVE Count(S) \in [Counters -> Nat]
  BY <1>1 DEF Count
<1>3. ASSUME NEW S PROVE Counted(t, S) \subseteq [Counters -> Nat]
  BY <1>2 DEF Counted
<1>4. \E S : stats' \in Counted(t, S)
  BY DEF AggregateForward, AggregateRest
<1> QED
  BY <1>3, <1>4

(* aggregateRawData writes one row.                                         *)
LEMMA AggregatedRows ==
    ASSUME Typed, NEW t \in Closers, AggregateRest(t)
    PROVE  rows' \in Seq(Row) /\ Len(rows') = Len(rows) + 1
<1>1. oldest[t] \in 1..Len(raw_data)
  <2>1. pc[t] = "aggregate"
    BY DEF AggregateRest, At
  <2>2. oldest[t] # 0 /\ oldest[t] \in 0..Len(raw_data)
    BY <2>1 DEF Typed, TypeOK
  <2> QED
    BY <2>2, TypedQueues
<1>2. raw_data[oldest[t]] \in RawData /\ oldest[t] \in Nat
  BY <1>1, TypedQueues
<1>3. [id |-> raw_data[oldest[t]].id, at |-> raw_data[oldest[t]].at,
        entry |-> oldest[t]] \in Row
  BY <1>2 DEF RawData, Row
<1> QED
  BY <1>3, TypedQueues, AppendTyped DEF AggregateRest

(* Every step of every thread keeps the types and the safety of the pop.    *)
LEMMA TypedStep ==
    ASSUME Typed, Next
    PROVE  Typed'
<1> USE DEF Typed, TypeOK, ObservationPopSafe, Threads, Closers, Labels, SenderLabels,
            ReceiverLabels, CollatorLabels, CheckLabels, At, Goto, senderVars, collatorVars,
            listVars, closeVars, netVars, timeVars, flagVars
<1>1. CASE SenderNext
  BY <1>1 DEF SenderNext
<1>2. CASE SenderDone
  BY <1>2 DEF SenderDone
<1>3. CASE SendOk
  BY <1>3 DEF SendOk, Message, Remotes
<1>4. CASE SendFail
  BY <1>4 DEF SendFail, Remotes
<1>5. CASE SenderObserve
  BY <1>5, ObserveQueue DEF SenderObserve
<1>6. CASE ReceiverContinue
  BY <1>6 DEF ReceiverContinue
<1>7. CASE ReceiverStop
  BY <1>7 DEF ReceiverStop
<1>8. ASSUME NEW m \in network, RecvPacket(m) PROVE Typed'
  <2>1. ReplyObservations(m) \in Seq(Observation) /\ ReplyObservations(m) # <<>>
    BY DEF ReplyObservations, Message, Observation, ObservationPoints
  <2>2. network' \subseteq Message /\ duplicated' \in Nat
    BY <1>8 DEF RecvPacket, Deliver
  <2>3. m.id \in Nat
    BY DEF Message
  <2>4. in_time' \subseteq Nat
    BY <1>8, <2>3 DEF RecvPacket
  <2> QED
    BY <1>8, <2>1, <2>2, <2>4 DEF RecvPacket
<1>9. ASSUME NEW m \in network, RecvTruncated(m) PROVE Typed'
  BY <1>9 DEF RecvTruncated, Deliver
<1>10. CASE RecvTimeout
  BY <1>10 DEF RecvTimeout
<1>11. CASE Enqueue
  BY <1>11, EnqueueQueues DEF Enqueue
<1>12. CASE CollatorStart
  BY <1>12 DEF CollatorStart
<1>13. CASE CollatorLoop
  BY <1>13 DEF CollatorLoop
<1>14. CASE CollatorPoll
  BY <1>14 DEF CollatorPoll
<1>15. CASE CollatorPopObs
  BY <1>15 DEF CollatorPopObs
<1>16. CASE CollatorFind
  BY <1>16 DEF CollatorFind, Matching, Live
<1>17. CASE CollatorUpdate
  <2>1. NoObservation \in Observation
    BY DEF NoObservation, Observation, ObservationPoints, Remotes
  <2>2. /\ raw_data' \in Seq(RawData) /\ Len(raw_data') >= Len(raw_data)
        /\ Len(raw_data) \in Nat /\ Len(raw_data') \in Nat
    BY <1>17, UpdateRawData
  <2>3. /\ popped' \in 0..Len(raw_data') /\ entry' \in 0..Len(raw_data')
        /\ oldest' \in [Closers -> 0..Len(raw_data')]
    BY <1>17, <2>2 DEF CollatorUpdate
  <2> QED
    BY <1>17, <2>1, <2>2, <2>3 DEF CollatorUpdate
<1>18. ASSUME NEW m \in network, Lose(m) PROVE Typed'
  BY <1>18 DEF Lose
<1>19. CASE Tick
  <2>1. uptime' \in 0..Runtime /\ since_completed' \in 0..Horizon /\ recv_wait' \in 0..Timeout
    BY <1>19, SaturateTyped DEF Tick
  <2>2. /\ popped' \in 0..Len(raw_data') /\ entry' \in 0..Len(raw_data')
        /\ oldest' \in [Closers -> 0..Len(raw_data')]
    BY <1>19, TickRawData DEF Tick
  <2>3. UNCHANGED <<pc, senderVars, received_packets, flagVars, observation_list, pending,
                    tmp_obs, closeVars, netVars, undefined>>
    BY <1>19 DEF Tick
  <2>4. raw_data' \in Seq(RawData)
    BY <1>19, TickRawData
  <2> QED
    BY <2>1, <2>2, <2>3, <2>4
<1>20. ASSUME NEW t \in Closers, Peek(t) PROVE Typed'
  BY <1>20 DEF Peek, Return, Live
<1>21. ASSUME NEW t \in Closers, JudgeEmpty(t) PROVE Typed'
  BY <1>21 DEF JudgeEmpty, Return, Live
<1>22. ASSUME NEW t \in Closers, JudgeEntry(t) PROVE Typed'
  BY <1>22 DEF JudgeEntry, Return, Live
<1>23. ASSUME NEW t \in Closers, AggregateForward(t) PROVE Typed'
  <2>1. forward' \in [Closers -> BOOLEAN]
    BY <1>23 DEF AggregateForward
  <2>2. stats' \in [Counters -> Nat]
    BY <1>23, AggregatedStats
  <2>3. /\ pc[t] = "forward" /\ pc' = [pc EXCEPT ![t] = "aggregate"]
        /\ UNCHANGED <<senderVars, received_packets, flagVars, observation_list, listVars,
                       pending, collatorVars, oldest, rows, netVars, timeVars, undefined>>
    BY <1>23 DEF AggregateForward
  <2> QED
    BY <2>1, <2>2, <2>3
<1>24. ASSUME NEW t \in Closers, AggregateRest(t) PROVE Typed'
  <2>1. forward' \in [Closers -> BOOLEAN]
    BY <1>24 DEF AggregateRest
  <2>2. stats' \in [Counters -> Nat] /\ rows' \in Seq(Row)
    BY <1>24, AggregatedStats, AggregatedRows
  <2>3. /\ pc[t] = "aggregate" /\ pc' = [pc EXCEPT ![t] = "pop"]
        /\ UNCHANGED <<senderVars, received_packets, flagVars, observation_list, listVars,
                       pending, collatorVars, oldest, netVars, timeVars, undefined>>
    BY <1>24 DEF AggregateRest
  <2> QED
    BY <2>1, <2>2, <2>3
<1>25. ASSUME NEW t \in Closers, Pop(t) PROVE Typed'
  <2>1. popped' \in 0..Len(raw_data)
    BY <1>25 DEF Pop, Live
  <2>2. undefined' \in BOOLEAN
    BY <1>25 DEF Pop
  <2> QED
    BY <1>25, <2>1, <2>2 DEF Pop, Return
<1>26. ASSUME NEW t \in Closers, PopEmpty(t) PROVE Typed'
  BY <1>26 DEF PopEmpty, Return, Live
<1>27. CASE Terminating
  BY <1>27 DEF Terminating, vars
<1>28. QED
  BY <1>1, <1>2, <1>3, <1>4, <1>5, <1>6, <1>7, <1>8, <1>9, <1>10, <1>11, <1>12, <1>13, <1>14, <1>15, <1>16, <1>17, <1>18, <1>19, <1>20, <1>21, <1>22, <1>23, <1>24, <1>25, <1>26, <1>27
     DEF Next, Sender, Receiver, Collator, Check

(* Every step of every thread keeps the types.                              *)
LEMMA TypedCorrect == Spec => []Typed
<1>1. Typed /\ UNCHANGED vars => Typed'
  BY DEF Typed, TypeOK, ObservationPopSafe, vars, senderVars, collatorVars, listVars,
         closeVars, netVars, timeVars, flagVars
<1>2. Typed /\ [Next]_vars => Typed'
  BY <1>1, TypedStep
<1> QED
  BY <1>2, TypedInit, PTL DEF Spec

(* Every variable keeps its type, and a closing thread's oldest is not null *)
(* where it is dereferenced.                                                *)
THEOREM TypeCorrect == Spec => []TypeOK
  BY TypedCorrect, PTL DEF Typed

(* The collator's pop of the observation list is safe, although it tests    *)
(* isEmpty() without the lock: only the collator removes observations.      *)
THEOREM PopSafe == Spec => []ObservationPopSafe
  BY TypedCorrect, PTL DEF Typed

-----------------------------------------------------------------------------
(* The order of the packets in the pipeline                                 *)

(* The pipeline is empty at first.                                          *)
LEMMA PipelineInit == Init => PipelineInv
  BY DEF Init, PipelineInv, NothingFromTheFuture, PipelineInSendOrder, LookupStillValid,
         EntriesInSendOrder, LiveEntriesDistinct, Live, Processing, Threads

(* The types of what the invariant compares.                                *)
LEMMA PipelineTypes ==
    ASSUME Typed
    PROVE  /\ index \in Nat /\ popped \in Nat /\ popped <= Len(raw_data)
           /\ Len(raw_data) \in Nat /\ Len(observation_list) \in Nat /\ Len(pending) \in Nat
           /\ \A i \in 1..Len(raw_data) : raw_data[i] \in RawData /\ raw_data[i].id \in Nat
           /\ \A i \in 1..Len(observation_list) :
                 observation_list[i] \in Observation /\ observation_list[i].id \in Nat
           /\ tmp_obs \in Observation /\ tmp_obs.id \in Nat
           /\ \A m \in network : m.id \in Nat
           /\ \A i \in 1..Len(pending) : pending[i].id \in Nat
<1>1. \A i \in 1..Len(raw_data) : raw_data[i] \in RawData
  BY TypedQueues
<1>2. \A i \in 1..Len(observation_list) : observation_list[i] \in Observation
  BY TypedQueues
<1>3. \A e \in RawData : e.id \in Nat
  BY DEF RawData
<1>4. \A o \in Observation : o.id \in Nat
  BY DEF Observation
<1>5. \A m \in Message : m.id \in Nat
  BY DEF Message
<1>6. \A i \in 1..Len(pending) : pending[i] \in Observation
  BY TypedQueues
<1> QED
  BY <1>1, <1>2, <1>3, <1>4, <1>5, <1>6, TypedQueues

(* What may come before packet k may come before a later one.               *)
LEMMA BeforeMonotone ==
    ASSUME NEW k \in Nat, NEW l \in Nat, k <= l
    PROVE  /\ \A o \in Observation : ObsBefore(o, k) => ObsBefore(o, l)
           /\ \A e \in RawData : EntryBefore(e, k) => EntryBefore(e, l)
<1>1. \A o \in Observation : o.id \in Nat
  BY DEF Observation
<1>2. \A e \in RawData : e.id \in Nat
  BY DEF RawData
<1> QED
  BY <1>1, <1>2 DEF ObsBefore, EntryBefore

(* Removing from the front leaves a part of the list.                       *)
LEMMA IntervalShrinks ==
    ASSUME NEW a \in Nat, NEW b \in Nat, NEW n \in Nat, b >= a
    PROVE  \A i \in b + 1 .. n : i \in a + 1 .. n /\ i \in 1..n
  OBVIOUS

(* A step that moves no observation and writes no time.                     *)
LEMMA PipelineFrame ==
    ASSUME Typed, Typed', PipelineInv,
           index' >= index, popped' >= popped,
           \A m \in network' : m.id <= index',
           \A i \in 1..Len(pending') : pending'[i].id <= index' /\ ~IsSend(pending'[i]),
           UNCHANGED <<observation_list, tmp_obs, entry>>,
           Len(raw_data') = Len(raw_data),
           \A i \in 1..Len(raw_data) : /\ raw_data'[i].id = raw_data[i].id
                                       /\ raw_data'[i].at = raw_data[i].at,
           Processing' <=> Processing,
           pc'["collator"] = "update" => pc["collator"] = "update"
    PROVE  PipelineInv'
<1>1. index \in Nat /\ index' \in Nat /\ popped \in Nat /\ popped' \in Nat
  BY PipelineTypes DEF Typed, TypeOK
<1>2. \A i \in 1..Len(raw_data) :
         /\ HasSend(raw_data'[i]) <=> HasSend(raw_data[i])
         /\ \A k : EntryBefore(raw_data'[i], k) <=> EntryBefore(raw_data[i], k)
  BY DEF HasSend, EntryBefore
<1>3. NothingFromTheFuture'
  <2>1. \A i \in 1..Len(observation_list) : ObsBefore(observation_list[i], index')
    BY <1>1, PipelineTypes, BeforeMonotone DEF PipelineInv, NothingFromTheFuture
  <2>2. Processing => ObsBefore(tmp_obs, index')
    BY <1>1, PipelineTypes, BeforeMonotone DEF PipelineInv, NothingFromTheFuture
  <2>3. \A i \in 1..Len(raw_data) : EntryBefore(raw_data[i], index')
    BY <1>1, PipelineTypes, BeforeMonotone DEF PipelineInv, NothingFromTheFuture
  <2> QED
    BY <1>2, <2>1, <2>2, <2>3 DEF NothingFromTheFuture
<1>4. PipelineInSendOrder'
  BY <1>2 DEF PipelineInv, PipelineInSendOrder
<1>5. \A i \in popped' + 1 .. Len(raw_data) :
         i \in popped + 1 .. Len(raw_data) /\ i \in 1..Len(raw_data)
  <2>1. Len(raw_data) \in Nat
    BY PipelineTypes
  <2> QED
    BY <1>1, <2>1, IntervalShrinks
<1>6. LookupStillValid'
  <2>1. entry # 0 => entry \in 1..Len(raw_data)
    BY DEF Typed, TypeOK
  <2> QED
    BY <1>5, <2>1 DEF PipelineInv, LookupStillValid, Live
<1>7. EntriesInSendOrder'
  <2> SUFFICES ASSUME NEW j \in 1..Len(raw_data), HasSend(raw_data'[j]), NEW i \in 1..j - 1
               PROVE  EntryBefore(raw_data'[i], raw_data'[j].id)
    BY DEF EntriesInSendOrder
  <2>1. i \in 1..Len(raw_data) /\ raw_data'[j].id = raw_data[j].id
    BY PipelineTypes
  <2> QED
    BY <1>2, <2>1 DEF PipelineInv, EntriesInSendOrder
<1>8. LiveEntriesDistinct'
  BY <1>5 DEF PipelineInv, LiveEntriesDistinct, Live
<1> QED
  BY <1>3, <1>4, <1>6, <1>7, <1>8 DEF PipelineInv

(* A step that appends o to the observation list.                           *)
LEMMA PipelineAppend ==
    ASSUME Typed, Typed', PipelineInv, NEW o \in Observation,
           index' >= index, UNCHANGED <<raw_data, popped, network, tmp_obs, entry>>,
           pc'["collator"] = pc["collator"],
           observation_list' = Append(observation_list, o),
           IsSend(o) => o.id = index /\ index' = index + 1,
           o.id <= index',
           \A i \in 1..Len(pending') : pending'[i].id <= index' /\ ~IsSend(pending'[i])
    PROVE  PipelineInv'
<1>1. index \in Nat /\ index' \in Nat /\ o.id \in Nat
  BY PipelineTypes DEF Typed, TypeOK, Observation
<1>2. /\ Len(observation_list') = Len(observation_list) + 1
      /\ \A i \in 1..Len(observation_list) : observation_list'[i] = observation_list[i]
      /\ observation_list'[Len(observation_list) + 1] = o
  BY TypedQueues, AppendTyped
<1>3. Processing' <=> Processing
  BY DEF Processing
<1>4. NothingFromTheFuture'
  <2>1. ObsBefore(o, index')
    BY <1>1 DEF ObsBefore
  <2>2. \A i \in 1..Len(observation_list) : ObsBefore(observation_list[i], index')
    BY <1>1, PipelineTypes, BeforeMonotone DEF PipelineInv, NothingFromTheFuture
  <2>3. \A i \in 1..Len(observation_list') : ObsBefore(observation_list'[i], index')
    BY <1>2, <2>1, <2>2, PipelineTypes
  <2>4. Processing => ObsBefore(tmp_obs, index')
    BY <1>1, PipelineTypes, BeforeMonotone DEF PipelineInv, NothingFromTheFuture
  <2>5. \A i \in 1..Len(raw_data) : EntryBefore(raw_data[i], index')
    BY <1>1, PipelineTypes, BeforeMonotone DEF PipelineInv, NothingFromTheFuture
  <2>6. \A m \in network : m.id <= index'
    BY <1>1, PipelineTypes DEF PipelineInv, NothingFromTheFuture
  <2> QED
    BY <1>3, <2>3, <2>4, <2>5, <2>6 DEF NothingFromTheFuture
<1>5. PipelineInSendOrder'
  <2> SUFFICES ASSUME NEW q \in 1..Len(observation_list'), IsSend(observation_list'[q])
               PROVE  /\ \A p \in 1..q - 1 :
                            ObsBefore(observation_list'[p], observation_list'[q].id)
                      /\ Processing => ObsBefore(tmp_obs, observation_list'[q].id)
                      /\ \A i \in 1..Len(raw_data) :
                            EntryBefore(raw_data[i], observation_list'[q].id)
    BY <1>3 DEF PipelineInv, PipelineInSendOrder
  <2>1. CASE q \in 1..Len(observation_list)
    <3>1. \A p \in 1..q - 1 : p \in 1..Len(observation_list)
      BY <2>1, PipelineTypes
    <3> QED
      BY <1>2, <2>1, <3>1 DEF PipelineInv, PipelineInSendOrder
  <2>2. CASE q = Len(observation_list) + 1
    <3>1. \A p \in 1..q - 1 : p \in 1..Len(observation_list)
      BY <2>2, PipelineTypes
    <3> QED
      BY <1>2, <2>2, <3>1 DEF PipelineInv, NothingFromTheFuture
  <2> QED
    BY <1>2, <2>1, <2>2, PipelineTypes
<1>6. LookupStillValid' /\ EntriesInSendOrder' /\ LiveEntriesDistinct'
  BY DEF PipelineInv, LookupStillValid, EntriesInSendOrder, LiveEntriesDistinct, Live
<1> QED
  BY <1>4, <1>5, <1>6 DEF PipelineInv

(* The collator takes the head of the observation list.                     *)
LEMMA PipelinePop ==
    ASSUME Typed, Typed', PipelineInv, CollatorPopObs
    PROVE  PipelineInv'
<1>1. /\ observation_list # <<>> /\ ~Processing /\ Processing' /\ pc'["collator"] = "find"
      /\ tmp_obs' = Head(observation_list) /\ observation_list' = Tail(observation_list)
      /\ UNCHANGED <<index, network, pending, raw_data, popped>>
  BY DEF CollatorPopObs, At, Goto, Typed, TypeOK, ObservationPopSafe, Processing, Threads,
         senderVars, listVars, netVars
<1>2. /\ tmp_obs' = observation_list[1] /\ 1 \in 1..Len(observation_list)
      /\ Len(observation_list') = Len(observation_list) - 1
      /\ \A i \in 1..Len(observation_list') :
            /\ observation_list'[i] = observation_list[i + 1]
            /\ i + 1 \in 1..Len(observation_list) /\ 1 \in 1..i + 1 - 1
            /\ \A p \in 1..i - 1 : p + 1 \in 1..i + 1 - 1 /\ p \in 1..Len(observation_list')
  BY <1>1, TypedQueues, TailTyped
<1>3. NothingFromTheFuture'
  BY <1>1, <1>2 DEF PipelineInv, NothingFromTheFuture
<1>4. PipelineInSendOrder'
  BY <1>1, <1>2 DEF PipelineInv, PipelineInSendOrder
<1>5. LookupStillValid' /\ EntriesInSendOrder' /\ LiveEntriesDistinct'
  BY <1>1 DEF PipelineInv, LookupStillValid, EntriesInSendOrder, LiveEntriesDistinct, Live
<1> QED
  BY <1>3, <1>4, <1>5 DEF PipelineInv

(* The collator looks the observation's packet up.                          *)
LEMMA PipelineFind ==
    ASSUME Typed, Typed', PipelineInv, CollatorFind
    PROVE  PipelineInv'
<1>1. /\ Processing /\ Processing'
      /\ UNCHANGED <<index, network, pending, observation_list, raw_data, popped, tmp_obs>>
  BY DEF CollatorFind, At, Goto, Typed, TypeOK, Processing, Threads, senderVars, listVars, netVars
<1>2. NothingFromTheFuture' /\ PipelineInSendOrder'
  BY <1>1 DEF PipelineInv, NothingFromTheFuture, PipelineInSendOrder
<1>3. EntriesInSendOrder' /\ LiveEntriesDistinct'
  BY <1>1 DEF PipelineInv, EntriesInSendOrder, LiveEntriesDistinct, Live
<1>4. LookupStillValid'
  <2>1. CASE Matching(tmp_obs.id) = {} /\ entry' = 0
    BY <1>1, <2>1 DEF LookupStillValid, Matching, Live
  <2>2. CASE entry' \in Matching(tmp_obs.id)
    <3>1. entry' \in Live /\ raw_data[entry'].id = tmp_obs.id
      BY <2>2 DEF Matching
    <3>2. entry' # 0
      BY <3>1, PipelineTypes DEF Live
    <3> QED
      BY <1>1, <3>1, <3>2 DEF LookupStillValid
  <2> QED
    BY <2>1, <2>2 DEF CollatorFind
<1> QED
  BY <1>2, <1>3, <1>4 DEF PipelineInv

(* The collator stores the observation's time in an entry, e, which is new  *)
(* or replaces the entry found: e may come before whatever both the         *)
(* observation and the entry it replaces may come before.                   *)
LEMMA PipelineUpdate ==
    ASSUME Typed, Typed', PipelineInv, CollatorUpdate
    PROVE  PipelineInv'
<1>1. /\ Processing /\ ~Processing' /\ pc["collator"] = "update" /\ pc'["collator"] = "loop"
      /\ UNCHANGED <<index, network, pending, observation_list, popped>>
  BY DEF CollatorUpdate, At, Goto, Typed, TypeOK, Processing, Threads, senderVars, netVars
<1>2. /\ ObsBefore(tmp_obs, index)
      /\ \A q \in 1..Len(observation_list) :
            IsSend(observation_list[q]) => ObsBefore(tmp_obs, observation_list[q].id)
      /\ IsSend(tmp_obs) => \A i \in 1..Len(raw_data) : EntryBefore(raw_data[i], tmp_obs.id)
  BY <1>1 DEF PipelineInv, NothingFromTheFuture, PipelineInSendOrder
<1>3. CASE entry # 0
  <2> DEFINE e == Stamped(raw_data[entry], tmp_obs)
  <2>1. entry \in 1..Len(raw_data) /\ raw_data[entry].id = tmp_obs.id
    BY <1>1, <1>3 DEF PipelineInv, LookupStillValid, Typed, TypeOK
  <2>2. e.id = tmp_obs.id /\ (HasSend(e) <=> (HasSend(raw_data[entry]) \/ IsSend(tmp_obs)))
    BY <2>1, PipelineTypes, StampedTyped
  <2>3. /\ Len(raw_data') = Len(raw_data) /\ raw_data'[entry] = e
        /\ \A i \in 1..Len(raw_data) : i # entry => raw_data'[i] = raw_data[i]
    BY <1>3, <2>1, TypedQueues DEF CollatorUpdate
  <2> HIDE DEF e
  <2>4. \A k : EntryBefore(raw_data[entry], k) /\ ObsBefore(tmp_obs, k) => EntryBefore(e, k)
    BY <2>1, <2>2 DEF EntryBefore, ObsBefore
  <2>5. \A i \in 1..Len(raw_data) : raw_data'[i].id = raw_data[i].id
    BY <2>1, <2>2, <2>3
  <2>6. NothingFromTheFuture'
    BY <1>1, <1>2, <2>1, <2>3, <2>4 DEF PipelineInv, NothingFromTheFuture
  <2>7. PipelineInSendOrder'
    BY <1>1, <1>2, <2>1, <2>3, <2>4 DEF PipelineInv, PipelineInSendOrder
  <2>8. EntriesInSendOrder'
    <3> SUFFICES ASSUME NEW j \in 1..Len(raw_data), HasSend(raw_data'[j]), NEW i \in 1..j - 1
                 PROVE  EntryBefore(raw_data'[i], raw_data'[j].id)
      BY <2>3 DEF EntriesInSendOrder
    <3>1. i \in 1..Len(raw_data) /\ i # j /\ raw_data'[j].id = raw_data[j].id
      BY <2>5, PipelineTypes
    <3>2. CASE j = entry
      <4>1. EntryBefore(raw_data[i], raw_data[j].id)
        BY <1>2, <2>1, <2>2, <2>3, <3>1, <3>2 DEF PipelineInv, EntriesInSendOrder
      <4> QED
        BY <2>3, <3>1, <3>2, <4>1
    <3>3. CASE i = entry
      <4>1. HasSend(raw_data[j]) /\ EntryBefore(raw_data[i], raw_data[j].id)
        BY <2>3, <3>1, <3>3 DEF PipelineInv, EntriesInSendOrder
      <4>2. ~IsSend(tmp_obs)
        BY <1>2, <2>1, <3>1, <3>3, <4>1, PipelineTypes DEF EntryBefore
      <4> QED
        BY <2>1, <2>2, <2>3, <3>1, <3>3, <4>1, <4>2 DEF EntryBefore
    <3>4. CASE i # entry /\ j # entry
      BY <2>3, <3>1, <3>4 DEF PipelineInv, EntriesInSendOrder
    <3> QED
      BY <3>2, <3>3, <3>4
  <2>9. LiveEntriesDistinct'
    <3>1. \A i \in popped + 1 .. Len(raw_data) : i \in 1..Len(raw_data)
      BY PipelineTypes
    <3> QED
      BY <1>1, <2>3, <2>5, <3>1 DEF PipelineInv, LiveEntriesDistinct, Live
  <2> QED
    BY <1>1, <2>6, <2>7, <2>8, <2>9 DEF PipelineInv, LookupStillValid
<1>4. CASE entry = 0
  <2> DEFINE e == NewEntry(tmp_obs)
             n == Len(raw_data) + 1
  <2>1. e \in RawData /\ e.id = tmp_obs.id /\ (HasSend(e) <=> IsSend(tmp_obs))
    BY PipelineTypes, NewEntryTyped
  <2>2. /\ Len(raw_data') = n /\ raw_data'[n] = e
        /\ \A i \in 1..Len(raw_data) : raw_data'[i] = raw_data[i]
    BY <1>4, <2>1, TypedQueues, AppendTyped DEF CollatorUpdate
  <2>3. \A i \in 1..n : i = n \/ i \in 1..Len(raw_data)
    BY PipelineTypes
  <2> HIDE DEF e
  <2>4. \A k : ObsBefore(tmp_obs, k) => EntryBefore(e, k)
    BY <2>1 DEF EntryBefore, ObsBefore
  <2>5. NothingFromTheFuture'
    BY <1>1, <1>2, <2>2, <2>3, <2>4 DEF PipelineInv, NothingFromTheFuture
  <2>6. PipelineInSendOrder'
    BY <1>1, <1>2, <2>2, <2>3, <2>4 DEF PipelineInv, PipelineInSendOrder
  <2>7. EntriesInSendOrder'
    <3> SUFFICES ASSUME NEW j \in 1..n, HasSend(raw_data'[j]), NEW i \in 1..j - 1
                 PROVE  EntryBefore(raw_data'[i], raw_data'[j].id)
      BY <2>2 DEF EntriesInSendOrder
    <3>1. i \in 1..Len(raw_data)
      BY PipelineTypes
    <3>2. CASE j = n
      BY <1>2, <2>1, <2>2, <3>1, <3>2
    <3>3. CASE j \in 1..Len(raw_data)
      BY <2>2, <3>1, <3>3 DEF PipelineInv, EntriesInSendOrder
    <3> QED
      BY <2>3, <3>2, <3>3
  <2>8. LiveEntriesDistinct'
    <3>1. \A i \in popped + 1 .. n : i = n \/ (i \in popped + 1 .. Len(raw_data) /\ i \in 1..Len(raw_data))
      BY PipelineTypes
    <3>2. \A i \in popped + 1 .. Len(raw_data) : raw_data[i].id # tmp_obs.id
      BY <1>1, <1>4 DEF PipelineInv, LookupStillValid, Live
    <3> QED
      BY <1>1, <2>1, <2>2, <3>1, <3>2 DEF PipelineInv, LiveEntriesDistinct, Live
  <2> QED
    BY <1>1, <2>5, <2>6, <2>7, <2>8 DEF PipelineInv, LookupStillValid
<1> QED
  BY <1>3, <1>4

(* The assumptions of PipelineFrame.                                        *)
FrameStep ==
    /\ index' >= index /\ popped' >= popped
    /\ \A m \in network' : m.id <= index'
    /\ \A i \in 1..Len(pending') : pending'[i].id <= index' /\ ~IsSend(pending'[i])
    /\ UNCHANGED <<observation_list, tmp_obs, entry>>
    /\ Len(raw_data') = Len(raw_data)
    /\ \A i \in 1..Len(raw_data) : /\ raw_data'[i].id = raw_data[i].id
                                   /\ raw_data'[i].at = raw_data[i].at
    /\ Processing' <=> Processing
    /\ pc'["collator"] = "update" => pc["collator"] = "update"

(* Such a step keeps the pipeline's invariant.                              *)
LEMMA PipelineFrameStep ==
    ASSUME Typed, Typed', PipelineInv, FrameStep
    PROVE  PipelineInv'
  BY PipelineFrame DEF FrameStep

(* Every step of every thread keeps the pipeline's invariant.               *)
LEMMA PipelineStep ==
    ASSUME Typed, Typed', PipelineInv, Next
    PROVE  PipelineInv'
<1>1. /\ index \in Nat /\ popped \in Nat /\ pc \in [Threads -> Labels]
      /\ \A m \in network : m.id \in Nat /\ m.id <= index
      /\ \A i \in 1..Len(pending) :
            pending[i].id \in Nat /\ pending[i].id <= index /\ ~IsSend(pending[i])
      /\ pending \in Seq(Observation)
  BY PipelineTypes DEF PipelineInv, NothingFromTheFuture, Typed, TypeOK
<1> USE DEF At, Goto, Threads, Closers, Processing, senderVars, collatorVars,
            listVars, closeVars, netVars, timeVars, flagVars
<1>2. CASE SenderNext
  BY <1>1, <1>2, PipelineFrameStep DEF SenderNext, FrameStep
<1>3. CASE SenderDone
  BY <1>1, <1>3, PipelineFrameStep DEF SenderDone, FrameStep
<1>4. CASE SendOk
  BY <1>1, <1>4, PipelineFrameStep DEF SendOk, FrameStep
<1>5. CASE SendFail
  BY <1>1, <1>5, PipelineFrameStep DEF SendFail, FrameStep
<1>6. CASE ReceiverContinue
  BY <1>1, <1>6, PipelineFrameStep DEF ReceiverContinue, FrameStep
<1>7. CASE ReceiverStop
  BY <1>1, <1>7, PipelineFrameStep DEF ReceiverStop, FrameStep
<1>8. CASE RecvTimeout
  BY <1>1, <1>8, PipelineFrameStep DEF RecvTimeout, FrameStep
<1>9. CASE CollatorStart
  BY <1>1, <1>9, PipelineFrameStep DEF CollatorStart, FrameStep
<1>10. CASE CollatorLoop
  BY <1>1, <1>10, PipelineFrameStep DEF CollatorLoop, FrameStep
<1>11. CASE CollatorPoll
  BY <1>1, <1>11, PipelineFrameStep DEF CollatorPoll, FrameStep
<1>12. ASSUME NEW m \in network, RecvPacket(m) PROVE PipelineInv'
  <2>1. \A i \in 1..Len(pending') : pending'[i].id <= index /\ ~IsSend(pending'[i])
    <3>1. /\ Len(ReplyObservations(m)) = 3
          /\ \A i \in 1..3 : ReplyObservations(m)[i].id = m.id /\ ~IsSend(ReplyObservations(m)[i])
      BY DEF ReplyObservations, IsSend
    <3> QED
      BY <1>1, <1>12, <3>1 DEF RecvPacket
  <2> QED
    BY <1>1, <1>12, <2>1, PipelineFrameStep DEF RecvPacket, Deliver, FrameStep
<1>13. ASSUME NEW m \in network, RecvTruncated(m) PROVE PipelineInv'
  BY <1>1, <1>13, PipelineFrameStep DEF RecvTruncated, Deliver, FrameStep
<1>14. ASSUME NEW m \in network, Lose(m) PROVE PipelineInv'
  BY <1>1, <1>14, PipelineFrameStep DEF Lose, Deliver, FrameStep
<1>15. ASSUME NEW t \in Closers, Peek(t) PROVE PipelineInv'
  BY <1>1, <1>15, PipelineFrameStep DEF Peek, Return, FrameStep
<1>16. ASSUME NEW t \in Closers, JudgeEmpty(t) PROVE PipelineInv'
  BY <1>1, <1>16, PipelineFrameStep DEF JudgeEmpty, Return, FrameStep
<1>17. ASSUME NEW t \in Closers, JudgeEntry(t) PROVE PipelineInv'
  BY <1>1, <1>17, PipelineFrameStep DEF JudgeEntry, Return, FrameStep
<1>18. ASSUME NEW t \in Closers, AggregateForward(t) PROVE PipelineInv'
  BY <1>1, <1>18, PipelineFrameStep DEF AggregateForward, Return, FrameStep
<1>19. ASSUME NEW t \in Closers, AggregateRest(t) PROVE PipelineInv'
  BY <1>1, <1>19, PipelineFrameStep DEF AggregateRest, Return, FrameStep
<1>20. ASSUME NEW t \in Closers, Pop(t) PROVE PipelineInv'
  BY <1>1, <1>20, PipelineFrameStep DEF Pop, Return, FrameStep
<1>21. ASSUME NEW t \in Closers, PopEmpty(t) PROVE PipelineInv'
  BY <1>1, <1>21, PipelineFrameStep DEF PopEmpty, Return, FrameStep
<1>22. CASE Tick
  BY <1>1, <1>22, TickRawData, PipelineFrameStep DEF Tick, FrameStep
<1>23. CASE Terminating
  BY <1>1, <1>23, PipelineFrameStep DEF Terminating, vars, FrameStep
<1>24. CASE Enqueue
  <2>1. /\ pending # <<>> /\ Head(pending) \in Observation /\ Head(pending) = pending[1]
        /\ Len(pending) \in Nat \ {0}
        /\ pending' = Tail(pending) /\ Len(pending') = Len(pending) - 1
        /\ \A i \in 1..Len(pending') : pending'[i] = pending[i + 1]
    BY <1>1, <1>24, EnqueueQueues, TailTyped DEF Enqueue
  <2>2. \A i \in 1..Len(pending') : pending'[i].id <= index /\ ~IsSend(pending'[i])
    BY <1>1, <2>1
  <2>3. Head(pending).id <= index /\ ~IsSend(Head(pending))
    BY <1>1, <2>1
  <2> QED
    BY <1>1, <1>24, <2>1, <2>2, <2>3, PipelineAppend DEF Enqueue
<1>25. CASE SenderObserve
  <2> DEFINE o == [point |-> "CLIENT_SEND", id |-> index, stamp |-> 1]
  <2>1. o \in Observation /\ o.id = index
    BY <1>1 DEF Observation, ObservationPoints, Remotes
  <2>2. CASE collator_started
    <3>1. observation_list' = Append(observation_list, o)
      BY <1>25, <2>2 DEF SenderObserve
    <3>2. /\ index' = index + 1 /\ pc'["collator"] = pc["collator"]
          /\ UNCHANGED <<raw_data, popped, network, tmp_obs, entry, pending>>
      BY <1>1, <1>25 DEF SenderObserve
    <3> HIDE DEF o
    <3>3. o.id <= index' /\ index' >= index
      BY <1>1, <2>1, <3>2
    <3>4. \A i \in 1..Len(pending') : pending'[i].id <= index' /\ ~IsSend(pending'[i])
      BY <1>1, <3>2
    <3> QED
      BY <1>1, <2>1, <3>1, <3>2, <3>3, <3>4, PipelineAppend
  <2>3. CASE ~collator_started
    BY <1>1, <1>25, <2>3, PipelineFrameStep DEF SenderObserve, FrameStep
  <2> QED
    BY <2>2, <2>3
<1>26. CASE CollatorPopObs \/ CollatorFind \/ CollatorUpdate
  BY <1>26, PipelinePop, PipelineFind, PipelineUpdate
<1> QED
  BY <1>2, <1>3, <1>4, <1>5, <1>6, <1>7, <1>8, <1>9, <1>10, <1>11, <1>12, <1>13,
     <1>14, <1>15, <1>16, <1>17, <1>18, <1>19, <1>20, <1>21, <1>22, <1>23, <1>24, <1>25, <1>26
     DEF Next, Sender, Receiver, Collator, Check

(* The inductive invariant of the pipeline holds in every execution.        *)
THEOREM PipelineCorrect == Spec => []PipelineInv
<1>1. PipelineInv /\ UNCHANGED vars => PipelineInv'
  BY DEF vars, senderVars, collatorVars, listVars, closeVars, netVars, timeVars, flagVars,
         PipelineInv, NothingFromTheFuture, PipelineInSendOrder, LookupStillValid,
         EntriesInSendOrder, LiveEntriesDistinct, Live, Processing
<1>2. Typed /\ Typed' /\ PipelineInv /\ [Next]_vars => PipelineInv'
  BY <1>1, PipelineStep
<1>3. Spec => []Typed
  BY TypedCorrect, PTL
<1> QED
  BY <1>2, <1>3, PipelineInit, PTL DEF Spec

(* raw_data_list stays in send order: see EntriesInSendOrder.               *)
THEOREM SendOrder == Spec => []EntriesInSendOrder
<1>1. PipelineInv => EntriesInSendOrder
  BY DEF PipelineInv
<1> QED
  BY <1>1, PipelineCorrect, PTL

(* raw_data_list never holds two entries for one packet, although lookup    *)
(* and insertion are separate steps and the receiver removes entries.       *)
THEOREM NoDuplicateEntries == Spec => []LiveEntriesDistinct
<1>1. PipelineInv => LiveEntriesDistinct
  BY DEF PipelineInv
<1> QED
  BY <1>1, PipelineCorrect, PTL

-----------------------------------------------------------------------------
(* The record has no gap                                                    *)

(* Where the CLIENT_SEND time of packet k may be.                           *)
InData(k) == \E i \in 1..Len(raw_data) : HasSend(raw_data[i]) /\ raw_data[i].id = k
InList(k) == \E i \in 1..Len(observation_list) :
                 IsSend(observation_list[i]) /\ observation_list[i].id = k
InHand(k) == Processing /\ IsSend(tmp_obs) /\ tmp_obs.id = k

(* It is recorded if it is in one of these places.                          *)
LEMMA RecordedMember ==
    /\ \A k : k \in Recorded <=> InData(k) \/ InList(k) \/ InHand(k)
    /\ \A k : k \in Recorded' <=> InData(k)' \/ InList(k)' \/ InHand(k)'
<1>1. \A k : k \in Recorded <=> InData(k) \/ InList(k) \/ InHand(k)
  BY DEF Recorded, InData, InList, InHand
<1>2. \A k : k \in Recorded' <=> InData(k)' \/ InList(k)' \/ InHand(k)'
  BY DEF Recorded, InData, InList, InHand
<1> QED BY <1>1, <1>2

(* A step that moves no observation records nothing.                        *)
LEMMA RecordedFrame ==
    ASSUME UNCHANGED <<observation_list, tmp_obs>>, Processing' <=> Processing,
           Len(raw_data') = Len(raw_data),
           \A i \in 1..Len(raw_data) : /\ raw_data'[i].id = raw_data[i].id
                                       /\ raw_data'[i].at = raw_data[i].at
    PROVE  Recorded' = Recorded
<1>1. \A k : (InData(k)' <=> InData(k)) /\ (InList(k)' <=> InList(k)) /\ (InHand(k)' <=> InHand(k))
  BY DEF InData, InList, InHand, HasSend
<1> QED BY <1>1, RecordedMember

(* A new observation is recorded if it is a CLIENT_SEND observation.        *)
LEMMA RecordedAppend ==
    ASSUME Typed, NEW o \in Observation, observation_list' = Append(observation_list, o),
           UNCHANGED <<tmp_obs, raw_data>>, Processing' <=> Processing
    PROVE  Recorded' = Recorded \cup (IF IsSend(o) THEN {o.id} ELSE {})
<1>1. /\ Len(observation_list) \in Nat /\ Len(observation_list') = Len(observation_list) + 1
      /\ \A i \in 1..Len(observation_list) : observation_list'[i] = observation_list[i]
      /\ observation_list'[Len(observation_list) + 1] = o
  BY TypedQueues, AppendTyped
<1>2. \A i \in 1..Len(observation_list') :
         i = Len(observation_list) + 1 \/ i \in 1..Len(observation_list)
  BY <1>1
<1>3. \A i \in 1..Len(observation_list) : i \in 1..Len(observation_list')
  BY <1>1
<1>4. Len(observation_list) + 1 \in 1..Len(observation_list')
  BY <1>1
<1>5. \A k : InList(k)' <=> InList(k) \/ (IsSend(o) /\ o.id = k)
  BY <1>1, <1>2, <1>3, <1>4 DEF InList
<1>6. \A k : (InData(k)' <=> InData(k)) /\ (InHand(k)' <=> InHand(k))
  BY DEF InData, InHand
<1> QED BY <1>5, <1>6, RecordedMember

(* Taking the oldest observation from the list keeps it recorded.           *)
LEMMA RecordedPop ==
    ASSUME Typed, CollatorPopObs
    PROVE  Recorded' = Recorded
<1> DEFINE ol == observation_list
<1>1. /\ pc["collator"] = "pop_obs" /\ pc'["collator"] = "find"
      /\ tmp_obs' = Head(ol) /\ ol' = Tail(ol) /\ UNCHANGED raw_data
      /\ ol # <<>> /\ ol \in Seq(Observation)
  BY DEF CollatorPopObs, Typed, TypeOK, ObservationPopSafe, At, Goto, Threads, listVars
<1>2. /\ tmp_obs' = ol[1] /\ Len(ol) \in Nat \ {0} /\ Len(ol') = Len(ol) - 1
      /\ \A i \in 1..Len(ol') : ol'[i] = ol[i + 1]
  BY <1>1, TailTyped
<1>3. \A i \in 1..Len(ol') : i + 1 \in 1..Len(ol)
  BY <1>2
<1>4. \A i \in 1..Len(ol) : i = 1 \/ (i - 1 \in 1..Len(ol') /\ ol'[i - 1] = ol[i])
  BY <1>2
<1>5. 1 \in 1..Len(ol)
  BY <1>2
<1>6. ~Processing /\ Processing'
  BY <1>1 DEF Processing
<1>7. \A k : InList(k) \/ InHand(k) <=> InList(k)' \/ InHand(k)'
  BY <1>2, <1>3, <1>4, <1>5, <1>6 DEF InList, InHand
<1>8. \A k : InData(k)' <=> InData(k)
  BY <1>1 DEF InData
<1> QED BY <1>7, <1>8, RecordedMember

(* Storing it in an entry, found or new, keeps it recorded.                 *)
LEMMA RecordedUpdate ==
    ASSUME Typed, PipelineInv, CollatorUpdate
    PROVE  Recorded' = Recorded
<1> DEFINE n == Len(raw_data)
<1>1. /\ pc["collator"] = "update" /\ pc'["collator"] = "loop" /\ UNCHANGED observation_list
      /\ n \in Nat /\ raw_data \in Seq(RawData) /\ tmp_obs \in Observation /\ entry \in 0..n
  BY DEF CollatorUpdate, Typed, TypeOK, At, Goto, Threads
<1>2. Processing /\ ~Processing' /\ \A k : InList(k)' <=> InList(k)
  BY <1>1 DEF Processing, InList
<1>3. \A i \in 1..n : raw_data[i] \in RawData
  BY <1>1
<1>4. \A k : InData(k)' <=> InData(k) \/ InHand(k)
  <2>1. CASE entry # 0
    <3> DEFINE e == Stamped(raw_data[entry], tmp_obs)
    <3>1. entry \in 1..n /\ raw_data[entry] \in RawData /\ raw_data[entry].id = tmp_obs.id
      BY <1>1, <1>3, <2>1 DEF PipelineInv, LookupStillValid
    <3>2. /\ e \in RawData /\ e.id = raw_data[entry].id
          /\ HasSend(e) <=> (HasSend(raw_data[entry]) \/ IsSend(tmp_obs))
      BY <1>1, <3>1, StampedTyped
    <3>3. raw_data' = [raw_data EXCEPT ![entry] = e]
      BY <2>1 DEF CollatorUpdate
    <3> HIDE DEF e
    <3>4. Len(raw_data') = n /\ \A i \in 1..n : raw_data'[i] = IF i = entry THEN e ELSE raw_data[i]
      BY <1>1, <3>1, <3>2, <3>3, ReplaceTyped
    <3> QED BY <1>2, <3>1, <3>2, <3>4 DEF InData, InHand
  <2>2. CASE entry = 0
    <3> DEFINE e == NewEntry(tmp_obs)
    <3>1. e \in RawData /\ e.id = tmp_obs.id /\ (HasSend(e) <=> IsSend(tmp_obs))
      BY <1>1, NewEntryTyped
    <3>2. raw_data' = Append(raw_data, e)
      BY <2>2 DEF CollatorUpdate
    <3> HIDE DEF e
    <3>3. /\ Len(raw_data') = n + 1 /\ raw_data'[n + 1] = e
          /\ \A i \in 1..n : raw_data'[i] = raw_data[i]
      BY <1>1, <3>1, <3>2, AppendTyped
    <3>4. (\A i \in 1..n + 1 : i = n + 1 \/ i \in 1..n) /\ (\A i \in 1..n : i \in 1..n + 1)
          /\ n + 1 \in 1..n + 1
      BY <1>1
    <3> QED BY <1>2, <3>1, <3>3, <3>4 DEF InData, InHand
  <2> QED BY <2>1, <2>2
<1>5. \A k : ~InHand(k)'
  BY <1>2 DEF InHand
<1> QED BY <1>2, <1>4, <1>5, RecordedMember

(* What a step does to the record.                                          *)
LEMMA RecordedStep ==
    ASSUME Typed, PipelineInv, Next
    PROVE  IF SenderObserve /\ collator_started
           THEN Recorded' = Recorded \cup {index} ELSE Recorded' = Recorded
<1>1. pc \in [Threads -> Labels] /\ index \in Nat
  BY DEF Typed, TypeOK
<1> USE DEF At, Goto, Return, Threads, Closers, Processing, senderVars, collatorVars, listVars,
            closeVars, netVars, timeVars, flagVars
<1>2. CASE SenderObserve
  <2> DEFINE o == [point |-> "CLIENT_SEND", id |-> index, stamp |-> 1]
  <2>1. CASE collator_started
    <3>1. o \in Observation /\ o.id = index /\ IsSend(o)
      BY <1>1 DEF Observation, ObservationPoints, Remotes, IsSend
    <3>2. /\ observation_list' = Append(observation_list, o)
          /\ UNCHANGED <<tmp_obs, raw_data>> /\ pc'["collator"] = pc["collator"]
      BY <1>1, <1>2, <2>1 DEF SenderObserve
    <3> HIDE DEF o
    <3>3. Processing' <=> Processing
      BY <3>2
    <3> QED BY <1>2, <2>1, <3>1, <3>2, <3>3, RecordedAppend
  <2>2. CASE ~collator_started
    BY <1>1, <1>2, <2>2, RecordedFrame DEF SenderObserve
  <2> QED BY <2>1, <2>2
<1>3. ASSUME ~SenderObserve PROVE Recorded' = Recorded
  <2>1. CASE SenderNext \/ SenderDone \/ SendOk \/ SendFail
    BY <1>1, <2>1, RecordedFrame DEF SenderNext, SenderDone, SendOk, SendFail
  <2>2. CASE ReceiverContinue \/ ReceiverStop \/ RecvTimeout
    BY <1>1, <2>2, RecordedFrame DEF ReceiverContinue, ReceiverStop, RecvTimeout
  <2>3. ASSUME NEW m \in network, RecvPacket(m) \/ RecvTruncated(m) \/ Lose(m)
        PROVE  Recorded' = Recorded
    BY <1>1, <2>3, RecordedFrame DEF RecvPacket, RecvTruncated, Lose
  <2>4. CASE Enqueue
    <3> DEFINE o == Head(pending)
    <3>1. o \in Observation /\ pending # <<>>
      BY <2>4, EnqueueQueues
    <3>2. ~IsSend(o)
      <4>1. o = pending[1] /\ 1 \in 1..Len(pending)
        BY <3>1, TypedQueues, TailTyped
      <4> QED BY <4>1 DEF PipelineInv, NothingFromTheFuture
    <3>3. /\ observation_list' = Append(observation_list, o)
          /\ UNCHANGED <<tmp_obs, raw_data>> /\ pc'["collator"] = pc["collator"]
      BY <1>1, <2>4 DEF Enqueue
    <3> HIDE DEF o
    <3>4. Processing' <=> Processing
      BY <3>3
    <3>5. Recorded' = Recorded \cup (IF IsSend(o) THEN {o.id} ELSE {})
      BY <3>1, <3>3, <3>4, RecordedAppend
    <3> QED BY <3>2, <3>5
  <2>5. ASSUME NEW t \in Closers, Peek(t) \/ JudgeEmpty(t) \/ JudgeEntry(t)
        PROVE  Recorded' = Recorded
    BY <1>1, <2>5, RecordedFrame DEF Peek, JudgeEmpty, JudgeEntry
  <2>6. ASSUME NEW t \in Closers, AggregateForward(t) \/ AggregateRest(t)
        PROVE  Recorded' = Recorded
    BY <1>1, <2>6, RecordedFrame DEF AggregateForward, AggregateRest
  <2>7. ASSUME NEW t \in Closers, Pop(t) \/ PopEmpty(t) PROVE Recorded' = Recorded
    BY <1>1, <2>7, RecordedFrame DEF Pop, PopEmpty
  <2>8. CASE CollatorStart \/ CollatorLoop \/ CollatorPoll \/ CollatorFind
    BY <1>1, <2>8, RecordedFrame DEF CollatorStart, CollatorLoop, CollatorPoll, CollatorFind
  <2>9. CASE CollatorPopObs \/ CollatorUpdate
    BY <2>9, RecordedPop, RecordedUpdate
  <2>10. CASE Tick
    BY <2>10, TickRawData, RecordedFrame DEF Tick
  <2>11. CASE Terminating
    BY <2>11, RecordedFrame DEF Terminating, vars
  <2> QED
    BY <1>3, <2>1, <2>2, <2>3, <2>4, <2>5, <2>6, <2>7, <2>8, <2>9, <2>10, <2>11
       DEF Next, Sender, Receiver, Collator, Check
<1> QED BY <1>2, <1>3

(* What was sent before the collator started is not recorded.               *)
RecordInv == NoGapInRecord /\ (~collator_started => Recorded = {})

(* Without failing sendmsg every step keeps the record without gaps.        *)
LEMMA RecordStep ==
    ASSUME ~SendMayFail, Typed, PipelineInv, RecordInv, Next
    PROVE  RecordInv'
<1>1. index \in Nat
  BY DEF Typed, TypeOK
<1>2. collator_started => collator_started'
  BY DEF Next, Sender, SenderNext, SenderDone, SendOk, SendFail, SenderObserve, Receiver,
     ReceiverContinue, ReceiverStop, RecvPacket, RecvTruncated, RecvTimeout, Enqueue, Collator,
     CollatorStart, CollatorLoop, CollatorPoll, CollatorPopObs, CollatorFind, CollatorUpdate, Check,
     Peek, JudgeEmpty, JudgeEntry, AggregateForward, AggregateRest, Pop, PopEmpty, Lose, Tick,
     Terminating, vars, flagVars
<1>3. CASE SenderObserve /\ collator_started
  <2>1. Recorded' = Recorded \cup {index} /\ index' = index + 1
    BY <1>3, RecordedStep DEF SenderObserve
  <2>2. ASSUME NEW k \in Recorded' PROVE k..index' - 1 \subseteq Recorded'
    <3>1. CASE k \in Recorded
      <4>1. k..index - 1 \subseteq Recorded
        BY <3>1 DEF RecordInv, NoGapInRecord
      <4>2. \A l \in k..index : l = index \/ l \in k..index - 1
        BY <1>1
      <4> QED BY <1>1, <2>1, <4>1, <4>2
    <3>2. CASE k = index
      BY <1>1, <2>1, <3>2
    <3> QED BY <2>1, <2>2, <3>1, <3>2
  <2> QED BY <1>2, <1>3, <2>2 DEF RecordInv, NoGapInRecord
<1>4. CASE ~(SenderObserve /\ collator_started)
  <2>1. Recorded' = Recorded
    BY <1>4, RecordedStep
  <2>2. index' = index \/ Recorded = {}
    <3>1. CASE SenderObserve
      BY <1>4, <3>1 DEF RecordInv
    <3>2. CASE ~SenderObserve
      BY <3>2 DEF Next, Sender, SenderNext, SenderDone, SendOk, SendFail, Receiver,
         ReceiverContinue, ReceiverStop, RecvPacket, RecvTruncated, RecvTimeout, Enqueue, Collator,
         CollatorStart, CollatorLoop, CollatorPoll, CollatorPopObs, CollatorFind, CollatorUpdate,
         Check, Peek, JudgeEmpty, JudgeEntry, AggregateForward, AggregateRest, Pop, PopEmpty, Lose,
         Tick, Terminating, vars, senderVars
    <3> QED BY <3>1, <3>2
  <2> QED BY <1>2, <2>1, <2>2 DEF RecordInv, NoGapInRecord
<1> QED BY <1>3, <1>4

(* Where sendmsg does not fail, the collator's record has no gap: every     *)
(* packet after a recorded one is recorded (see NoGapInRecord).             *)
THEOREM RecordComplete ==
    ASSUME ~SendMayFail
    PROVE  Spec => []NoGapInRecord
<1>1. Init => RecordInv
  BY DEF Init, RecordInv, NoGapInRecord, Recorded, Processing, Threads
<1>2. Typed /\ PipelineInv /\ RecordInv /\ Next => RecordInv'
  BY RecordStep
<1>3. RecordInv /\ UNCHANGED vars => RecordInv'
  <2> SUFFICES ASSUME RecordInv, UNCHANGED vars PROVE RecordInv'
    OBVIOUS
  <2>1. UNCHANGED <<raw_data, observation_list, tmp_obs, pc, index, collator_started>>
    BY DEF vars, senderVars, listVars, collatorVars, flagVars
  <2>2. Recorded' = Recorded
    BY <2>1 DEF Recorded, Processing
  <2> QED BY <2>1, <2>2 DEF RecordInv, NoGapInRecord
<1>4. Spec => []Typed
  BY TypedCorrect, PTL
<1>5. RecordInv => NoGapInRecord
  BY DEF RecordInv
<1> QED BY <1>1, <1>2, <1>3, <1>4, <1>5, PipelineCorrect, PTL DEF Spec

-----------------------------------------------------------------------------
(* What process_observation writes, and what is in the queues               *)

(* What a setter writes, and what it leaves.                                *)
LEMMA StampedTimes ==
    ASSUME NEW e \in RawData, NEW o \in Observation
    PROVE  /\ Stamped(e, o).age = e.age
           /\ \A p \in ObservationPoints :
                 Stamped(e, o).at[p] = IF p = o.point THEN o.stamp ELSE e.at[p]
<1>1. e.at \in [ObservationPoints -> Stamps] /\ o.point \in ObservationPoints
  BY DEF RawData, Observation
<1>2. /\ Stamped(e, o).at = [e.at EXCEPT ![o.point] = o.stamp]
      /\ Stamped(e, o).age = e.age
  BY DEF Stamped, RawData
<1> QED BY <1>1, <1>2

(* An observation's stamp is a time that is set.                            *)
LEMMA StampSet == ASSUME NEW o \in Observation PROVE o.stamp # 0 /\ o.point \in ObservationPoints
  BY DEF Observation, Remotes

(* The types of what the invariant is about.                                *)
LEMMA ClientTypes ==
    ASSUME Typed
    PROVE  /\ pc \in [Threads -> Labels] /\ index \in Nat /\ duplicated \in Nat
           /\ observation_list \in Seq(Observation) /\ pending \in Seq(Observation)
           /\ raw_data \in Seq(RawData) /\ Len(raw_data) \in Nat /\ popped \in 0..Len(raw_data)
           /\ tmp_obs \in Observation /\ entry \in 0..Len(raw_data)
           /\ network \subseteq Message
           /\ \A i \in 1..Len(raw_data) : raw_data[i] \in RawData
           /\ \A e \in RawData : e.id \in Nat /\ e.at \in [ObservationPoints -> Stamps]
           /\ \A o \in Observation : o.id \in Nat /\ o.point \in ObservationPoints
           /\ \A m \in Message : m.id \in Nat
<1>1. /\ pc \in [Threads -> Labels] /\ index \in Nat /\ duplicated \in Nat
      /\ observation_list \in Seq(Observation) /\ pending \in Seq(Observation)
      /\ raw_data \in Seq(RawData) /\ Len(raw_data) \in Nat /\ popped \in 0..Len(raw_data)
      /\ tmp_obs \in Observation /\ entry \in 0..Len(raw_data) /\ network \subseteq Message
  BY DEF Typed, TypeOK
<1>2. \A i \in 1..Len(raw_data) : raw_data[i] \in RawData
  BY <1>1
<1>3. \A e \in RawData : e.id \in Nat /\ e.at \in [ObservationPoints -> Stamps]
  BY DEF RawData
<1>4. \A o \in Observation : o.id \in Nat /\ o.point \in ObservationPoints
  BY DEF Observation
<1>5. \A m \in Message : m.id \in Nat
  BY DEF Message
<1> QED BY <1>1, <1>2, <1>3, <1>4, <1>5

(* What process_observation does to the entries.                            *)
LEMMA UpdateEntries ==
    ASSUME Typed, PipelineInv, CollatorUpdate
    PROVE  /\ Len(raw_data') = IF entry = 0 THEN Len(raw_data) + 1 ELSE Len(raw_data)
           /\ \A i \in 1..Len(raw_data) :
                 /\ raw_data'[i].id = raw_data[i].id /\ raw_data'[i].age = raw_data[i].age
                 /\ \A p \in ObservationPoints :
                       raw_data'[i].at[p] = IF i = entry /\ p = tmp_obs.point
                                            THEN tmp_obs.stamp ELSE raw_data[i].at[p]
           /\ entry # 0 => raw_data[entry].id = tmp_obs.id
           /\ entry = 0 => /\ raw_data'[Len(raw_data) + 1].id = tmp_obs.id
                           /\ raw_data'[Len(raw_data) + 1].age = 0
                           /\ \A p \in ObservationPoints :
                                 raw_data'[Len(raw_data) + 1].at[p] =
                                     IF p = tmp_obs.point THEN tmp_obs.stamp ELSE 0
                           /\ \A i \in Live : raw_data[i].id # tmp_obs.id
<1>1. pc["collator"] = "update"
  BY DEF CollatorUpdate, At
<1>2. CASE entry # 0
  <2>1. /\ raw_data' = [raw_data EXCEPT ![entry] = Stamped(raw_data[entry], tmp_obs)]
        /\ entry \in 1..Len(raw_data) /\ raw_data[entry].id = tmp_obs.id
    BY <1>1, <1>2, ClientTypes DEF CollatorUpdate, PipelineInv, LookupStillValid
  <2>2. Len(raw_data') = Len(raw_data)
    BY <2>1, ClientTypes, StampedTyped, ReplaceTyped
  <2>3. \A i \in 1..Len(raw_data) :
            raw_data'[i] = IF i = entry THEN Stamped(raw_data[entry], tmp_obs) ELSE raw_data[i]
    BY <2>1, ClientTypes
  <2> QED BY <1>2, <2>1, <2>2, <2>3, ClientTypes, StampedTyped, StampedTimes
<1>3. CASE entry = 0
  <2>1. /\ raw_data' = Append(raw_data, NewEntry(tmp_obs))
        /\ \A i \in Live : raw_data[i].id # tmp_obs.id
    BY <1>1, <1>3 DEF CollatorUpdate, PipelineInv, LookupStillValid
  <2>2. /\ Len(raw_data') = Len(raw_data) + 1
        /\ \A i \in 1..Len(raw_data) : raw_data'[i] = raw_data[i]
        /\ raw_data'[Len(raw_data) + 1] = NewEntry(tmp_obs)
    BY <2>1, ClientTypes, NewEntryTyped, AppendTyped
  <2>3. /\ NewEntry(tmp_obs).id = tmp_obs.id /\ NewEntry(tmp_obs).age = 0
        /\ \A p \in ObservationPoints :
              NewEntry(tmp_obs).at[p] = IF p = tmp_obs.point THEN tmp_obs.stamp ELSE 0
    BY DEF NewEntry
  <2> QED BY <1>3, <2>1, <2>2, <2>3, ClientTypes
<1> QED BY <1>2, <1>3

(* The elements of a sequence after appending, and without its head.        *)
LEMMA AppendRange ==
    ASSUME NEW S, NEW s \in Seq(S), NEW e \in S
    PROVE  Range(Append(s, e)) = Range(s) \cup {e}
<1>1. /\ DOMAIN s = 1..Len(s) /\ DOMAIN Append(s, e) = 1..Len(s) + 1 /\ Len(s) \in Nat
      /\ \A i \in 1..Len(s) : Append(s, e)[i] = s[i]
      /\ Append(s, e)[Len(s) + 1] = e
  BY AppendTyped
<1> DEFINE a == Append(s, e)
<1>2. /\ \A i \in DOMAIN a : a[i] = e \/ (i \in DOMAIN s /\ a[i] = s[i])
      /\ \A i \in DOMAIN s : i \in DOMAIN a /\ a[i] = s[i]
      /\ \E i \in DOMAIN a : a[i] = e
  BY <1>1
<1> HIDE DEF a
<1>3. Range(a) = Range(s) \cup {e}
  BY <1>2 DEF Range
<1> QED BY <1>3 DEF a

LEMMA TailRange ==
    ASSUME NEW S, NEW s \in Seq(S), s # <<>>
    PROVE  Range(s) = {Head(s)} \cup Range(Tail(s))
<1>1. /\ DOMAIN s = 1..Len(s) /\ DOMAIN Tail(s) = 1..Len(s) - 1 /\ Len(s) \in Nat \ {0}
      /\ Head(s) = s[1] /\ Len(Tail(s)) = Len(s) - 1
      /\ \A i \in 1..Len(Tail(s)) : Tail(s)[i] = s[i + 1]
  BY TailTyped
<1> DEFINE u == Tail(s)
<1>2. \A i \in DOMAIN u : i + 1 \in DOMAIN s /\ u[i] = s[i + 1]
  BY <1>1
<1>3. \A i \in DOMAIN s : i = 1 \/ \E j \in DOMAIN u : u[j] = s[i]
  <2> TAKE i \in DOMAIN s
  <2>1. i # 1 => i - 1 \in DOMAIN u /\ (i - 1) + 1 = i
    BY <1>1
  <2> QED BY <1>2, <2>1
<1>4. 1 \in DOMAIN s
  BY <1>1
<1> HIDE DEF u
<1>5. Range(s) = {s[1]} \cup Range(u)
  BY <1>2, <1>3, <1>4 DEF Range
<1> QED BY <1>1, <1>5 DEF u
=============================================================================
