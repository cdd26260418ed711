------------------------- MODULE ClientTimingProofs -------------------------
(***************************************************************************)
(* The time limits of a client whose threads are faster than the clock,    *)
(* whatever the network loses, delays or duplicates, and however many      *)
(* remotes it measures: it ends within three timeouts of its last packet,  *)
(* and a reply that it read before the timeout of its packet counts.       *)
(***************************************************************************)
EXTENDS ClientClosingProofs

USE TimeoutAssumption, BoundsAssumption

(* The program's threads are faster than the clock, and recvmsg times out.  *)
PromptThreads == Prompt /\ Timeout # 0

(* The receiver enters recvmsg within a timeout of the last packet and      *)
(* leaves it a timeout later; until then observations may come, and an      *)
(* entry made of them stays for a timeout more.                             *)
ReceiverInTime ==
    /\ pc["receiver"] = "recv" => since_completed <= Timeout - 1 + recv_wait
    /\ pc["receiver"] \notin {"recv", "done"} => since_completed <= 2 * Timeout - 1

ObservationsInTime ==
    pc["collator"] # "done" /\ (observation_list # <<>> \/ Processing)
        => since_completed <= 2 * Timeout - 1

EntriesInTime ==
    pc["collator"] # "done" =>
        \A i \in Live : since_completed <= 2 * Timeout - 1 + raw_data[i].age

(* The collator looks at the oldest entry only; no other is older.          *)
AgesInOrder == \A i, j \in Live : i <= j => raw_data[j].age <= raw_data[i].age

TimeInv ==
    /\ ~sending_completed => since_completed = 0
    /\ sending_completed => pc["sender"] = "done"
    /\ ReceiverInTime /\ ObservationsInTime /\ EntriesInTime /\ AgesInOrder
    /\ since_completed <= 3 * Timeout

(* The types of what the invariant compares.                                *)
LEMMA TimeTypes ==
    ASSUME Typed
    PROVE  /\ since_completed \in Nat /\ recv_wait \in 0..Timeout
           /\ popped \in Nat /\ popped <= Len(raw_data) /\ Len(raw_data) \in Nat
           /\ \A i \in 1..Len(raw_data) : raw_data[i] \in RawData
           /\ \A i \in 1..Len(raw_data) : raw_data[i].age \in 0..Timeout + 1
           /\ Live \subseteq 1..Len(raw_data)
<1>1. \A i \in 1..Len(raw_data) : raw_data[i] \in RawData
  BY TypedQueues
<1>2. \A e \in RawData : e.age \in 0..Timeout + 1
  BY DEF RawData
<1>3. since_completed \in Nat /\ recv_wait \in 0..Timeout
  BY DEF Typed, TypeOK
<1> QED BY <1>1, <1>2, <1>3, TypedQueues DEF Live

(* The age of an entry in the list.                                         *)
LEMMA AgesTyped ==
    ASSUME NEW d \in Seq(RawData), NEW p \in Nat
    PROVE  \A i \in p + 1 .. Len(d) : d[i].age \in Nat
<1>1. \A i \in p + 1 .. Len(d) : i \in 1..Len(d)
  OBVIOUS
<1>2. \A i \in 1..Len(d) : d[i] \in RawData
  OBVIOUS
<1> QED BY <1>1, <1>2 DEF RawData

(* process_observation changes no age, and a new entry has none.            *)
LEMMA UpdateAges ==
    ASSUME Typed, CollatorUpdate
    PROVE  /\ \A i \in 1..Len(raw_data) : raw_data'[i].age = raw_data[i].age
           /\ Len(raw_data') \in {Len(raw_data), Len(raw_data) + 1}
           /\ Len(raw_data') = Len(raw_data) + 1 => raw_data'[Len(raw_data) + 1].age = 0
<1>1. raw_data \in Seq(RawData) /\ Len(raw_data) \in Nat /\ tmp_obs \in Observation
  BY TypedQueues
<1>2. CASE entry = 0
  <2>1. raw_data' = Append(raw_data, NewEntry(tmp_obs)) /\ NewEntry(tmp_obs) \in RawData
    BY <1>1, <1>2, NewEntryTyped DEF CollatorUpdate
  <2>2. NewEntry(tmp_obs).age = 0
    BY DEF NewEntry
  <2> QED BY <1>1, <2>1, <2>2, AppendTyped
<1>3. CASE entry # 0
  <2>1. entry \in 1..Len(raw_data)
    BY <1>1, <1>3 DEF Typed, TypeOK
  <2>2. raw_data' = [raw_data EXCEPT ![entry] = Stamped(raw_data[entry], tmp_obs)]
    BY <1>3 DEF CollatorUpdate
  <2>3. raw_data[entry] \in RawData
    BY <1>1, <2>1
  <2>4. Stamped(raw_data[entry], tmp_obs).age = raw_data[entry].age
    BY <2>3 DEF Stamped, RawData
  <2> QED BY <1>1, <2>1, <2>2, <2>4
<1> QED BY <1>2, <1>3

(* A step of one thread while the others and the clock stand still.         *)
TimeFrame ==
    /\ UNCHANGED <<since_completed, sending_completed>>
    /\ sending_completed => pc'["sender"] = "done"
    /\ pc'["collator"] = "done" \/ pc["collator"] # "done"
    /\ popped' >= popped /\ UNCHANGED raw_data

(* Such a step can only disturb what concerns the receiver and the queue.   *)
LEMMA TimeFrameStep ==
    ASSUME Typed, Typed', TimeInv, TimeFrame, ReceiverInTime', ObservationsInTime'
    PROVE  TimeInv'
<1>1. Live' \subseteq Live
  <2>1. popped' \in Nat /\ popped' >= popped /\ raw_data' = raw_data
    BY DEF TimeFrame, Typed, TypeOK
  <2> QED BY <2>1, TimeTypes DEF Live
<1> QED BY <1>1 DEF TimeInv, TimeFrame, EntriesInTime, AgesInOrder

(* The steps of the threads.                                                *)
LEMMA TimeThreads ==
    ASSUME PromptThreads, Typed, Typed', TimeInv, Next, ~Tick
    PROVE  TimeInv'
<1>1. /\ pc \in [Threads -> Labels] /\ since_completed \in Nat /\ recv_wait \in 0..Timeout
      /\ popped \in Nat
  BY TimeTypes DEF Typed, TypeOK
<1> USE DEF At, Goto, Return, Threads, Closers, Processing, senderVars, collatorVars, listVars,
            closeVars, netVars, timeVars, flagVars, PromptThreads
<1>2. CASE SenderNext \/ SendOk \/ SendFail
  BY <1>1, <1>2, TimeFrameStep
     DEF TimeFrame, TimeInv, ReceiverInTime, ObservationsInTime, SenderNext, SendOk, SendFail
<1>3. CASE SenderDone
  BY <1>1, <1>3
     DEF TimeInv, ReceiverInTime, ObservationsInTime, EntriesInTime, AgesInOrder, Live, SenderDone
<1>4. CASE SenderObserve
  BY <1>1, <1>4, TimeFrameStep
     DEF TimeFrame, TimeInv, ReceiverInTime, ObservationsInTime, SenderObserve
<1>5. CASE ReceiverContinue
  BY <1>1, <1>5, TimeFrameStep
     DEF TimeFrame, TimeInv, ReceiverInTime, ObservationsInTime, ReceiverContinue, KeepReceiving
<1>6. CASE ReceiverStop \/ RecvTimeout \/ Enqueue
  BY <1>1, <1>6, TimeFrameStep
     DEF TimeFrame, TimeInv, ReceiverInTime, ObservationsInTime, ReceiverStop, RecvTimeout, Enqueue
<1>7. ASSUME NEW m \in network, RecvPacket(m) \/ RecvTruncated(m) \/ Lose(m) PROVE TimeInv'
  BY <1>1, <1>7, TimeFrameStep
     DEF TimeFrame, TimeInv, ReceiverInTime, ObservationsInTime, RecvPacket, RecvTruncated, Lose
<1>8. ASSUME NEW t \in Closers, Peek(t) \/ JudgeEmpty(t) \/ JudgeEntry(t) PROVE TimeInv'
  BY <1>1, <1>8, TimeFrameStep
     DEF TimeFrame, TimeInv, ReceiverInTime, ObservationsInTime, Peek, JudgeEmpty, JudgeEntry
<1>9. ASSUME NEW t \in Closers, AggregateForward(t) \/ AggregateRest(t) PROVE TimeInv'
  BY <1>1, <1>9, TimeFrameStep
     DEF TimeFrame, TimeInv, ReceiverInTime, ObservationsInTime, AggregateForward, AggregateRest
<1>10. ASSUME NEW t \in Closers, Pop(t) \/ PopEmpty(t) PROVE TimeInv'
  <2>1. /\ UNCHANGED <<since_completed, sending_completed, recv_wait, raw_data, observation_list>>
        /\ popped' = popped + 1 \/ popped' = popped
        /\ pc[t] = "pop"
        /\ pc' = [pc EXCEPT ![t] = "loop"] \/ pc' = pc
    <3>1. CASE Pop(t)
      BY <3>1 DEF Pop
    <3>2. CASE PopEmpty(t)
      BY <3>2 DEF PopEmpty
    <3> QED BY <1>10, <3>1, <3>2
  <2>2. TimeFrame /\ ReceiverInTime' /\ ObservationsInTime'
    BY <1>1, <2>1 DEF TimeFrame, TimeInv, ReceiverInTime, ObservationsInTime
  <2> QED BY <2>2, TimeFrameStep
<1>11. CASE CollatorStart \/ CollatorLoop \/ CollatorPoll \/ CollatorFind
  BY <1>1, <1>11, TimeFrameStep
     DEF TimeFrame, TimeInv, ReceiverInTime, ObservationsInTime, CollatorStart, CollatorLoop,
         CollatorPoll, CollatorFind
<1>12. CASE CollatorPopObs
  BY <1>1, <1>12, TimeFrameStep
     DEF TimeFrame, TimeInv, ReceiverInTime, ObservationsInTime, CollatorPopObs, Typed,
         ObservationPopSafe
<1>13. CASE CollatorUpdate
  <2>1. since_completed <= 2 * Timeout - 1
    BY <1>13 DEF CollatorUpdate, TimeInv, ObservationsInTime
  <2>2. /\ UNCHANGED <<popped, since_completed, sending_completed, recv_wait, observation_list>>
        /\ pc' = [pc EXCEPT !["collator"] = "loop"]
    BY <1>13 DEF CollatorUpdate
  <2>3. \A i \in Live' : raw_data'[i].age \in Nat
    <3>1. raw_data' \in Seq(RawData) /\ popped' \in Nat
      BY DEF Typed, TypeOK
    <3> QED BY <3>1, AgesTyped DEF Live
  <2>4. EntriesInTime'
    BY <1>1, <2>1, <2>2, <2>3 DEF EntriesInTime
  <2>5. AgesInOrder'
    <3>1. /\ \A i \in 1..Len(raw_data) : raw_data'[i].age = raw_data[i].age
          /\ Len(raw_data') \in {Len(raw_data), Len(raw_data) + 1}
          /\ Len(raw_data') = Len(raw_data) + 1 => raw_data'[Len(raw_data) + 1].age = 0
      BY <1>13, UpdateAges
    <3>2. \A i \in Live' : i \in Live \/ (i = Len(raw_data) + 1 /\ Len(raw_data') = Len(raw_data) + 1)
      BY <2>2, <3>1, TimeTypes DEF Live
    <3>3. \A i \in Live : i \in 1..Len(raw_data) /\ i < Len(raw_data) + 1
      BY TimeTypes
    <3> SUFFICES ASSUME NEW i \in Live', NEW j \in Live', i <= j
                 PROVE  raw_data'[j].age <= raw_data'[i].age
      BY DEF AgesInOrder
    <3>4. CASE j \notin Live
      <4>1. raw_data'[j].age = 0
        BY <3>1, <3>2, <3>4
      <4> QED BY <2>3, <4>1
    <3>5. CASE j \in Live
      <4>1. i \in Live
        BY <3>2, <3>3, <3>5
      <4>2. raw_data[j].age <= raw_data[i].age
        BY <3>5, <4>1 DEF TimeInv, AgesInOrder
      <4> QED BY <3>1, <3>3, <3>5, <4>1, <4>2
    <3> QED BY <3>4, <3>5
  <2> QED BY <1>1, <2>1, <2>2, <2>4, <2>5 DEF TimeInv, ReceiverInTime, ObservationsInTime
<1>14. CASE Terminating
  BY <1>14 DEF Terminating, vars, TimeInv, ReceiverInTime, ObservationsInTime, EntriesInTime,
                 AgesInOrder, Live
<1> QED
  BY <1>2, <1>3, <1>4, <1>5, <1>6, <1>7, <1>8, <1>9, <1>10, <1>11, <1>12, <1>13, <1>14
     DEF Next, Sender, Receiver, Collator, Check

(* A second passes.                                                         *)
LEMMA TimeTick ==
    ASSUME PromptThreads, Typed, Typed', TimeInv, Tick
    PROVE  TimeInv'
<1>1. /\ since_completed \in Nat /\ recv_wait \in 0..Timeout /\ since_completed' \in Nat
  BY DEF Typed, TypeOK
<1>2. /\ UNCHANGED <<pc, sending_completed, observation_list, popped>>
      /\ since_completed' <= since_completed + 1
      /\ ~sending_completed => since_completed' = since_completed
      /\ pc["receiver"] = "recv" => recv_wait' = Saturate(recv_wait, Timeout)
  BY <1>1 DEF Tick, Saturate, flagVars
<1>3. Quiet /\ ~AllDone
  BY DEF Tick, PromptThreads
<1>4. pc["collator"] # "done" => observation_list = <<>> /\ ~Processing
  BY <1>3 DEF Quiet, Processing
<1>5. pc["receiver"] = "done" \/ (pc["receiver"] = "recv" /\ recv_wait < Timeout)
  BY <1>3 DEF Quiet, PromptThreads
<1>6. ReceiverInTime'
  BY <1>1, <1>2, <1>5 DEF ReceiverInTime, TimeInv, Saturate
<1>7. ObservationsInTime'
  BY <1>2, <1>4 DEF ObservationsInTime, Processing
<1>8. pc["collator"] # "done" => \A i \in Live : raw_data[i].age <= Timeout
  <2> SUFFICES ASSUME pc["collator"] # "done", NEW i \in Live PROVE raw_data[i].age <= Timeout
    OBVIOUS
  <2>1. popped + 1 \in Live /\ popped + 1 <= i /\ i \in 1..Len(raw_data)
    BY TimeTypes DEF Live
  <2>2. raw_data[popped + 1].age <= Timeout
    BY <1>3, <2>1 DEF Quiet
  <2>3. raw_data[i].age <= raw_data[popped + 1].age
    BY <2>1 DEF TimeInv, AgesInOrder
  <2>4. raw_data[i].age \in Nat /\ raw_data[popped + 1].age \in Nat
    BY <2>1, TimeTypes
  <2> QED BY <2>2, <2>3, <2>4
<1>9. \A i \in Live : raw_data'[i].age = Saturate(raw_data[i].age, Timeout + 1)
  BY TimeTypes DEF Tick, InUse, RawData
<1>10. Len(raw_data') = Len(raw_data) /\ Live' = Live
  BY <1>2, TickRawData DEF Live
<1>11. \A i \in Live : raw_data[i].age \in Nat
  BY TimeTypes
<1>12. pc["collator"] # "done" => \A i \in Live : raw_data'[i].age = raw_data[i].age + 1
  BY <1>8, <1>9, <1>11 DEF Saturate
<1>13. EntriesInTime'
  <2> SUFFICES ASSUME pc["collator"] # "done", NEW i \in Live
               PROVE  since_completed' <= 2 * Timeout - 1 + raw_data'[i].age
    BY <1>2, <1>10 DEF EntriesInTime
  <2>1. since_completed <= 2 * Timeout - 1 + raw_data[i].age
    BY DEF TimeInv, EntriesInTime
  <2> QED BY <1>1, <1>2, <1>11, <1>12, <2>1
<1>14. sending_completed => since_completed < 3 * Timeout
  <2> SUFFICES ASSUME sending_completed PROVE since_completed < 3 * Timeout
    OBVIOUS
  <2>1. CASE pc["collator"] = "done"
    <3>1. pc["receiver"] = "recv" /\ recv_wait < Timeout
      BY <1>3, <1>5, <2>1 DEF TimeInv, AllDone, Threads
    <3> QED BY <1>1, <3>1 DEF TimeInv, ReceiverInTime
  <2>2. CASE pc["collator"] # "done"
    <3>1. PICK i \in Live : TRUE
      BY <1>3, <2>2 DEF Quiet
    <3>2. since_completed <= 2 * Timeout - 1 + raw_data[i].age /\ raw_data[i].age <= Timeout
      BY <1>8, <2>2 DEF TimeInv, EntriesInTime
    <3> QED BY <1>1, <1>11, <3>2
  <2> QED BY <2>1, <2>2
<1>15. AgesInOrder'
  <2> SUFFICES ASSUME NEW i \in Live, NEW j \in Live, i <= j
               PROVE  raw_data'[j].age <= raw_data'[i].age
    BY <1>10 DEF AgesInOrder
  <2>1. raw_data[j].age <= raw_data[i].age
    BY DEF TimeInv, AgesInOrder
  <2> QED BY <1>9, <1>11, <2>1 DEF Saturate
<1> QED BY <1>1, <1>2, <1>6, <1>7, <1>13, <1>14, <1>15 DEF TimeInv

(* The client ends within three timeouts after its last packet: see         *)
(* EndsInTime.  It needs threads that are prompt, and nothing of the        *)
(* network.                                                                 *)
THEOREM EndsWithinThreeTimeouts ==
    ASSUME PromptThreads
    PROVE  Spec => []EndsInTime
<1>1. Init => TimeInv
  BY DEF Init, TimeInv, ReceiverInTime, ObservationsInTime, EntriesInTime, AgesInOrder,
         Processing, Live, Threads, PromptThreads
<1>2. Typed /\ Typed' /\ TimeInv /\ Next => TimeInv'
  BY TimeThreads, TimeTick
<1>3. TimeInv /\ UNCHANGED vars => TimeInv'
  BY DEF TimeInv, ReceiverInTime, ObservationsInTime, EntriesInTime, AgesInOrder, Processing,
         Live, vars, listVars, collatorVars, timeVars, flagVars
<1>4. Spec => []Typed
  BY TypedCorrect, PTL
<1>5. TimeInv => EndsInTime
  BY DEF TimeInv, EndsInTime
<1> QED BY <1>1, <1>2, <1>3, <1>4, <1>5, PTL DEF Spec

-----------------------------------------------------------------------------
(* A reply that is read in time is counted                                  *)

ReplyPoints == ObservationPoints \ {"CLIENT_SEND"}

(* The observations on their way from the two other threads to raw_data.    *)
Motion == Range(pending) \cup Range(observation_list) \cup (IF Processing THEN {tmp_obs} ELSE {})
Moving(p, k) == \E o \in Motion : o.point = p /\ o.id = k
SendToCome(k) == k >= index \/ Moving("CLIENT_SEND", k)
Stored(p, k) == \E i \in 1..Len(raw_data) : raw_data[i].id = k /\ raw_data[i].at[p] # 0

(* An entry that may still be completed.                                    *)
Open(i) == i \in Live /\ raw_data[i].age < Timeout

(* Of a packet with a reply in time, nothing is closed before its           *)
(* CLIENT_SEND time is stored, and the reply's times are stored or on their *)
(* way;                                                                     *)
AwaitsSend ==
    \A k \in in_time : SendToCome(k) =>
        /\ \A i \in 1..Len(raw_data) : raw_data[i].id = k => Open(i)
        /\ \A p \in ReplyPoints : Moving(p, k) \/ Stored(p, k)

(* and when it is stored, so are the reply's times, or they are on their    *)
(* way and the entry waits for them.                                        *)
AwaitsReply ==
    \A i \in 1..Len(raw_data) : raw_data[i].id \in in_time /\ HasSend(raw_data[i]) =>
        \A p \in ReplyPoints :
            raw_data[i].at[p] # 0 \/ (Moving(p, raw_data[i].id) /\ Open(i))

(* An entry is closed because it is complete or old.                        *)
JudgedInv ==
    \A t \in Closers : pc[t] \in Closing =>
        Complete(raw_data[oldest[t]].at) \/ raw_data[oldest[t]].age >= Timeout

(* A row with a loss leaves no entry behind for which a reply could still   *)
(* be in time.                                                              *)
RowsJudged ==
    \A i \in 1..Len(rows) :
        /\ i <= Len(raw_data) /\ rows[i].id = raw_data[i].id
        /\ Complete(rows[i].at) \/ ~HasSend(rows[i]) \/ ~Open(i)
RowsTrue ==
    \A i \in 1..Len(rows) : HasSend(rows[i]) /\ rows[i].id \in in_time => Complete(rows[i].at)

CountedInv == AwaitsSend /\ AwaitsReply /\ JudgedInv /\ RowsJudged /\ RowsTrue

(* What that rests on: replies come only to what was sent, and no second    *)
(* passes between the remotes of a packet;                                  *)
Busy == pc["sender"] = "observe" \/ (pc["sender"] = "send" /\ next_remote > 1)
SentTo(k) == k < index \/ (k = index /\ Busy)
SentInv == (\A k \in in_time : SentTo(k)) /\ (\A m \in network : SentTo(m.id))

(* the collator is there for them; and the entry it found is still the only *)
(* one it could have found.                                                 *)
FoundInv ==
    /\ pc["receiver"] # "enqueue" => pending = <<>>
    /\ in_time # {} => collator_started
    /\ collator_started /\ pc["collator"] = "done" => collator_finished
    /\ pc["collator"] = "update" /\ entry # 0 =>
         \A j \in Live : raw_data[j].id = tmp_obs.id => j = entry

LossInv == SentInv /\ FoundInv /\ (collator_finished \/ TwoVerdicts \/ CountedInv)

(* Every step keeps SentInv.                                                *)
LEMMA SentStep ==
    ASSUME Typed, SentInv, Next
    PROVE  SentInv'
<1>1. /\ pc \in [Threads -> Labels] /\ index \in Nat /\ next_remote \in Nat \ {0}
      /\ \A m \in network : m.id \in Nat
      /\ in_time \subseteq Nat
  <2>1. /\ pc \in [Threads -> Labels] /\ next_remote \in Remotes /\ in_time \subseteq Nat
    BY DEF Typed, TypeOK
  <2> QED BY <2>1, ClientTypes DEF Remotes
<1> USE DEF At, Goto, Threads, senderVars, collatorVars, listVars, closeVars, netVars, timeVars,
            flagVars
<1>2. CASE SendOk
  <2> DEFINE n == [to |-> next_remote, id |-> index]
  <2>1. n.id = index /\ network' = network \cup {n} /\ UNCHANGED <<index, in_time>>
    BY <1>2 DEF SendOk
  <2> HIDE DEF n
  <2>2. Busy'
    BY <1>1, <1>2 DEF SendOk, Busy
  <2> QED BY <2>1, <2>2 DEF SentInv, SentTo
<1>3. CASE SendFail \/ SenderObserve
  <2>1. index' = index + 1 /\ UNCHANGED <<network, in_time>>
    BY <1>3 DEF SendFail, SenderObserve
  <2> QED BY <1>1, <2>1 DEF SentInv, SentTo
<1>4. ASSUME UNCHANGED <<index, next_remote>>,
             pc'["sender"] = pc["sender"] \/ ~Busy,
             network' \subseteq network,
             \A k \in in_time' : k \in in_time \/ \E m \in network : k = m.id
      PROVE  SentInv'
  BY <1>4 DEF SentInv, SentTo, Busy
<1>5. CASE SenderNext \/ SenderDone
  BY <1>1, <1>4, <1>5 DEF SenderNext, SenderDone, Busy
<1>6. ASSUME NEW m \in network, RecvPacket(m) \/ RecvTruncated(m) PROVE SentInv'
  BY <1>1, <1>4, <1>6 DEF RecvPacket, RecvTruncated, Deliver
<1>7. ASSUME NEW m \in network, Lose(m) PROVE SentInv'
  BY <1>1, <1>4, <1>7 DEF Lose
<1>8. CASE ReceiverContinue \/ ReceiverStop \/ RecvTimeout \/ Enqueue
  BY <1>1, <1>4, <1>8 DEF ReceiverContinue, ReceiverStop, RecvTimeout, Enqueue
<1>9. ASSUME NEW t \in Closers, Check(t) PROVE SentInv'
  <2>1. UNCHANGED <<index, next_remote, network, in_time>>
    BY <1>9 DEF Check, Peek, JudgeEmpty, JudgeEntry, AggregateForward, AggregateRest, Pop, PopEmpty
  <2>2. t # "sender"
    BY DEF Closers
  <2>3. pc'["sender"] = pc["sender"]
    BY <1>1, <1>9, <2>2
       DEF Check, Peek, JudgeEmpty, JudgeEntry, AggregateForward, AggregateRest, Pop, PopEmpty,
           Return
  <2> QED BY <1>4, <2>1, <2>3
<1>10. CASE CollatorStart \/ CollatorLoop \/ CollatorPoll \/ CollatorPopObs \/ CollatorFind
              \/ CollatorUpdate
  BY <1>1, <1>4, <1>10
     DEF CollatorStart, CollatorLoop, CollatorPoll, CollatorPopObs, CollatorFind, CollatorUpdate
<1>11. CASE Tick \/ Terminating
  BY <1>4, <1>11 DEF Tick, Terminating, vars
<1> QED
  BY <1>2, <1>3, <1>5, <1>6, <1>7, <1>8, <1>9, <1>10, <1>11
     DEF Next, Sender, Receiver, Collator, Closers

(* Every step keeps FoundInv.                                               *)
LEMMA FoundStep ==
    ASSUME Typed, Typed', PipelineInv, FoundInv, Next
    PROVE  FoundInv'
<1>1. /\ pc \in [Threads -> Labels] /\ popped \in 0..Len(raw_data) /\ Len(raw_data) \in Nat
      /\ pending \in Seq(Observation)
      /\ pc["receiver"] = "enqueue" => pending # <<>>
  BY TypedQueues DEF Typed, TypeOK
<1> USE DEF At, Goto, Return, Threads, Closers, senderVars, collatorVars, listVars, closeVars,
            netVars, timeVars, flagVars, FoundInv
<1>2. ASSUME NEW m \in network, RecvPacket(m) PROVE FoundInv'
  BY <1>1, <1>2 DEF RecvPacket, Live
<1>3. ASSUME NEW m \in network, RecvTruncated(m) \/ Lose(m) PROVE FoundInv'
  BY <1>1, <1>3 DEF RecvTruncated, Lose, Live
<1>4. CASE Enqueue
  <2>1. Len(pending) = 1 => pending' = <<>>
    <3>1. pending # <<>> /\ pending' = Tail(pending)
      BY <1>1, <1>4 DEF Enqueue
    <3>2. Len(pending') = Len(pending) - 1 /\ pending' \in Seq(Observation)
      BY <1>1, <3>1, TailTyped
    <3> QED BY <3>2
  <2> QED BY <1>1, <1>4, <2>1 DEF Enqueue, Live
<1>5. CASE Sender
  BY <1>1, <1>5 DEF Sender, SenderNext, SenderDone, SendOk, SendFail, SenderObserve, Live
<1>6. CASE ReceiverContinue \/ ReceiverStop \/ RecvTimeout
  BY <1>1, <1>6 DEF ReceiverContinue, ReceiverStop, RecvTimeout, Live
<1>7. ASSUME NEW t \in Closers, Check(t) PROVE FoundInv'
  <2>1. /\ UNCHANGED <<pending, in_time, collator_started, entry, tmp_obs, raw_data>>
        /\ collator_finished => collator_finished'
    BY <1>7 DEF Check, Peek, JudgeEmpty, JudgeEntry, AggregateForward, AggregateRest, Pop, PopEmpty
  <2>2. /\ pc[t] \notin {"enqueue", "update", "done"}
        /\ pc'[t] \notin {"enqueue", "update", "done"}
        /\ \A u \in Threads : u # t => pc'[u] = pc[u]
    BY <1>1, <1>7
       DEF Check, Peek, JudgeEmpty, JudgeEntry, AggregateForward, AggregateRest, Pop, PopEmpty
  <2>3. Live' \subseteq Live
    <3>1. popped' \in {popped, popped + 1}
      BY <1>7
         DEF Check, Peek, JudgeEmpty, JudgeEntry, AggregateForward, AggregateRest, Pop, PopEmpty
    <3> QED BY <1>1, <2>1, <3>1 DEF Live
  <2> QED BY <2>1, <2>2, <2>3
<1>8. CASE CollatorStart \/ CollatorLoop \/ CollatorPoll \/ CollatorPopObs
  BY <1>1, <1>8 DEF CollatorStart, CollatorLoop, CollatorPoll, CollatorPopObs
<1>9. CASE CollatorFind
  <2>1. /\ UNCHANGED <<pending, in_time, collator_started, tmp_obs, raw_data, popped>>
        /\ pc'["receiver"] = pc["receiver"] /\ pc'["collator"] = "update"
    BY <1>1, <1>9 DEF CollatorFind
  <2>2. entry' # 0 => entry' \in Live /\ raw_data[entry'].id = tmp_obs.id
    BY <1>9 DEF CollatorFind, Matching
  <2>3. LiveEntriesDistinct /\ Live' = Live
    BY <2>1 DEF PipelineInv, Live
  <2> QED BY <2>1, <2>2, <2>3 DEF LiveEntriesDistinct
<1>10. CASE CollatorUpdate
  BY <1>1, <1>10 DEF CollatorUpdate
<1>11. CASE Tick
  <2>1. /\ Len(raw_data') = Len(raw_data)
        /\ \A i \in 1..Len(raw_data) : raw_data'[i].id = raw_data[i].id
    BY <1>11, TickRawData
  <2>2. Live' = Live /\ Live \subseteq 1..Len(raw_data)
    BY <1>1, <1>11, <2>1 DEF Tick, Live
  <2> QED BY <1>11, <2>1, <2>2 DEF Tick
<1>12. CASE Terminating
  BY <1>12 DEF Terminating, vars, Live
<1> QED
  BY <1>2, <1>3, <1>4, <1>5, <1>6, <1>7, <1>8, <1>9, <1>10, <1>11, <1>12
     DEF Next, Receiver, Collator

(* A step that changes and closes no entry, makes no CLIENT_SEND time due   *)
(* and loses no time of a reply.                                            *)
CountedFrame ==
    /\ UNCHANGED <<raw_data, popped, rows, in_time>>
    /\ \A k \in in_time : SendToCome(k)' => SendToCome(k)
    /\ \A p \in ReplyPoints, k \in in_time : Moving(p, k) => Moving(p, k)'
    /\ \A t \in Closers : pc'[t] \in Closing => pc[t] \in Closing /\ oldest'[t] = oldest[t]

(* Such a step keeps CountedInv.                                            *)
LEMMA CountedFrameStep ==
    ASSUME CountedInv, CountedFrame
    PROVE  CountedInv'
<1>1. Live' = Live /\ \A i \in 1..Len(raw_data) : Open(i)' <=> Open(i)
  BY DEF CountedFrame, Open, Live
<1>2. \A p, k : Stored(p, k)' <=> Stored(p, k)
  BY DEF CountedFrame, Stored
<1>3. AwaitsSend'
  BY <1>1, <1>2 DEF CountedFrame, CountedInv, AwaitsSend
<1>4. AwaitsReply'
  BY <1>1 DEF CountedFrame, CountedInv, AwaitsReply
<1>5. JudgedInv'
  BY DEF CountedFrame, CountedInv, JudgedInv
<1>6. RowsJudged' /\ RowsTrue'
  BY <1>1 DEF CountedFrame, CountedInv, RowsJudged, RowsTrue
<1> QED BY <1>3, <1>4, <1>5, <1>6 DEF CountedInv

(* Observations that go on from one place to the next are the same.         *)
LEMMA MotionFrame ==
    ASSUME Typed, UNCHANGED <<raw_data, popped, rows, in_time>>,
           index' \in {index, index + 1}, Motion' = Motion,
           \A t \in Closers : pc'[t] \in Closing => pc[t] \in Closing /\ oldest'[t] = oldest[t]
    PROVE  CountedFrame
<1>1. \A p, k : Moving(p, k)' <=> Moving(p, k)
  BY DEF Moving
<1>2. \A k \in in_time : k >= index' => k >= index
  BY DEF Typed, TypeOK
<1> QED BY <1>1, <1>2 DEF CountedFrame, SendToCome

(* The steps that are framed so.                                            *)
LEMMA CountedFrameSteps ==
    ASSUME Typed, FoundInv, Next, ~Tick, ~CollatorUpdate,
           \A m \in network : ~RecvPacket(m),
           \A t \in Closers : ~Judges(t) /\ ~AggregateRest(t) /\ ~Pop(t)
    PROVE  CountedFrame
<1>1. /\ pc \in [Threads -> Labels] /\ oldest \in [Closers -> 0..Len(raw_data)]
  BY DEF Typed, TypeOK
<1> USE DEF At, Goto, Return, Threads, Closers, Closing, Processing, senderVars, collatorVars,
            listVars, closeVars, netVars, timeVars, flagVars
<1>2. CASE SenderNext \/ SenderDone \/ SendOk \/ SendFail
  BY <1>1, <1>2, MotionFrame DEF SenderNext, SenderDone, SendOk, SendFail, Motion
<1>3. CASE SenderObserve
  <2> DEFINE o == [point |-> "CLIENT_SEND", id |-> index, stamp |-> 1]
  <2>1. /\ UNCHANGED <<raw_data, popped, rows, in_time, pending, tmp_obs, oldest>>
        /\ index' = index + 1
        /\ pc'["receiver"] = pc["receiver"] /\ pc'["collator"] = pc["collator"]
        /\ observation_list' = Append(observation_list, o) \/ observation_list' = observation_list
    BY <1>1, <1>3 DEF SenderObserve
  <2>2. o \in Observation /\ o.point = "CLIENT_SEND" /\ o.id = index
    BY ClientTypes, RemotesAssumption DEF Observation, ObservationPoints, Remotes
  <2> HIDE DEF o
  <2>3. Range(observation_list') \in {Range(observation_list), Range(observation_list) \cup {o}}
    BY <2>1, <2>2, ClientTypes, AppendRange
  <2>4. Motion' \in {Motion, Motion \cup {o}}
    BY <2>1, <2>3 DEF Motion
  <2>5. \A p, k : Moving(p, k) => Moving(p, k)'
    BY <2>4 DEF Moving
  <2>6. \A k : Moving("CLIENT_SEND", k)' => Moving("CLIENT_SEND", k) \/ k = index
    BY <2>2, <2>4 DEF Moving
  <2>7. \A k \in in_time : SendToCome(k)' => SendToCome(k)
    <3>1. in_time \subseteq Nat /\ index \in Nat
      BY ClientTypes DEF Typed, TypeOK
    <3> QED BY <2>1, <2>6, <3>1 DEF SendToCome
  <2> QED BY <2>1, <2>5, <2>7 DEF CountedFrame
<1>4. CASE ReceiverContinue \/ ReceiverStop \/ RecvTimeout
  BY <1>1, <1>4, MotionFrame DEF ReceiverContinue, ReceiverStop, RecvTimeout, Motion
<1>5. ASSUME NEW m \in network, RecvTruncated(m) \/ Lose(m) PROVE CountedFrame
  BY <1>1, <1>5, MotionFrame DEF RecvTruncated, Lose, Motion
<1>6. CASE Enqueue
  <2>1. /\ UNCHANGED <<raw_data, popped, rows, in_time, tmp_obs, oldest, index>>
        /\ pc'["collator"] = pc["collator"] /\ pc'["receiver"] \in {"enqueue", "loop"}
        /\ pending # <<>> /\ Head(pending) \in Observation
        /\ observation_list' = Append(observation_list, Head(pending))
        /\ pending' = Tail(pending)
    BY <1>1, <1>6, EnqueueQueues DEF Enqueue
  <2>2. /\ Range(observation_list') = Range(observation_list) \cup {Head(pending)}
        /\ Range(pending) = {Head(pending)} \cup Range(pending')
    BY <2>1, ClientTypes, AppendRange, TailRange
  <2>3. Motion' = Motion
    BY <2>1, <2>2 DEF Motion
  <2> QED BY <2>1, <2>3, MotionFrame
<1>7. ASSUME NEW t \in Closers, Peek(t) \/ JudgeEmpty(t) \/ AggregateForward(t) \/ PopEmpty(t)
      PROVE  CountedFrame
  <2>1. /\ UNCHANGED <<raw_data, popped, rows, in_time, index, pending, observation_list, tmp_obs>>
        /\ Processing' <=> Processing
    BY <1>1, <1>7 DEF Peek, JudgeEmpty, AggregateForward, PopEmpty
  <2>2. \A u \in Closers : pc'[u] \in Closing => pc[u] \in Closing /\ oldest'[u] = oldest[u]
    BY <1>1, <1>7 DEF Peek, JudgeEmpty, AggregateForward, PopEmpty
  <2>3. Motion' = Motion
    BY <2>1 DEF Motion
  <2> QED BY <2>1, <2>2, <2>3, MotionFrame
<1>8. ASSUME NEW t \in Closers, JudgeEntry(t) PROVE CountedFrame
  <2>1. pc' = [pc EXCEPT ![t] = "loop"] /\ oldest' = [oldest EXCEPT ![t] = 0] /\ pc[t] = "judge"
    BY <1>1, <1>8 DEF JudgeEntry, Judges
  <2>2. UNCHANGED <<raw_data, popped, rows, in_time, index, pending, observation_list, tmp_obs>>
    BY <1>8 DEF JudgeEntry
  <2>3. Processing' <=> Processing
    BY <1>1, <2>1
  <2>4. Motion' = Motion
    BY <2>2, <2>3 DEF Motion
  <2> QED BY <1>1, <2>1, <2>2, <2>4, MotionFrame
<1>9. CASE CollatorStart \/ CollatorLoop \/ CollatorPoll \/ CollatorFind
  BY <1>1, <1>9, MotionFrame DEF CollatorStart, CollatorLoop, CollatorPoll, CollatorFind, Motion
<1>10. CASE CollatorPopObs
  <2>1. /\ UNCHANGED <<raw_data, popped, rows, in_time, pending, oldest, index>>
        /\ pc["collator"] = "pop_obs" /\ pc'["collator"] = "find"
        /\ pc'["receiver"] = pc["receiver"]
        /\ observation_list # <<>> /\ observation_list' = Tail(observation_list)
        /\ tmp_obs' = Head(observation_list)
    BY <1>1, <1>10 DEF CollatorPopObs, Typed, ObservationPopSafe
  <2>2. Range(observation_list) = {tmp_obs'} \cup Range(observation_list')
    BY <2>1, ClientTypes, TailRange
  <2>3. Motion' = Motion
    BY <2>1, <2>2 DEF Motion
  <2> QED BY <2>1, <2>3, MotionFrame
<1>11. CASE Terminating
  BY <1>11, MotionFrame DEF Terminating, vars, Motion
<1> QED
  BY <1>2, <1>3, <1>4, <1>5, <1>6, <1>7, <1>8, <1>9, <1>10, <1>11
     DEF Next, Sender, Receiver, Collator, Check

(* A closer decides to report an entry.                                     *)
LEMMA CountedJudge ==
    ASSUME Typed, CountedInv, NEW t \in Closers, Judges(t)
    PROVE  CountedInv'
<1> DEFINE e == raw_data[oldest[t]]
<1>0. pc \in [Threads -> Labels]
  BY ClientTypes
<1>1. /\ UNCHANGED <<raw_data, popped, rows, in_time, index, pending, observation_list, tmp_obs>>
      /\ pc[t] = "judge" /\ UNCHANGED oldest /\ pc' = [pc EXCEPT ![t] = "forward"]
  BY <1>0
     DEF Judges, JudgeEntry, At, Goto, Return, Closers, Threads, senderVars, listVars,
         netVars, collatorVars
<1>2. Complete(e.at) \/ e.age >= Timeout
  BY <1>0 DEF Judges, JudgeEntry, MaybeExpired, Return, Goto, Closers, Threads
<1>3. Processing' <=> Processing
  BY <1>0, <1>1 DEF Processing, Closers, Threads
<1>4. /\ \A p, k : Moving(p, k)' <=> Moving(p, k)
      /\ \A k : SendToCome(k)' <=> SendToCome(k)
      /\ \A p, k : Stored(p, k)' <=> Stored(p, k)
      /\ \A i \in 1..Len(raw_data) : Open(i)' <=> Open(i)
  BY <1>1, <1>3 DEF Moving, Motion, SendToCome, Stored, Open, Live
<1>5. AwaitsSend' /\ AwaitsReply' /\ RowsJudged' /\ RowsTrue'
  BY <1>1, <1>4 DEF CountedInv, AwaitsSend, AwaitsReply, RowsJudged, RowsTrue
<1>6. JudgedInv'
  <2> SUFFICES ASSUME NEW u \in Closers, pc'[u] \in Closing
               PROVE  Complete(raw_data[oldest[u]].at) \/ raw_data[oldest[u]].age >= Timeout
    BY <1>1 DEF JudgedInv
  <2>1. CASE u = t
    BY <1>2, <2>1
  <2>2. CASE u # t
    <3>1. pc[u] = pc'[u]
      BY <1>0, <1>1, <2>2 DEF Closers, Threads
    <3> QED BY <3>1 DEF CountedInv, JudgedInv
  <2> QED BY <2>1, <2>2
<1> QED BY <1>5, <1>6 DEF CountedInv

(* The verdict of a closer that is alone with the entry.                    *)
LEMMA CountedRest ==
    ASSUME Typed, TurnsInv, InTurn, CountedInv, NEW t \in Closers, AggregateRest(t)
    PROVE  CountedInv'
<1> DEFINE n == popped + 1
           e == raw_data[n]
           row == [id |-> e.id, at |-> e.at, entry |-> n]
<1>0. pc \in [Threads -> Labels]
  BY ClientTypes
<1>1. /\ UNCHANGED <<raw_data, popped, in_time, index, pending, observation_list, tmp_obs>>
      /\ pc[t] = "aggregate" /\ UNCHANGED oldest /\ pc' = [pc EXCEPT ![t] = "pop"]
  BY DEF AggregateRest, At, Goto, senderVars, listVars, netVars, collatorVars
<1>2. oldest[t] = n /\ \A u \in Closers : u # t => pc[u] \notin Closing
  BY <1>1 DEF InTurn, Closing, Closers
<1>3. Len(rows) = popped /\ n \in 1..Len(raw_data)
  <2>1. Popping = 0
    BY <1>1, <1>2 DEF Popping, Closing, Closers
  <2>2. oldest[t] # 0 /\ oldest[t] \in 0..Len(raw_data)
    BY <1>1 DEF Typed, TypeOK
  <2> QED BY <1>2, <2>1, <2>2, ClientTypes, TurnsTypes DEF TurnsInv, BalanceInv
<1>4. rows' = Append(rows, row)
  BY <1>2 DEF AggregateRest
<1>5. row \in Row /\ row.id = e.id /\ row.at = e.at
  <2>1. e \in RawData /\ n \in Nat
    BY <1>3, ClientTypes
  <2> QED BY <2>1 DEF RawData, Row
<1> HIDE DEF row, e
<1>6. /\ Len(rows') = n /\ rows'[n] = row
      /\ \A i \in 1..popped : rows'[i] = rows[i]
  BY <1>3, <1>4, <1>5, TurnsTypes, AppendTyped
<1>7. Complete(e.at) \/ e.age >= Timeout
  BY <1>1, <1>2 DEF CountedInv, JudgedInv, Closing, e
<1>8. Processing' <=> Processing
  BY <1>0, <1>1 DEF Processing, Closers, Threads
<1>9. /\ \A p, k : Moving(p, k)' <=> Moving(p, k)
      /\ \A k : SendToCome(k)' <=> SendToCome(k)
      /\ \A p, k : Stored(p, k)' <=> Stored(p, k)
      /\ \A i \in 1..Len(raw_data) : Open(i)' <=> Open(i)
  BY <1>1, <1>8 DEF Moving, Motion, SendToCome, Stored, Open, Live
<1>10. AwaitsSend' /\ AwaitsReply'
  BY <1>1, <1>9 DEF CountedInv, AwaitsSend, AwaitsReply
<1>11. JudgedInv'
  BY <1>0, <1>1, <1>2 DEF CountedInv, JudgedInv, Closing, Closers, Threads
<1>12. ~Complete(e.at) => ~Open(n)
  <2>1. e.age \in Nat /\ Timeout \in Nat
    BY <1>3, TimeTypes DEF e
  <2> QED BY <1>7, <2>1 DEF Open, e
<1>13. \A i \in 1..Len(rows') : i \in 1..Len(rows) \/ i = n
  BY <1>3, <1>6, TurnsTypes
<1>14. RowsJudged'
  <2> SUFFICES ASSUME NEW i \in 1..Len(rows')
               PROVE  /\ i <= Len(raw_data) /\ rows'[i].id = raw_data[i].id
                      /\ Complete(rows'[i].at) \/ ~HasSend(rows'[i]) \/ ~Open(i)
    <3>1. \A i \in 1..Len(rows') : i <= Len(raw_data) => i \in 1..Len(raw_data)
      BY <1>3, <1>6, TurnsTypes, ClientTypes
    <3> QED BY <1>1, <1>9, <3>1 DEF RowsJudged
  <2>1. CASE i = n
    BY <1>3, <1>5, <1>6, <1>12, <2>1, ClientTypes DEF e
  <2>2. CASE i \in 1..Len(rows)
    BY <1>3, <1>6, <2>2 DEF CountedInv, RowsJudged
  <2> QED BY <1>13, <2>1, <2>2
<1>15. RowsTrue'
  <2> SUFFICES ASSUME NEW i \in 1..Len(rows'), HasSend(rows'[i]), rows'[i].id \in in_time
               PROVE  Complete(rows'[i].at)
    BY <1>1 DEF RowsTrue
  <2>1. CASE i = n
    <3>1. HasSend(e) /\ e.id \in in_time /\ rows'[i].at = e.at
      BY <1>5, <1>6, <2>1 DEF HasSend
    <3>2. \A p \in ReplyPoints : e.at[p] # 0 \/ Open(n)
      BY <1>3, <3>1 DEF CountedInv, AwaitsReply, e
    <3> QED BY <1>12, <3>1, <3>2 DEF ReplyPoints, Complete, HasSend
  <2>2. CASE i \in 1..Len(rows)
    BY <1>3, <1>6, <2>2 DEF CountedInv, RowsTrue
  <2> QED BY <1>13, <2>1, <2>2
<1> QED BY <1>10, <1>11, <1>14, <1>15 DEF CountedInv

(* While a CLIENT_SEND time is to come no entry has it.                     *)
LEMMA NotYetStored ==
    ASSUME Typed, PipelineInv, NEW k \in Nat, SendToCome(k), NEW i \in 1..Len(raw_data),
           raw_data[i].id = k
    PROVE  ~HasSend(raw_data[i])
<1>1. CASE k >= index
  <2>1. HasSend(raw_data[i]) => k < index
    BY DEF PipelineInv, NothingFromTheFuture, EntryBefore
  <2> QED BY <1>1, <2>1, ClientTypes
<1>2. CASE Moving("CLIENT_SEND", k)
  <2>1. PICK o \in Motion : o.point = "CLIENT_SEND" /\ o.id = k
    BY <1>2 DEF Moving
  <2>2. ASSUME NEW q \in 1..Len(pending), o = pending[q] PROVE FALSE
    BY <2>1, <2>2 DEF PipelineInv, NothingFromTheFuture, IsSend
  <2>3. ASSUME NEW q \in 1..Len(observation_list), o = observation_list[q]
        PROVE  EntryBefore(raw_data[i], k)
    BY <2>1, <2>3 DEF PipelineInv, PipelineInSendOrder, IsSend
  <2>4. ASSUME Processing, o = tmp_obs PROVE EntryBefore(raw_data[i], k)
    BY <2>1, <2>4 DEF PipelineInv, PipelineInSendOrder, IsSend
  <2>5. \/ \E q \in 1..Len(pending) : o = pending[q]
        \/ \E q \in 1..Len(observation_list) : o = observation_list[q]
        \/ Processing /\ o = tmp_obs
    BY <2>1, ClientTypes DEF Motion, Range
  <2>6. EntryBefore(raw_data[i], k)
    BY <2>2, <2>3, <2>4, <2>5
  <2> QED BY <2>6 DEF EntryBefore
<1> QED BY <1>1, <1>2 DEF SendToCome

(* The removal by a closer that is alone with the entry.                    *)
LEMMA CountedPop ==
    ASSUME Typed, PipelineInv, InTurn, CountedInv, NEW t \in Closers, Pop(t)
    PROVE  CountedInv'
<1> DEFINE n == popped + 1
<1>0. pc \in [Threads -> Labels] /\ popped \in Nat /\ Len(raw_data) \in Nat
  BY ClientTypes
<1>1. /\ UNCHANGED <<raw_data, rows, in_time, index, pending, observation_list, tmp_obs>>
      /\ pc[t] = "pop" /\ pc' = [pc EXCEPT ![t] = "loop"] /\ popped' = n /\ n \in Live
      /\ oldest' = [oldest EXCEPT ![t] = 0]
  <2>1. Live # {} => n \in Live
    BY <1>0 DEF Live
  <2> QED BY <2>1 DEF Pop, Return, At, Goto, senderVars, netVars, collatorVars
<1>2. oldest[t] = n /\ \A u \in Closers : u # t => pc[u] \notin Closing
  BY <1>1 DEF InTurn, Closing, Closers
<1>3. n \in 1..Len(raw_data) /\ (Complete(raw_data[n].at) \/ ~Open(n))
  <2>1. n \in 1..Len(raw_data)
    BY <1>0, <1>1 DEF Live
  <2>2. raw_data[n].age \in Nat
    BY <2>1, TimeTypes
  <2>3. Complete(raw_data[n].at) \/ raw_data[n].age >= Timeout
    BY <1>1, <1>2 DEF CountedInv, JudgedInv, Closing
  <2> QED BY <2>1, <2>2, <2>3 DEF Open
<1>4. Processing' <=> Processing
  BY <1>0, <1>1 DEF Processing, Closers, Threads
<1>5. /\ \A p, k : Moving(p, k)' <=> Moving(p, k)
      /\ \A k : SendToCome(k)' <=> SendToCome(k)
      /\ \A p, k : Stored(p, k)' <=> Stored(p, k)
  BY <1>1, <1>4 DEF Moving, Motion, SendToCome, Stored
<1>6. \A i \in 1..Len(raw_data) : Open(i)' <=> Open(i) /\ i # n
  BY <1>0, <1>1 DEF Open, Live
<1>7. AwaitsSend'
  <2> SUFFICES ASSUME NEW k \in in_time, SendToCome(k)
               PROVE  /\ \A i \in 1..Len(raw_data) : raw_data[i].id = k => Open(i) /\ i # n
                      /\ \A p \in ReplyPoints : Moving(p, k) \/ Stored(p, k)
    BY <1>1, <1>5, <1>6 DEF AwaitsSend
  <2>1. k \in Nat
    BY DEF Typed, TypeOK
  <2>2. raw_data[n].id = k => Open(n) /\ ~HasSend(raw_data[n])
    BY <1>3, <2>1, NotYetStored DEF CountedInv, AwaitsSend
  <2>3. ~HasSend(raw_data[n]) => ~Complete(raw_data[n].at)
    BY DEF HasSend, Complete, ObservationPoints
  <2>4. raw_data[n].id # k
    BY <1>3, <2>2, <2>3
  <2> QED BY <2>4 DEF CountedInv, AwaitsSend
<1>8. AwaitsReply'
  <2> SUFFICES ASSUME NEW i \in 1..Len(raw_data), raw_data[i].id \in in_time,
                      HasSend(raw_data[i]), NEW p \in ReplyPoints
               PROVE  raw_data[i].at[p] # 0 \/ (Moving(p, raw_data[i].id) /\ Open(i) /\ i # n)
    BY <1>1, <1>5, <1>6 DEF AwaitsReply
  <2>1. raw_data[i].at[p] # 0 \/ (Moving(p, raw_data[i].id) /\ Open(i))
    BY DEF CountedInv, AwaitsReply
  <2> QED BY <1>3, <2>1 DEF Complete, ReplyPoints
<1>9. JudgedInv'
  BY <1>0, <1>1, <1>2 DEF JudgedInv, Closing, Closers, Threads
<1>10. RowsJudged' /\ RowsTrue'
  <2>1. \A i \in 1..Len(rows) : i <= Len(raw_data) => i \in 1..Len(raw_data)
    BY <1>0, TurnsTypes
  <2> QED BY <1>1, <1>6, <2>1 DEF CountedInv, RowsJudged, RowsTrue
<1> QED BY <1>7, <1>8, <1>9, <1>10 DEF CountedInv

(* process_observation takes an observation out of motion and stores it.    *)
LEMMA CountedUpdate ==
    ASSUME PromptThreads, Typed, Typed', PipelineInv, InTurn, FoundInv, CountedInv, CollatorUpdate
    PROVE  CountedInv'
<1>a. PICK n, o : n = Len(raw_data) + 1 /\ o = tmp_obs
  OBVIOUS
<1>0. /\ pc \in [Threads -> Labels] /\ popped \in Nat /\ Len(raw_data) \in Nat
      /\ popped <= Len(raw_data) /\ entry \in 0..Len(raw_data) /\ o \in Observation
      /\ Timeout \in Nat \ {0}
  BY <1>a, ClientTypes DEF PromptThreads
<1>1. /\ UNCHANGED <<popped, rows, in_time, index, pending, observation_list, oldest>>
      /\ pc["collator"] = "update" /\ pc'["collator"] = "loop" /\ pc'["receiver"] = pc["receiver"]
      /\ Processing /\ ~Processing'
  BY <1>0 DEF CollatorUpdate, At, Goto, Processing, Threads, senderVars, closeVars, netVars
<1>2. /\ Motion = Motion' \cup {o}
      /\ o.stamp # 0 /\ o.point \in ObservationPoints
  BY <1>a, <1>0, <1>1, StampSet DEF Motion
<1>3. /\ \A p, k : Moving(p, k)' => Moving(p, k)
      /\ \A p, k : Moving(p, k) => Moving(p, k)' \/ (p = o.point /\ k = o.id)
      /\ Moving(o.point, o.id)
  BY <1>2 DEF Moving
<1>4. \A k : SendToCome(k)' => SendToCome(k)
  BY <1>1, <1>3 DEF SendToCome
<1>5. /\ Len(raw_data') = IF entry = 0 THEN n ELSE Len(raw_data)
      /\ \A i \in 1..Len(raw_data) :
            /\ raw_data'[i].id = raw_data[i].id /\ raw_data'[i].age = raw_data[i].age
            /\ \A p \in ObservationPoints :
                  raw_data'[i].at[p] = IF i = entry /\ p = o.point
                                       THEN o.stamp ELSE raw_data[i].at[p]
      /\ entry # 0 => raw_data[entry].id = o.id
      /\ entry = 0 => /\ raw_data'[n].id = o.id /\ raw_data'[n].age = 0
                      /\ \A p \in ObservationPoints :
                            raw_data'[n].at[p] = IF p = o.point THEN o.stamp ELSE 0
                      /\ \A i \in Live : raw_data[i].id # o.id
  BY <1>a, UpdateEntries
<1>6. \A i \in 1..Len(raw_data') : i \in 1..Len(raw_data) \/ (entry = 0 /\ i = n)
  BY <1>a, <1>0, <1>5
<1>7. /\ 1..Len(raw_data) \subseteq 1..Len(raw_data')
      /\ entry = 0 => n \in 1..Len(raw_data')
  BY <1>a, <1>0, <1>5
<1>8. /\ \A i \in 1..Len(raw_data) : Open(i)' <=> Open(i)
      /\ entry = 0 => Open(n)'
  <2>1. \A i \in 1..Len(raw_data) : i \in Live' <=> i \in Live
    BY <1>a, <1>0, <1>1, <1>5 DEF Live
  <2>2. entry = 0 => n \in Live'
    BY <1>a, <1>0, <1>1, <1>5 DEF Live
  <2> QED BY <1>0, <1>5, <2>1, <2>2 DEF Open
<1>9. \A i \in 1..Len(raw_data), p \in ObservationPoints :
          raw_data[i].at[p] # 0 => raw_data'[i].at[p] # 0
  BY <1>2, <1>5
<1>10. /\ \A p \in ObservationPoints : \A k : Stored(p, k) => Stored(p, k)'
       /\ Stored(o.point, o.id)'
  <2>1. \A p \in ObservationPoints : \A k : Stored(p, k) => Stored(p, k)'
    BY <1>5, <1>7, <1>9 DEF Stored
  <2>2. CASE entry = 0
    BY <1>2, <1>5, <1>7, <2>1, <2>2 DEF Stored
  <2>3. CASE entry # 0
    <3>1. entry \in 1..Len(raw_data)
      BY <1>0, <2>3
    <3>2. raw_data'[entry].id = o.id /\ raw_data'[entry].at[o.point] # 0
      BY <1>2, <1>5, <2>3, <3>1
    <3> QED BY <1>7, <2>1, <3>1, <3>2 DEF Stored
  <2> QED BY <2>2, <2>3
<1>11. AwaitsSend'
  <2> SUFFICES ASSUME NEW k \in in_time, SendToCome(k)'
               PROVE  /\ \A i \in 1..Len(raw_data') : raw_data'[i].id = k => Open(i)'
                      /\ \A p \in ReplyPoints : Moving(p, k)' \/ Stored(p, k)'
    BY <1>1 DEF AwaitsSend
  <2>1. /\ \A i \in 1..Len(raw_data) : raw_data[i].id = k => Open(i)
        /\ \A p \in ReplyPoints : Moving(p, k) \/ Stored(p, k)
    BY <1>4 DEF CountedInv, AwaitsSend
  <2>2. \A i \in 1..Len(raw_data') : raw_data'[i].id = k => Open(i)'
    BY <1>5, <1>6, <1>8, <2>1
  <2> QED BY <1>3, <1>10, <2>1, <2>2 DEF ReplyPoints
<1>12. ASSUME NEW i \in 1..Len(raw_data'), NEW k \in in_time, raw_data'[i].id = k,
              HasSend(raw_data'[i]), NEW p \in ReplyPoints
       PROVE  raw_data'[i].at[p] # 0 \/ (Moving(p, k)' /\ Open(i)')
  <2>0. p \in ObservationPoints /\ p # "CLIENT_SEND" /\ "CLIENT_SEND" \in ObservationPoints
    BY DEF ReplyPoints, ObservationPoints
  <2>1. CASE i \in 1..Len(raw_data) /\ HasSend(raw_data[i])
    <3>1. k = raw_data[i].id
      BY <1>5, <1>12, <2>1
    <3>2. raw_data[i].at[p] # 0 \/ (Moving(p, k) /\ Open(i))
      BY <1>12, <2>1, <3>1 DEF CountedInv, AwaitsReply
    <3>3. CASE p = o.point /\ k = o.id /\ Open(i)
      <4>1. entry # 0 /\ i = entry
        BY <1>a, <1>1, <1>5, <3>1, <3>3 DEF FoundInv, Open
      <4> QED BY <1>2, <1>5, <2>0, <2>1, <3>3, <4>1
    <3> QED BY <1>3, <1>8, <1>9, <2>0, <2>1, <3>2, <3>3
  <2>2. CASE i \in 1..Len(raw_data) /\ ~HasSend(raw_data[i])
    <3>1. i = entry /\ o.point = "CLIENT_SEND" /\ k = o.id /\ k = raw_data[i].id
      <4>1. i = entry /\ o.point = "CLIENT_SEND"
        BY <1>5, <1>12, <2>0, <2>2 DEF HasSend
      <4> QED BY <1>0, <1>5, <1>12, <2>2, <4>1
    <3>2. k \in in_time /\ SendToCome(k)
      BY <1>3, <1>12, <3>1 DEF SendToCome
    <3>3. /\ \A j \in 1..Len(raw_data) : raw_data[j].id = k => Open(j)
          /\ Moving(p, k) \/ Stored(p, k)
      BY <3>2 DEF CountedInv, AwaitsSend
    <3>4. Open(i) /\ Open(i)'
      BY <1>8, <2>2, <3>1, <3>3
    <3>5. CASE Moving(p, k)
      BY <1>3, <2>0, <3>1, <3>4, <3>5
    <3>6. CASE Stored(p, k)
      <4>1. PICK j \in 1..Len(raw_data) : raw_data[j].id = k /\ raw_data[j].at[p] # 0
        BY <3>6 DEF Stored
      <4>2. j = i
        BY <3>1, <3>3, <3>4, <4>1 DEF Open, PipelineInv, LiveEntriesDistinct
      <4> QED BY <1>9, <2>0, <2>2, <4>1, <4>2
    <3> QED BY <3>3, <3>5, <3>6
  <2>3. CASE entry = 0 /\ i = n
    <3>1. k = o.id /\ o.point = "CLIENT_SEND"
      BY <1>5, <1>12, <2>0, <2>3 DEF HasSend
    <3>2. k \in in_time /\ SendToCome(k)
      BY <1>3, <1>12, <3>1 DEF SendToCome
    <3>3. /\ \A j \in 1..Len(raw_data) : raw_data[j].id = k => Open(j)
          /\ Moving(p, k) \/ Stored(p, k)
      BY <3>2 DEF CountedInv, AwaitsSend
    <3>4. ~Stored(p, k)
      BY <1>5, <2>3, <3>1, <3>3 DEF Stored, Open
    <3> QED BY <1>3, <1>8, <2>0, <2>3, <3>1, <3>3, <3>4
  <2> QED BY <1>6, <2>1, <2>2, <2>3
<1>13. AwaitsReply'
  BY <1>1, <1>12 DEF AwaitsReply
<1>14. JudgedInv'
  <2> SUFFICES ASSUME NEW u \in Closers, pc'[u] \in Closing
               PROVE  Complete(raw_data'[oldest[u]].at) \/ raw_data'[oldest[u]].age >= Timeout
    BY <1>1 DEF JudgedInv
  <2>1. pc[u] \in Closing
    BY <1>1 DEF Closing, Closers
  <2>2. oldest[u] \in 1..Len(raw_data)
    <3>1. oldest[u] = popped + 1 /\ oldest[u] \in 0..Len(raw_data)
      BY <2>1 DEF InTurn, Typed, TypeOK
    <3> QED BY <1>0, <3>1
  <2>3. Complete(raw_data[oldest[u]].at) \/ raw_data[oldest[u]].age >= Timeout
    BY <2>1 DEF CountedInv, JudgedInv
  <2> QED BY <1>5, <1>9, <2>2, <2>3 DEF Complete
<1>15. RowsJudged' /\ RowsTrue'
  <2>1. \A i \in 1..Len(rows) : i <= Len(raw_data) => i \in 1..Len(raw_data) /\ i <= Len(raw_data')
    BY <1>a, <1>0, <1>5, TurnsTypes
  <2> QED BY <1>1, <1>5, <1>8, <2>1 DEF CountedInv, RowsJudged, RowsTrue
<1> QED BY <1>11, <1>13, <1>14, <1>15 DEF CountedInv

(* A reply is read.                                                         *)
LEMMA CountedRecv ==
    ASSUME Typed, FoundInv, CountedInv, NEW m \in network, RecvPacket(m)
    PROVE  CountedInv'
<1>1. /\ UNCHANGED <<raw_data, popped, rows, index, observation_list, tmp_obs, oldest>>
      /\ pc["receiver"] = "recv" /\ pc'["receiver"] \in {"enqueue", "loop"}
      /\ pc'["collator"] = pc["collator"]
      /\ in_time' = in_time \cup {k \in {m.id} : collator_started /\ InTime(k)}
      /\ pending' = IF collator_started THEN ReplyObservations(m) ELSE pending
  BY ClientTypes
     DEF RecvPacket, At, Goto, Threads, senderVars, listVars, collatorVars, closeVars
<1>2. pending = <<>> /\ Range(pending) = {}
  BY <1>1 DEF FoundInv, Range
<1>3. /\ \A o \in Range(ReplyObservations(m)) : o.point # "CLIENT_SEND"
      /\ \A p \in ReplyPoints : \E o \in Range(ReplyObservations(m)) : o.point = p /\ o.id = m.id
  BY DEF ReplyObservations, Range, ReplyPoints, ObservationPoints
<1>4. Motion' = IF collator_started THEN Motion \cup Range(ReplyObservations(m)) ELSE Motion
  BY <1>1, <1>2 DEF Motion, Processing
<1>5. /\ \A p, k : Moving(p, k) => Moving(p, k)'
      /\ \A k : Moving("CLIENT_SEND", k)' => Moving("CLIENT_SEND", k)
      /\ collator_started => \A p \in ReplyPoints : Moving(p, m.id)'
  <2>1. collator_started => \A p \in ReplyPoints : \E o \in Motion' : o.point = p /\ o.id = m.id
    BY <1>3, <1>4
  <2>2. \A p, k : Moving(p, k)' <=> \E o \in Motion' : o.point = p /\ o.id = k
    BY DEF Moving
  <2> QED BY <1>3, <1>4, <2>1, <2>2 DEF Moving
<1>6. \A k : SendToCome(k)' => SendToCome(k)
  BY <1>1, <1>5 DEF SendToCome
<1>7. \A i \in 1..Len(raw_data) : Open(i)' <=> Open(i)
  BY <1>1 DEF Open, Live
<1>8. \A p, k : Stored(p, k)' <=> Stored(p, k)
  BY <1>1 DEF Stored
<1>9. \A k \in in_time' : k \in in_time \/
          /\ \A i \in 1..Len(raw_data) : raw_data[i].id = k => Open(i)
          /\ \A p \in ReplyPoints : Moving(p, k)'
  BY <1>1, <1>5 DEF InTime, Open
<1>10. AwaitsSend'
  BY <1>1, <1>5, <1>6, <1>7, <1>8, <1>9 DEF CountedInv, AwaitsSend
<1>11. AwaitsReply'
  BY <1>1, <1>5, <1>7, <1>9 DEF CountedInv, AwaitsReply
<1>12. JudgedInv'
  BY <1>1 DEF CountedInv, JudgedInv, Closing, Closers
<1>13. \A i \in 1..Len(rows) : i <= Len(raw_data) => i \in 1..Len(raw_data)
  BY ClientTypes, TurnsTypes
<1>14. RowsJudged'
  BY <1>1, <1>7, <1>13 DEF CountedInv, RowsJudged
<1>15. RowsTrue'
  BY <1>1, <1>9, <1>13 DEF CountedInv, RowsJudged, RowsTrue
<1> QED BY <1>10, <1>11, <1>12, <1>14, <1>15 DEF CountedInv

(* A second passes only when no observation is in motion.                   *)
LEMMA CountedTick ==
    ASSUME PromptThreads, Typed, SentInv, FoundInv, CountedInv, ~collator_finished, Tick
    PROVE  CountedInv'
<1>1. UNCHANGED <<pc, popped, rows, in_time, index, pending, observation_list, tmp_obs, oldest>>
  BY DEF Tick, senderVars, collatorVars, closeVars, netVars
<1>2. Quiet
  BY DEF Tick, PromptThreads
<1>3. /\ pc["receiver"] \in {"done", "recv"} /\ pc["collator"] \in {"done", "loop"}
      /\ pc["collator"] = "loop" => observation_list = <<>>
      /\ pending = <<>> /\ ~Processing
  BY <1>2 DEF Quiet, FoundInv, Processing
<1>4. ~Busy
  BY <1>2 DEF Quiet, Busy
<1>5. in_time # {} => \A p, k : ~Moving(p, k)
  <2>1. in_time # {} => observation_list = <<>>
    BY <1>3 DEF FoundInv
  <2>2. in_time # {} => Motion = {}
    BY <1>3, <2>1 DEF Motion, Range
  <2> QED BY <2>2 DEF Moving
<1>6. \A k \in in_time : ~SendToCome(k)
  <2> TAKE k \in in_time
  <2>1. k < index /\ k \in Nat /\ index \in Nat
    BY <1>4, ClientTypes DEF SentInv, SentTo, Typed, TypeOK
  <2> QED BY <1>5, <2>1 DEF SendToCome
<1>7. /\ \A p, k : Moving(p, k)' <=> Moving(p, k)
      /\ \A k : SendToCome(k)' <=> SendToCome(k)
  BY <1>1 DEF Moving, Motion, Processing, SendToCome
<1>8. /\ Len(raw_data') = Len(raw_data)
      /\ \A i \in 1..Len(raw_data) : /\ raw_data'[i].id = raw_data[i].id
                                     /\ raw_data'[i].at = raw_data[i].at
  BY TickRawData
<1>9. \A i \in 1..Len(raw_data) : Open(i)' => Open(i)
  <2> SUFFICES ASSUME NEW i \in 1..Len(raw_data), Open(i)' PROVE Open(i)
    OBVIOUS
  <2>1. i \in Live /\ raw_data'[i].age < Timeout
    BY <1>1, <1>8 DEF Open, Live
  <2>2. raw_data[i].age \in Nat
    BY TimeTypes
  <2>3. raw_data'[i].age = Saturate(raw_data[i].age, Timeout + 1)
    BY <2>1, TimeTypes DEF Tick, InUse, RawData
  <2> QED BY <2>1, <2>2, <2>3 DEF Open, Saturate
<1>10. AwaitsSend'
  BY <1>1, <1>6, <1>7 DEF AwaitsSend
<1>11. AwaitsReply'
  <2> SUFFICES ASSUME NEW i \in 1..Len(raw_data), raw_data[i].id \in in_time,
                      HasSend(raw_data[i]), NEW p \in ReplyPoints
               PROVE  raw_data[i].at[p] # 0
    BY <1>1, <1>8 DEF AwaitsReply, HasSend
  <2> QED BY <1>5 DEF CountedInv, AwaitsReply
<1>12. JudgedInv'
  BY <1>1, <1>3 DEF JudgedInv, Closing, Closers
<1>13. \A i \in 1..Len(rows) : i <= Len(raw_data) => i \in 1..Len(raw_data)
  BY ClientTypes, TurnsTypes
<1>14. RowsJudged' /\ RowsTrue'
  BY <1>1, <1>8, <1>9, <1>13 DEF CountedInv, RowsJudged, RowsTrue
<1> QED BY <1>10, <1>11, <1>12, <1>14 DEF CountedInv

(* Nothing resets collator_finished.                                        *)
LEMMA FinishedStays ==
    ASSUME Next, collator_finished
    PROVE  collator_finished'
<1> USE DEF flagVars
<1>1. CASE Sender
  BY <1>1 DEF Sender, SenderNext, SenderDone, SendOk, SendFail, SenderObserve
<1>2. ASSUME NEW t \in Closers, Check(t) PROVE collator_finished'
  BY <1>2 DEF Check, Peek, JudgeEmpty, JudgeEntry, AggregateForward, AggregateRest, Pop, PopEmpty
<1>3. CASE Receiver
  BY <1>2, <1>3
     DEF Receiver, ReceiverContinue, ReceiverStop, RecvPacket, RecvTruncated, RecvTimeout, Enqueue,
         Closers
<1>4. CASE Collator
  BY <1>2, <1>4
     DEF Collator, CollatorStart, CollatorLoop, CollatorPoll, CollatorPopObs, CollatorFind,
         CollatorUpdate, Closers
<1>5. ASSUME NEW m \in network, Lose(m) PROVE collator_finished'
  BY <1>5 DEF Lose
<1>6. CASE Tick \/ Terminating
  BY <1>6 DEF Tick, Terminating, vars
<1> QED BY <1>1, <1>3, <1>4, <1>5, <1>6 DEF Next

(* Every step keeps LossInv.                                                *)
LEMMA LossStep ==
    ASSUME PromptThreads, Typed, Typed', PipelineInv, TurnsInv, LossInv, Next
    PROVE  LossInv'
<1>1. SentInv' /\ FoundInv'
  BY SentStep, FoundStep DEF LossInv
<1>2. ASSUME ~collator_finished, ~TwoVerdicts PROVE CountedInv'
  <2>1. CountedInv /\ InTurn /\ SentInv /\ FoundInv
    BY <1>2 DEF LossInv, TurnsInv
  <2> QED
    BY <1>2, <2>1, CountedFrameSteps, CountedFrameStep, CountedJudge, CountedRest, CountedPop,
       CountedUpdate, CountedRecv, CountedTick
<1> QED BY <1>1, <1>2, FinishedStays, TurnsStep DEF LossInv

(* A packet whose reply is read before its timeout is not reported lost,    *)
(* whatever the network does with the other packets and with its other      *)
(* replies, unless an entry got two verdicts or the collator has ended: see *)
(* NoFalseLoss.                                                             *)
THEOREM TimelyRepliesCounted ==
    ASSUME PromptThreads
    PROVE  Spec => []NoFalseLoss
<1>1. Init => LossInv
  <2> SUFFICES ASSUME Init PROVE LossInv
    OBVIOUS
  <2>1. in_time = {} /\ network = {} /\ pending = <<>> /\ rows = <<>> /\ raw_data = <<>>
    BY DEF Init
  <2>2. pc["receiver"] = "loop" /\ pc["collator"] \in {"start", "done"} /\ ~collator_started
    BY DEF Init, Threads
  <2>3. SentInv /\ FoundInv
    BY <2>1, <2>2 DEF SentInv, FoundInv
  <2>4. CountedInv
    BY <2>1, <2>2
       DEF CountedInv, AwaitsSend, AwaitsReply, JudgedInv, RowsJudged, RowsTrue, Closing, Closers
  <2> QED BY <2>3, <2>4 DEF LossInv
<1>2. Typed /\ Typed' /\ PipelineInv /\ TurnsInv /\ LossInv /\ Next => LossInv'
  BY LossStep
<1>3. Typed /\ TurnsInv /\ LossInv /\ UNCHANGED vars => LossInv'
  <2> SUFFICES ASSUME Typed, TurnsInv, LossInv, UNCHANGED vars PROVE LossInv'
    OBVIOUS
  <2>1. /\ UNCHANGED <<pc, index, next_remote, network, in_time, pending, observation_list>>
        /\ UNCHANGED <<raw_data, popped, rows, tmp_obs, entry, oldest>>
        /\ UNCHANGED <<collator_started, collator_finished>>
    BY DEF vars, senderVars, flagVars, listVars, collatorVars, closeVars, netVars
  <2>2. SentInv' /\ FoundInv'
    BY <2>1 DEF LossInv, SentInv, SentTo, Busy, FoundInv, Live
  <2>3. TwoVerdicts' <=> TwoVerdicts
    BY <2>1 DEF TwoVerdicts, Reporting
  <2>4. CountedFrame
    <3>1. Motion' = Motion
      BY <2>1 DEF Motion, Processing
    <3> QED BY <2>1, <3>1, MotionFrame
  <2> QED BY <2>1, <2>2, <2>3, <2>4, CountedFrameStep DEF LossInv
<1>4. Spec => []Typed /\ []PipelineInv /\ []TurnsInv
  BY TypedCorrect, PipelineCorrect, TurnsInductive, PTL
<1>5. LossInv => NoFalseLoss
  BY DEF LossInv, NoFalseLoss, CountedInv, RowsTrue
<1> QED BY <1>1, <1>2, <1>3, <1>4, <1>5, PTL DEF Spec
=============================================================================
