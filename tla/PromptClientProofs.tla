------------------------ MODULE PromptClientProofs ------------------------
(***************************************************************************)
(* The measurements of a client that is faster than the clock, over a      *)
(* network that loses nothing and is fast too, for any number of packets:  *)
(* every row is of a packet of its own and complete.                       *)
(***************************************************************************)
EXTENDS ClientClosingProofs, FiniteSetTheorems

USE TimeoutAssumption, BoundsAssumption, SwitchesAssumption

(* What the theorems of this module assume.                                 *)
PerfectConditions ==
    /\ Prompt /\ ~SlowReplies /\ ~EarlyPackets
    /\ ~Lossy /\ MaxDuplicates = 0 /\ ~OversizedReplies
    /\ Collate /\ NumRemotes = 1 /\ Timeout # 0

-----------------------------------------------------------------------------
(* The invariant.  The four observations of a packet come into being        *)
(* together when it is sent; they are then in the sender's hand or on the   *)
(* network, in the receiver's hand, in the list, in the collator's hand, or *)
(* stored in an entry.                                                      *)

Travelling ==
    {o \in Observation : IF IsSend(o) THEN pc["sender"] = "observe" /\ o.id = index
                                      ELSE \E m \in network : m.id = o.id}
Held == IF Processing THEN {tmp_obs} ELSE {}
Entered ==
    {o \in Observation : \E i \in 1..Len(raw_data) :
        raw_data[i].id = o.id /\ raw_data[i].at[o.point] # 0}

Apart(T, P, Q, H, E) ==
    /\ T \cap (P \cup Q \cup H \cup E) = {}
    /\ P \cap (Q \cup H \cup E) = {}
    /\ Q \cap (H \cup E) = {}
    /\ H \cap E = {}
Together(S) == \A o, q \in Observation : o.id = q.id /\ o \in S => q \in S
Known == Travelling \cup Range(pending) \cup Range(observation_list) \cup Held \cup Entered
Reached == IF pc["sender"] = "observe" THEN index + 1 ELSE index

(* Each observation is in one place, once; where one of a packet is known   *)
(* all four are; none is known of a packet that was not sent.               *)
ObservationsInv ==
    /\ Apart(Travelling, Range(pending), Range(observation_list), Held, Entered)
    /\ IsInjective(pending) /\ IsInjective(observation_list)
    /\ Together(Known)
    /\ \A o \in Known : o.id < Reached

(* There is one entry for a packet, the ones that were closed are complete, *)
(* and none gets old.                                                       *)
EntriesInv ==
    /\ \A i, j \in 1..Len(raw_data) : raw_data[i].id = raw_data[j].id => i = j
    /\ \A i \in 1..Len(raw_data) :
          raw_data[i].age = 0 /\ \E p \in ObservationPoints : raw_data[i].at[p] # 0
    /\ \A i \in 1..popped : Complete(raw_data[i].at)
    /\ pc["collator"] \in Closing => Complete(raw_data[popped + 1].at)

(* Where the threads are.                                                   *)
PlacesInv ==
    /\ \A t \in Closers : pc[t] \notin {"judge"} \cup Closing => oldest[t] = 0
    /\ pc["receiver"] # "enqueue" => pending = <<>>
    /\ pc["receiver"] # "recv" => recv_wait = 0
    /\ sending_completed => pc["sender"] = "done"
    /\ collator_finished => sending_completed
    /\ pc["collator"] = "done" => collator_finished
    /\ pc["sender"] \in {"send", "observe"} \/ network # {} => collator_started
    /\ next_remote = 1

(* recvmsg times out only when no reply is on the way anywhere: what the    *)
(* receiver then finds in raw_data_list is nothing it could close.          *)
Waited == (pc["receiver"] = "recv" /\ recv_wait # 0) \/ pc["receiver"] \in {"peek", "judge"}
NoReplies ==
    /\ \A o \in Range(pending) \cup Range(observation_list) \cup Held : IsSend(o)
    /\ \A i \in Live : raw_data[i].at["SERVER_SEND"] = 0
ReceiverInv ==
    /\ pc["receiver"] \notin Closing
    /\ Waited => NoReplies \/ (pc["collator"] = "done" /\ Live = {})
    /\ pc["receiver"] = "judge" => oldest["receiver"] \in {0} \cup Live

(* When the collator has been told to end, either no entry is left or time  *)
(* stands still until the remaining replies have come.                      *)
EndInv ==
    /\ pc["collator"] = "judge" /\ oldest["collator"] = 0 => Live = {}
    /\ IsFiniteSet(network)
    /\ sent_packets = received_packets + Cardinality(network)
    /\ collator_finished =>
         \/ Live = {} /\ pc["collator"] \in {"loop", "done"}
         \/ /\ pc["receiver"] \in {"loop", "recv", "enqueue", "done"} /\ recv_wait = 0
            /\ pc["receiver"] = "recv" => network # {}

(* The rows are the entries that were closed.                               *)
RowsInv ==
    /\ Len(rows) = popped + (IF pc["collator"] = "pop" THEN 1 ELSE 0)
    /\ \A j \in 1..Len(rows) : rows[j].id = raw_data[j].id /\ rows[j].at = raw_data[j].at

PromptInv ==
    /\ CloserInv /\ ObservationsInv /\ EntriesInv /\ PlacesInv /\ ReceiverInv /\ EndInv /\ RowsInv

-----------------------------------------------------------------------------
(* Lemmas about sequences and observations                                  *)

(* Appending what is not in a sequence.                                     *)
LEMMA AppendOnce ==
    ASSUME NEW S, NEW s \in Seq(S), NEW e \in S
    PROVE  /\ Range(Append(s, e)) = Range(s) \cup {e}
           /\ IsInjective(s) /\ e \notin Range(s) => IsInjective(Append(s, e))
<1>1. /\ Append(s, e) \in Seq(S) /\ Len(Append(s, e)) = Len(s) + 1 /\ Len(s) \in Nat
      /\ \A i \in 1..Len(s) : Append(s, e)[i] = s[i]
      /\ Append(s, e)[Len(s) + 1] = e
  BY AppendTyped
<1>2. DOMAIN s = 1..Len(s) /\ DOMAIN Append(s, e) = 1..Len(s) + 1
  BY <1>1
<1> DEFINE a == Append(s, e)
<1>3. \A i \in DOMAIN a : IF i = Len(s) + 1 THEN a[i] = e ELSE i \in DOMAIN s /\ a[i] = s[i]
  BY <1>1, <1>2
<1>4. DOMAIN s \subseteq DOMAIN a /\ Len(s) + 1 \in DOMAIN a /\ \A i \in DOMAIN s : i # Len(s) + 1
  BY <1>1, <1>2
<1> HIDE DEF a
<1>5. Range(a) = Range(s) \cup {e}
  BY <1>3, <1>4 DEF Range
<1>6. IsInjective(s) /\ e \notin Range(s) => IsInjective(a)
  BY <1>3, <1>4 DEF Range, IsInjective
<1> QED BY <1>5, <1>6 DEF a

(* Removing the head.                                                       *)
LEMMA TailOnce ==
    ASSUME NEW S, NEW s \in Seq(S), s # <<>>, IsInjective(s)
    PROVE  /\ Head(s) \in Range(s)
           /\ Range(Tail(s)) = Range(s) \ {Head(s)}
           /\ IsInjective(Tail(s))
<1>1. /\ Head(s) = s[1] /\ Tail(s) \in Seq(S) /\ Len(s) \in Nat \ {0}
      /\ Len(Tail(s)) = Len(s) - 1
      /\ \A i \in 1..Len(Tail(s)) : Tail(s)[i] = s[i + 1]
  BY TailTyped
<1>2. DOMAIN s = 1..Len(s) /\ DOMAIN Tail(s) = 1..Len(s) - 1
  BY <1>1
<1> DEFINE t == Tail(s)
<1>3. \A i \in DOMAIN t : i + 1 \in DOMAIN s /\ t[i] = s[i + 1] /\ i + 1 # 1 /\ i \in Nat
  BY <1>1, <1>2
<1>4. \A i \in DOMAIN s : i # 1 => i - 1 \in DOMAIN t /\ t[i - 1] = s[i]
  <2> TAKE i \in DOMAIN s
  <2>1. i # 1 => i - 1 \in DOMAIN t /\ (i - 1) + 1 = i
    BY <1>1, <1>2
  <2> QED BY <1>3, <2>1
<1>5. 1 \in DOMAIN s
  BY <1>1, <1>2
<1> HIDE DEF t
<1>6. Range(t) = Range(s) \ {s[1]}
  <2>1. Range(t) \subseteq Range(s) \ {s[1]}
    BY <1>3, <1>5 DEF Range, IsInjective
  <2>2. Range(s) \ {s[1]} \subseteq Range(t)
    BY <1>4 DEF Range
  <2> QED BY <2>1, <2>2
<1>7. IsInjective(t)
  <2> SUFFICES ASSUME NEW i \in DOMAIN t, NEW j \in DOMAIN t, t[i] = t[j] PROVE i = j
    BY DEF IsInjective
  <2>1. i + 1 = j + 1
    BY <1>3 DEF IsInjective
  <2> QED BY <1>3, <2>1
<1> QED BY <1>1, <1>5, <1>6, <1>7 DEF t, Range

(* With one remote an observation is its point and its packet.              *)
LEMMA ObservationsEqual ==
    ASSUME PerfectConditions, NEW o \in Observation, NEW q \in Observation,
           o.point = q.point, o.id = q.id
    PROVE  o = q
  BY DEF PerfectConditions, Observation, Remotes

-----------------------------------------------------------------------------
(* How a step moves observations                                            *)

(* All that is known is an observation.                                     *)
LEMMA KnownTyped ==
    ASSUME Typed
    PROVE  Known \subseteq Observation /\ \A o \in Known : o.id \in Nat
<1>1. Range(pending) \subseteq Observation /\ Range(observation_list) \subseteq Observation
  BY ClientTypes DEF Range
<1>2. /\ Travelling \subseteq Observation /\ Held \subseteq Observation
      /\ Entered \subseteq Observation
  BY ClientTypes DEF Travelling, Held, Entered
<1> QED BY <1>1, <1>2, ClientTypes DEF Known

(* A packet is sent: its four observations come into being.                 *)
LEMMA MoveSend ==
    ASSUME PerfectConditions, Typed, PromptInv, SendOk
    PROVE  ObservationsInv'
<1> DEFINE New == {o \in Observation : o.id = index}
<1>1. /\ pc["sender"] = "send" /\ pc' = [pc EXCEPT !["sender"] = "observe"]
      /\ network' = network \cup {[to |-> next_remote, id |-> index]}
      /\ UNCHANGED <<index, pending, observation_list, raw_data, tmp_obs>>
  BY DEF SendOk, At, Goto, PromptInv, PlacesInv, PerfectConditions, listVars, collatorVars
<1>2. pc'["sender"] = "observe" /\ pc'["collator"] = pc["collator"]
  BY <1>1, ClientTypes DEF Threads
<1>3. Held' = Held /\ Entered' = Entered
  BY <1>1, <1>2 DEF Held, Entered, Processing
<1>4. Travelling' = Travelling \cup New
  <2>1. ASSUME NEW o \in Observation
        PROVE  o \in Travelling' <=> o \in Travelling \/ o.id = index
    <3>1. (\E m \in network' : m.id = o.id) <=> (\E m \in network : m.id = o.id) \/ o.id = index
      <4> DEFINE n == [to |-> next_remote, id |-> index]
      <4>1. n.id = index /\ network' = network \cup {n}
        BY <1>1
      <4> HIDE DEF n
      <4> QED BY <4>1
    <3> QED BY <1>1, <1>2, <3>1 DEF Travelling
  <2> QED BY <2>1 DEF Travelling
<1>5. Known' = Known \cup New
  BY <1>1, <1>3, <1>4 DEF Known
<1>6. \A o \in Known : o.id < index /\ o.id \in Nat
  BY <1>1, KnownTyped DEF PromptInv, ObservationsInv, Reached
<1>7. Known \cap New = {} /\ index \in Nat
  BY <1>6, ClientTypes
<1>8. Together(Known')
  BY <1>5 DEF Together, PromptInv, ObservationsInv
<1>9. \A o \in Known' : o.id < Reached'
  BY <1>1, <1>2, <1>5, <1>6, ClientTypes DEF Reached
<1>10. Apart(Travelling', Range(pending), Range(observation_list), Held, Entered)
  <2> HIDE DEF New
  <2>1. Apart(Travelling, Range(pending), Range(observation_list), Held, Entered)
    BY DEF PromptInv, ObservationsInv
  <2> QED BY <1>4, <1>7, <2>1 DEF Apart, Known
<1> QED BY <1>1, <1>3, <1>8, <1>9, <1>10 DEF PromptInv, ObservationsInv

(* The sender's observation goes into the list.                             *)
LEMMA MoveObserve ==
    ASSUME PerfectConditions, Typed, PromptInv, SenderObserve
    PROVE  ObservationsInv'
<1> DEFINE x == [point |-> "CLIENT_SEND", id |-> index, stamp |-> 1]
<1>1. x \in Observation /\ IsSend(x) /\ x.id = index
  BY ClientTypes, RemotesAssumption DEF Observation, ObservationPoints, Remotes, IsSend
<1>2. /\ pc["sender"] = "observe" /\ pc' = [pc EXCEPT !["sender"] = "loop"]
      /\ observation_list' = Append(observation_list, x) /\ index' = index + 1
      /\ UNCHANGED <<network, pending, raw_data, tmp_obs>>
  BY DEF SenderObserve, At, Goto, PromptInv, PlacesInv, listVars, collatorVars, netVars
<1> HIDE DEF x
<1>3. pc'["sender"] = "loop" /\ pc'["collator"] = pc["collator"]
  BY <1>2, ClientTypes DEF Threads
<1>4. Held' = Held /\ Entered' = Entered
  BY <1>2, <1>3 DEF Held, Entered, Processing
<1>5. \A o \in Observation : IsSend(o) /\ o.id = index => o = x
  BY <1>1, ObservationsEqual DEF IsSend
<1>6. x \in Travelling /\ Travelling' = Travelling \ {x}
  BY <1>1, <1>2, <1>3, <1>5 DEF Travelling
<1>7. Apart(Travelling, Range(pending), Range(observation_list), Held, Entered)
  BY DEF PromptInv, ObservationsInv
<1>8. /\ Range(observation_list') = Range(observation_list) \cup {x}
      /\ IsInjective(observation_list')
  <2>1. x \notin Range(observation_list)
    BY <1>6, <1>7 DEF Apart
  <2> QED BY <1>1, <1>2, <2>1, ClientTypes, AppendOnce DEF PromptInv, ObservationsInv
<1>9. Known' = Known
  BY <1>2, <1>4, <1>6, <1>8 DEF Known
<1>10. Reached' = Reached
  BY <1>2, <1>3 DEF Reached
<1>11. Apart(Travelling', Range(pending), Range(observation_list'), Held, Entered)
  BY <1>6, <1>7, <1>8 DEF Apart
<1> QED BY <1>2, <1>4, <1>8, <1>9, <1>10, <1>11 DEF PromptInv, ObservationsInv

(* A reply is received: three observations are in the receiver's hand.      *)
LEMMA MoveReceive ==
    ASSUME PerfectConditions, Typed, PromptInv, NEW m \in network, RecvPacket(m)
    PROVE  ObservationsInv'
<1> DEFINE New == {o \in Observation : ~IsSend(o) /\ o.id = m.id}
<1>1. /\ pending = <<>> /\ pending' = ReplyObservations(m)
      /\ network' = network \ {m} /\ pc' = [pc EXCEPT !["receiver"] = "enqueue"]
      /\ UNCHANGED <<index, observation_list, raw_data, tmp_obs>>
  <2>1. pending = <<>> /\ collator_started
    BY DEF RecvPacket, At, PromptInv, PlacesInv
  <2>2. network' = network \ {m}
    BY ClientTypes DEF RecvPacket, Deliver, PerfectConditions
  <2> QED BY <2>1, <2>2 DEF RecvPacket, Goto, senderVars, listVars, collatorVars
<1>2. pc'["sender"] = pc["sender"] /\ pc'["collator"] = pc["collator"]
  BY <1>1, ClientTypes DEF Threads
<1>3. Held' = Held /\ Entered' = Entered
  BY <1>1, <1>2 DEF Held, Entered, Processing
<1>4. \A n \in network : n.id = m.id => n = m
  <2>1. \A n \in Message : n = [to |-> 1, id |-> n.id]
    BY DEF PerfectConditions, Message, Remotes
  <2>2. \A n \in network : n = [to |-> 1, id |-> n.id]
    BY <2>1, ClientTypes
  <2> QED BY <2>2
<1>5. New \subseteq Travelling /\ Travelling' = Travelling \ New
  <2>1. ASSUME NEW o \in Observation
        PROVE  o \in Travelling' <=> o \in Travelling /\ (IsSend(o) \/ o.id # m.id)
    BY <1>1, <1>2, <1>4 DEF Travelling
  <2>2. New \subseteq Travelling
    BY DEF Travelling
  <2> QED BY <2>1, <2>2 DEF Travelling
<1>6. Range(pending') = New /\ IsInjective(pending')
  <2>1. /\ DOMAIN pending' = 1..3
        /\ pending'[1] = [point |-> "SERVER_SEND",    id |-> m.id, stamp |-> m.to]
        /\ pending'[2] = [point |-> "SERVER_RECEIVE", id |-> m.id, stamp |-> m.to]
        /\ pending'[3] = [point |-> "CLIENT_RECEIVE", id |-> m.id, stamp |-> m.to]
    BY <1>1 DEF ReplyObservations
  <2>2. \A i \in 1..3 : pending'[i] \in Observation
    <3>1. m.id \in Nat /\ m.to \in Remotes
      BY ClientTypes DEF Message
    <3> QED BY <2>1, <3>1 DEF Observation, ObservationPoints
  <2>3. /\ pending'[1].point = "SERVER_SEND" /\ pending'[2].point = "SERVER_RECEIVE"
        /\ pending'[3].point = "CLIENT_RECEIVE"
        /\ pending'[1].id = m.id /\ pending'[2].id = m.id /\ pending'[3].id = m.id
    BY <2>1
  <2>4. IsInjective(pending')
    BY <2>1, <2>3 DEF IsInjective
  <2>5. Range(pending') = {pending'[1], pending'[2], pending'[3]}
    BY <2>1 DEF Range
  <2>6. ASSUME NEW o \in New PROVE o \in Range(pending')
    <3>1. o.point \in {"SERVER_SEND", "SERVER_RECEIVE", "CLIENT_RECEIVE"}
      BY ClientTypes DEF ObservationPoints, IsSend
    <3>2. \E i \in 1..3 : o.point = pending'[i].point /\ o.id = pending'[i].id
      BY <2>3, <3>1
    <3> QED BY <2>1, <2>2, <3>2, ObservationsEqual DEF Range
  <2>7. Range(pending') \subseteq New
    BY <2>2, <2>3, <2>5 DEF IsSend
  <2> QED BY <2>4, <2>6, <2>7
<1>7. Apart(Travelling, Range(pending), Range(observation_list), Held, Entered)
  BY DEF PromptInv, ObservationsInv
<1>8. Range(pending) = {}
  BY <1>1 DEF Range
<1> HIDE DEF New
<1>9. Apart(Travelling', Range(pending'), Range(observation_list), Held, Entered)
  BY <1>5, <1>6, <1>7 DEF Apart
<1>10. Known' = Known
  BY <1>1, <1>3, <1>5, <1>6, <1>8 DEF Known
<1>11. Reached' = Reached
  BY <1>1, <1>2 DEF Reached
<1> QED BY <1>1, <1>3, <1>6, <1>9, <1>10, <1>11 DEF PromptInv, ObservationsInv

(* One of them goes into the list.                                          *)
LEMMA MoveEnqueue ==
    ASSUME PerfectConditions, Typed, PromptInv, Enqueue
    PROVE  ObservationsInv'
<1> DEFINE x == Head(pending)
<1>1. /\ pending # <<>> /\ x \in Observation /\ pending' = Tail(pending)
      /\ observation_list' = Append(observation_list, x)
      /\ UNCHANGED <<index, network, raw_data, tmp_obs>>
  BY EnqueueQueues DEF Enqueue, senderVars, listVars, collatorVars, netVars
<1>2. pc'["sender"] = pc["sender"] /\ pc'["collator"] = pc["collator"]
  BY ClientTypes DEF Enqueue, Goto, Threads
<1>3. Held' = Held /\ Entered' = Entered /\ Travelling' = Travelling
  BY <1>1, <1>2 DEF Held, Entered, Processing, Travelling
<1>4. /\ Apart(Travelling, Range(pending), Range(observation_list), Held, Entered)
      /\ IsInjective(pending) /\ IsInjective(observation_list)
  BY DEF PromptInv, ObservationsInv
<1>5. x \in Range(pending) /\ Range(pending') = Range(pending) \ {x} /\ IsInjective(pending')
  BY <1>1, <1>4, ClientTypes, TailOnce
<1> HIDE DEF x
<1>6. /\ Range(observation_list') = Range(observation_list) \cup {x}
      /\ IsInjective(observation_list')
  <2>1. x \notin Range(observation_list)
    BY <1>4, <1>5 DEF Apart
  <2> QED BY <1>1, <1>4, <2>1, ClientTypes, AppendOnce
<1>7. Apart(Travelling, Range(pending'), Range(observation_list'), Held, Entered)
  BY <1>4, <1>5, <1>6 DEF Apart
<1>8. Known' = Known
  BY <1>3, <1>5, <1>6 DEF Known
<1>9. Reached' = Reached
  BY <1>1, <1>2 DEF Reached
<1> QED BY <1>3, <1>5, <1>6, <1>7, <1>8, <1>9 DEF PromptInv, ObservationsInv

(* The collator takes one out of the list.                                  *)
LEMMA MovePop ==
    ASSUME PerfectConditions, Typed, PromptInv, CollatorPopObs
    PROVE  ObservationsInv'
<1> DEFINE x == Head(observation_list)
<1>1. /\ observation_list # <<>> /\ observation_list' = Tail(observation_list) /\ tmp_obs' = x
      /\ pc["collator"] = "pop_obs" /\ pc' = [pc EXCEPT !["collator"] = "find"]
      /\ UNCHANGED <<index, network, raw_data, pending>>
  BY DEF CollatorPopObs, At, Goto, senderVars, listVars, netVars, Typed, ObservationPopSafe
<1>2. pc'["sender"] = pc["sender"] /\ pc'["collator"] = "find"
  BY <1>1, ClientTypes DEF Threads
<1>3. Held = {} /\ Held' = {x} /\ Entered' = Entered /\ Travelling' = Travelling
  BY <1>1, <1>2 DEF Held, Entered, Processing, Travelling
<1>4. /\ Apart(Travelling, Range(pending), Range(observation_list), Held, Entered)
      /\ IsInjective(pending) /\ IsInjective(observation_list)
  BY DEF PromptInv, ObservationsInv
<1>5. /\ x \in Range(observation_list)
      /\ Range(observation_list') = Range(observation_list) \ {x}
      /\ IsInjective(observation_list')
  BY <1>1, <1>4, ClientTypes, TailOnce
<1> HIDE DEF x
<1>6. Apart(Travelling, Range(pending), Range(observation_list'), Held', Entered)
  BY <1>3, <1>4, <1>5 DEF Apart
<1>7. Known' = Known
  BY <1>1, <1>3, <1>5 DEF Known
<1>8. Reached' = Reached
  BY <1>1, <1>2 DEF Reached
<1> QED BY <1>1, <1>3, <1>4, <1>5, <1>6, <1>7, <1>8 DEF PromptInv, ObservationsInv

(* The collator stores one.                                                 *)
LEMMA MoveUpdate ==
    ASSUME PerfectConditions, Typed, PipelineInv, PromptInv, CollatorUpdate
    PROVE  ObservationsInv' /\ Entered' = Entered \cup {tmp_obs} /\ tmp_obs \notin Entered
<1>1. /\ pc["collator"] = "update" /\ pc' = [pc EXCEPT !["collator"] = "loop"]
      /\ UNCHANGED <<index, network, observation_list, pending>>
  BY DEF CollatorUpdate, At, Goto, senderVars, netVars
<1>2. pc'["sender"] = pc["sender"] /\ pc'["collator"] = "loop"
  BY <1>1, ClientTypes DEF Threads
<1>3. Held = {tmp_obs} /\ Held' = {} /\ Travelling' = Travelling
  BY <1>1, <1>2 DEF Held, Processing, Travelling
<1>4. /\ tmp_obs \in Observation /\ tmp_obs.point \in ObservationPoints /\ tmp_obs.stamp # 0
      /\ entry \in 0..Len(raw_data) /\ Len(raw_data) \in Nat
      /\ \A o \in Observation : o.point \in ObservationPoints
  BY ClientTypes, StampSet
<1>5. ASSUME NEW o \in Observation
      PROVE  o \in Entered' <=> o \in Entered \/ o = tmp_obs
  <2>1. ASSUME o \in Entered PROVE o \in Entered'
    <3>1. PICK i \in 1..Len(raw_data) : raw_data[i].id = o.id /\ raw_data[i].at[o.point] # 0
      BY <2>1 DEF Entered
    <3>2. raw_data'[i].id = o.id /\ raw_data'[i].at[o.point] # 0 /\ i \in 1..Len(raw_data')
      BY <1>4, <3>1, UpdateEntries
    <3> QED BY <3>2 DEF Entered
  <2>2. tmp_obs \in Entered'
    <3>1. CASE entry = 0
      <4>1. /\ raw_data'[Len(raw_data) + 1].id = tmp_obs.id
            /\ raw_data'[Len(raw_data) + 1].at[tmp_obs.point] # 0
            /\ Len(raw_data) + 1 \in 1..Len(raw_data')
        BY <1>4, <3>1, UpdateEntries
      <4> QED BY <1>4, <4>1 DEF Entered
    <3>2. CASE entry # 0
      <4>1. /\ raw_data'[entry].id = tmp_obs.id /\ raw_data'[entry].at[tmp_obs.point] # 0
            /\ entry \in 1..Len(raw_data')
        BY <1>4, <3>2, UpdateEntries
      <4> QED BY <1>4, <4>1 DEF Entered
    <3> QED BY <3>1, <3>2
  <2>3. ASSUME o \in Entered', o # tmp_obs PROVE o \in Entered
    <3>1. PICK i \in 1..Len(raw_data') : raw_data'[i].id = o.id /\ raw_data'[i].at[o.point] # 0
      BY <2>3 DEF Entered
    <3>2. o.id = tmp_obs.id => o.point # tmp_obs.point
      BY <1>4, <2>3, ObservationsEqual
    <3>3. i \in 1..Len(raw_data)
      BY <1>4, <3>1, <3>2, UpdateEntries
    <3>4. ~(i = entry /\ o.point = tmp_obs.point)
      BY <3>1, <3>2, <3>3, <1>4, UpdateEntries
    <3>5. raw_data[i].id = o.id /\ raw_data[i].at[o.point] # 0
      BY <1>4, <3>1, <3>3, <3>4, UpdateEntries
    <3> QED BY <3>3, <3>5 DEF Entered
  <2> QED BY <2>1, <2>2, <2>3
<1>6. Entered' = Entered \cup {tmp_obs}
  BY <1>4, <1>5 DEF Entered
<1>7. /\ Apart(Travelling, Range(pending), Range(observation_list), Held, Entered)
      /\ IsInjective(pending) /\ IsInjective(observation_list)
  BY DEF PromptInv, ObservationsInv
<1>8. Apart(Travelling, Range(pending), Range(observation_list), Held', Entered')
      /\ tmp_obs \notin Entered
  BY <1>3, <1>6, <1>7 DEF Apart
<1>9. Known' = Known
  BY <1>1, <1>3, <1>6 DEF Known
<1>10. Reached' = Reached
  BY <1>1, <1>2 DEF Reached
<1> QED BY <1>1, <1>3, <1>6, <1>7, <1>8, <1>9, <1>10 DEF PromptInv, ObservationsInv

(* A second only rolls over when the list is empty: an entry with one time  *)
(* gets the other three before that, and is closed.                         *)
LEMMA TickStill ==
    ASSUME PerfectConditions, Typed, PromptInv, Tick
    PROVE  /\ Live = {} /\ raw_data' = raw_data /\ network = {} /\ Quiet
           /\ pending = <<>> /\ Held = {}
           /\ pc["collator"] # "done" => observation_list = <<>> /\ pc["collator"] = "loop"
<1>1. Quiet /\ network = {} /\ ~AllDone
  BY DEF Tick, PerfectConditions, Quiet
<1>2. /\ pc["sender"] # "observe" /\ pc["receiver"] \in {"done", "recv"}
      /\ pc["collator"] \in {"loop", "done"}
      /\ pc["collator"] = "loop" =>
            observation_list = <<>> /\ (Live # {} => ~Complete(raw_data[popped + 1].at))
  BY <1>1 DEF Quiet
<1>3. pending = <<>> /\ Held = {}
  BY <1>2 DEF PromptInv, PlacesInv, Held, Processing
<1>4. Live = {}
  <2>1. CASE pc["collator"] = "done"
    <3>1. collator_finished /\ pc["sender"] = "done"
      BY <2>1 DEF PromptInv, PlacesInv
    <3>2. pc["receiver"] = "recv"
      BY <1>1, <1>2, <2>1, <3>1 DEF AllDone, Threads
    <3> QED BY <1>1, <3>1, <3>2 DEF PromptInv, EndInv
  <2>2. CASE pc["collator"] = "loop"
    <3> SUFFICES ASSUME Live # {} PROVE FALSE
      OBVIOUS
    <3> DEFINE i == popped + 1
    <3>1. i \in 1..Len(raw_data) /\ raw_data[i].id \in Nat
      BY ClientTypes DEF Live
    <3>7. ~Complete(raw_data[i].at)
      BY <1>2, <2>2
    <3> HIDE DEF i
    <3>2. PICK p \in ObservationPoints : raw_data[i].at[p] # 0
      BY <3>1 DEF PromptInv, EntriesInv
    <3> DEFINE x(q) == [point |-> q, id |-> raw_data[i].id, stamp |-> 1]
    <3>3. \A q \in ObservationPoints :
              x(q) \in Observation /\ x(q).point = q /\ x(q).id = raw_data[i].id
      BY <3>1, RemotesAssumption DEF Observation, Remotes
    <3> HIDE DEF x
    <3>4. x(p) \in Entered
      BY <3>1, <3>2, <3>3 DEF Entered
    <3>5. Known = Entered
      <4>1. Range(pending) = {} /\ Range(observation_list) = {}
        BY <1>2, <1>3, <2>2 DEF Range
      <4>2. Travelling = {}
        BY <1>1, <1>2 DEF Travelling
      <4> QED BY <1>3, <4>1, <4>2 DEF Known
    <3>6. ASSUME NEW q \in ObservationPoints PROVE raw_data[i].at[q] # 0
      <4>1. x(q) \in Entered
        BY <3>3, <3>4, <3>5 DEF PromptInv, ObservationsInv, Together
      <4>2. PICK j \in 1..Len(raw_data) : raw_data[j].id = x(q).id /\ raw_data[j].at[x(q).point] # 0
        BY <4>1 DEF Entered
      <4>3. j = i
        BY <3>1, <3>3, <4>2 DEF PromptInv, EntriesInv
      <4> QED BY <3>3, <4>2, <4>3
    <3> QED BY <3>6, <3>7 DEF Complete
  <2> QED BY <1>2, <2>1, <2>2
<1>5. \A t \in Closers : oldest[t] = 0
  BY <1>2 DEF PromptInv, PlacesInv, Closers, Closing
<1>6. \A i \in 1..Len(raw_data) : ~InUse(i)
  BY <1>4, <1>5, ClientTypes DEF InUse
<1>7. raw_data' = [i \in 1..Len(raw_data) |-> [raw_data[i] EXCEPT !.age = 0]]
  BY <1>6 DEF Tick
<1>8. raw_data' = raw_data
  <2>1. ASSUME NEW i \in 1..Len(raw_data) PROVE [raw_data[i] EXCEPT !.age = 0] = raw_data[i]
    <3>1. raw_data[i] \in RawData /\ raw_data[i].age = 0
      BY ClientTypes DEF PromptInv, EntriesInv
    <3> QED BY <3>1 DEF RawData
  <2>2. raw_data = [i \in 1..Len(raw_data) |-> raw_data[i]]
    BY ClientTypes
  <2> QED BY <1>7, <2>1, <2>2
<1> QED BY <1>1, <1>2, <1>3, <1>4, <1>8

(* A step that moves no observation.                                        *)
LEMMA MoveNone ==
    ASSUME PerfectConditions, Typed, PromptInv,
           UNCHANGED <<raw_data, observation_list, pending, network>>,
           pc["sender"] = "observe" <=> pc'["sender"] = "observe",
           index' = index \/ (index' = index + 1 /\ pc["sender"] # "observe"),
           Processing' <=> Processing, Processing => tmp_obs' = tmp_obs
    PROVE  ObservationsInv'
<1>1. Held' = Held /\ Entered' = Entered /\ Travelling' = Travelling
  BY DEF Held, Entered, Travelling
<1>2. Known' = Known
  BY <1>1 DEF Known
<1>3. \A o \in Known' : o.id < Reached'
  BY <1>2, KnownTyped, ClientTypes DEF Reached, PromptInv, ObservationsInv
<1> QED BY <1>1, <1>2, <1>3 DEF PromptInv, ObservationsInv

(* Every step keeps the observations apart and together.                    *)
LEMMA ObservationsStep ==
    ASSUME PerfectConditions, Typed, PipelineInv, PromptInv, Next
    PROVE  ObservationsInv'
<1>1. pc \in [Threads -> Labels]
  BY ClientTypes
<1> USE DEF At, Goto, Return, Threads, Closers, Processing, senderVars, collatorVars, listVars,
            closeVars, netVars, timeVars, flagVars
<1>2. CASE SenderNext \/ SenderDone \/ SendFail
  BY <1>1, <1>2, MoveNone DEF SenderNext, SenderDone, SendFail
<1>3. CASE ReceiverContinue \/ ReceiverStop \/ RecvTimeout
  BY <1>1, <1>3, MoveNone DEF ReceiverContinue, ReceiverStop, RecvTimeout
<1>4. ASSUME NEW m \in network, RecvTruncated(m) \/ Lose(m) PROVE ObservationsInv'
  BY <1>4 DEF RecvTruncated, Lose, PerfectConditions
<1>5. CASE CollatorStart \/ CollatorLoop \/ CollatorPoll \/ CollatorFind
  BY <1>1, <1>5, MoveNone DEF CollatorStart, CollatorLoop, CollatorPoll, CollatorFind
<1>6. ASSUME NEW t \in Closers, Check(t) PROVE ObservationsInv'
  <2>1. /\ UNCHANGED <<raw_data, observation_list, pending, network, index, tmp_obs>>
        /\ pc'["sender"] = pc["sender"] /\ (Processing' <=> Processing)
    BY <1>1, <1>6 DEF Check, Peek, JudgeEmpty, JudgeEntry, AggregateForward, AggregateRest,
                      Pop, PopEmpty
  <2> QED BY <2>1, MoveNone
<1>7. CASE Tick
  BY <1>7, TickStill, MoveNone DEF Tick
<1>8. CASE Terminating
  BY <1>8, MoveNone DEF Terminating, vars
<1> QED
  BY <1>2, <1>3, <1>4, <1>5, <1>6, <1>7, <1>8, MoveSend, MoveObserve, MoveReceive, MoveEnqueue,
     MovePop, MoveUpdate
     DEF Next, Sender, Receiver, Collator

-----------------------------------------------------------------------------
(* The entries                                                              *)

(* No entry is old enough to expire, so only complete ones are closed.      *)
LEMMA JudgedComplete ==
    ASSUME PerfectConditions, Typed, PromptInv, NEW t \in Closers, JudgeEntry(t)
    PROVE  /\ oldest[t] \in 1..Len(raw_data)
           /\ \/ /\ Complete(raw_data[oldest[t]].at)
                 /\ pc' = [pc EXCEPT ![t] = "forward"] /\ oldest' = oldest
              \/ /\ ~Complete(raw_data[oldest[t]].at)
                 /\ pc' = [pc EXCEPT ![t] = "loop"] /\ oldest' = [oldest EXCEPT ![t] = 0]
<1>1. oldest[t] \in 1..Len(raw_data)
  BY DEF JudgeEntry, Typed, TypeOK
<1>2. raw_data[oldest[t]].age = 0
  BY <1>1 DEF PromptInv, EntriesInv
<1>3. \A expired \in MaybeExpired(raw_data[oldest[t]]) : ~expired
  BY <1>2 DEF MaybeExpired, PerfectConditions
<1> QED BY <1>1, <1>3 DEF JudgeEntry, Goto, Return

(* A step that changes no entry and does not begin to close one.            *)
LEMMA EntriesFrame ==
    ASSUME EntriesInv, UNCHANGED <<raw_data, popped>>,
           pc'["collator"] \in Closing => pc["collator"] \in Closing
    PROVE  EntriesInv'
  BY DEF EntriesInv

(* Every step keeps one entry for a packet, and those closed complete.      *)
LEMMA EntriesStep ==
    ASSUME PerfectConditions, Typed, PipelineInv, PromptInv, Next
    PROVE  EntriesInv'
<1>1. /\ pc \in [Threads -> Labels] /\ EntriesInv
      /\ popped \in 0..Len(raw_data) /\ Len(raw_data) \in Nat
  BY ClientTypes DEF PromptInv
<1> USE DEF At, Goto, Return, Threads, Closers, senderVars, collatorVars, listVars, closeVars,
            netVars, timeVars, flagVars, Closing
<1>2. CASE Sender
  BY <1>1, <1>2, EntriesFrame
     DEF Sender, SenderNext, SenderDone, SendOk, SendFail, SenderObserve
<1>3. CASE ReceiverContinue \/ ReceiverStop \/ RecvTimeout \/ Enqueue
  BY <1>1, <1>3, EntriesFrame DEF ReceiverContinue, ReceiverStop, RecvTimeout, Enqueue
<1>4. ASSUME NEW m \in network, RecvPacket(m) \/ RecvTruncated(m) \/ Lose(m) PROVE EntriesInv'
  BY <1>1, <1>4, EntriesFrame DEF RecvPacket, RecvTruncated, Lose
<1>5. CASE Check("receiver")
  <2>1. pc["receiver"] \notin Closing
    BY DEF PromptInv, ReceiverInv
  <2> QED BY <1>1, <1>5, <2>1, EntriesFrame
             DEF Check, Peek, JudgeEmpty, JudgeEntry, AggregateForward, AggregateRest, Pop, PopEmpty
<1>6. CASE CollatorStart \/ CollatorLoop \/ CollatorPoll \/ CollatorPopObs \/ CollatorFind
  BY <1>1, <1>6, EntriesFrame
     DEF CollatorStart, CollatorLoop, CollatorPoll, CollatorPopObs, CollatorFind
<1>7. CASE \/ Peek("collator") \/ JudgeEmpty("collator") \/ AggregateForward("collator")
           \/ AggregateRest("collator") \/ PopEmpty("collator")
  BY <1>1, <1>7, EntriesFrame DEF Peek, JudgeEmpty, AggregateForward, AggregateRest, PopEmpty
<1>8. CASE JudgeEntry("collator")
  <2>1. UNCHANGED <<raw_data, popped>> /\ oldest["collator"] = popped + 1
    BY <1>8 DEF JudgeEntry, PromptInv, CloserInv
  <2>2. pc'["collator"] \in Closing => Complete(raw_data[popped + 1].at)
    BY <1>1, <1>8, <2>1, JudgedComplete
  <2> QED BY <1>1, <2>1, <2>2 DEF EntriesInv
<1>9. CASE Pop("collator")
  <2>1. /\ popped' = popped + 1 /\ raw_data' = raw_data /\ pc'["collator"] = "loop"
        /\ Complete(raw_data[popped + 1].at)
    BY <1>1, <1>9 DEF Pop, EntriesInv
  <2>2. \A i \in 1..popped + 1 : Complete(raw_data[i].at)
    BY <1>1, <2>1 DEF EntriesInv
  <2> QED BY <1>1, <2>1, <2>2 DEF EntriesInv
<1>10. CASE CollatorUpdate
  <2> DEFINE n == Len(raw_data)
  <2>1. pc'["collator"] = "loop" /\ popped' = popped
    BY <1>1, <1>10 DEF CollatorUpdate
  <2>2. /\ tmp_obs.point \in ObservationPoints /\ tmp_obs.stamp # 0
        /\ \A i \in 1..n : raw_data[i].at \in [ObservationPoints -> Stamps]
    BY ClientTypes, StampSet
  <2>3. entry = 0 => \A i \in 1..n : raw_data[i].id # tmp_obs.id
    <3> SUFFICES ASSUME entry = 0, NEW i \in 1..n, raw_data[i].id = tmp_obs.id PROVE FALSE
      OBVIOUS
    <3>1. i \notin Live
      BY <1>10, UpdateEntries
    <3>2. Complete(raw_data[i].at)
      BY <1>1, <3>1 DEF EntriesInv, Live
    <3>3. tmp_obs \in Entered
      BY <2>2, <3>2, ClientTypes DEF Entered, Complete
    <3> QED BY <1>10, <3>3, MoveUpdate
  <2>4. \A i, j \in 1..Len(raw_data') : raw_data'[i].id = raw_data'[j].id => i = j
    BY <1>1, <1>10, <2>3, UpdateEntries DEF EntriesInv
  <2>5. \A i \in 1..Len(raw_data') :
           raw_data'[i].age = 0 /\ \E p \in ObservationPoints : raw_data'[i].at[p] # 0
    <3> TAKE i \in 1..Len(raw_data')
    <3>1. CASE i \in 1..n
      <4>1. PICK p \in ObservationPoints : raw_data[i].at[p] # 0
        BY <1>1, <3>1 DEF EntriesInv
      <4>2. raw_data'[i].at[p] # 0 /\ raw_data'[i].age = raw_data[i].age
        BY <1>10, <2>2, <3>1, <4>1, UpdateEntries
      <4> QED BY <1>1, <3>1, <4>2 DEF EntriesInv
    <3>2. CASE i = n + 1 /\ entry = 0
      BY <1>10, <2>2, <3>2, UpdateEntries
    <3> QED BY <1>1, <1>10, <3>1, <3>2, UpdateEntries
  <2>6. \A i \in 1..popped : Complete(raw_data'[i].at)
    <3>1. \A i \in 1..popped : raw_data'[i].at = raw_data[i].at
      BY FrozenStep DEF PromptInv
    <3> QED BY <1>1, <3>1 DEF EntriesInv
  <2> QED BY <2>1, <2>4, <2>5, <2>6 DEF EntriesInv
<1>11. CASE Tick
  BY <1>1, <1>11, TickStill, EntriesFrame DEF Tick
<1>12. CASE Terminating
  BY <1>1, <1>12, EntriesFrame DEF Terminating, vars
<1> QED
  BY <1>2, <1>3, <1>4, <1>5, <1>6, <1>7, <1>8, <1>9, <1>10, <1>11, <1>12
     DEF Next, Receiver, Collator, Check

-----------------------------------------------------------------------------
(* The threads                                                              *)

(* Every step keeps the places of the threads.                              *)
LEMMA PlacesStep ==
    ASSUME PerfectConditions, Typed, PromptInv, Next
    PROVE  PlacesInv'
<1>1. pc \in [Threads -> Labels] /\ oldest \in [Closers -> 0..Len(raw_data)]
  BY DEF Typed, TypeOK
<1>2. PlacesInv
  BY DEF PromptInv
<1> USE DEF At, Goto, Return, Threads, Closers, senderVars, collatorVars, listVars, closeVars,
            netVars, timeVars, flagVars, Closing, PlacesInv, PerfectConditions
<1>3. CASE SenderNext \/ SenderDone \/ SendOk \/ SendFail \/ SenderObserve
  BY <1>1, <1>2, <1>3 DEF SenderNext, SenderDone, SendOk, SendFail, SenderObserve
<1>4. CASE ReceiverContinue \/ ReceiverStop \/ RecvTimeout
  BY <1>1, <1>2, <1>4 DEF ReceiverContinue, ReceiverStop, RecvTimeout
<1>5. CASE Enqueue
  <2>1. Len(pending) = 1 => pending' = <<>>
    <3>1. Len(pending) = 1 => Len(pending') = 0 /\ pending' \in Seq(Observation)
      BY <1>5, TailTyped, EnqueueQueues, TypedQueues DEF Enqueue
    <3> QED BY <3>1
  <2> QED BY <1>1, <1>2, <1>5, <2>1 DEF Enqueue
<1>6. ASSUME NEW m \in network, RecvPacket(m) \/ RecvTruncated(m) \/ Lose(m) PROVE PlacesInv'
  BY <1>1, <1>2, <1>6 DEF RecvPacket, RecvTruncated, Lose, Deliver
<1>7. CASE CollatorStart \/ CollatorLoop \/ CollatorPoll
  BY <1>1, <1>2, <1>7 DEF CollatorStart, CollatorLoop, CollatorPoll
<1>8. CASE CollatorPopObs \/ CollatorFind \/ CollatorUpdate
  BY <1>1, <1>2, <1>8 DEF CollatorPopObs, CollatorFind, CollatorUpdate
<1>9. ASSUME NEW t \in Closers, Check(t) PROVE PlacesInv'
  <2>1. CASE Peek(t)
    BY <1>1, <1>2, <2>1 DEF Peek
  <2>5. CASE JudgeEmpty(t)
    <3>1. /\ pc' = [pc EXCEPT ![t] = "loop"] /\ pc[t] = "judge" /\ oldest[t] = 0
          /\ UNCHANGED <<oldest, pending, recv_wait, network, next_remote, sending_completed,
                         collator_started>>
      BY <2>5 DEF JudgeEmpty
    <3>2. /\ collator_finished' => collator_finished \/ sending_completed
          /\ collator_finished => collator_finished'
      BY <2>5, Zenon DEF JudgeEmpty
    <3> QED BY <1>1, <1>2, <3>1, <3>2
  <2>2. CASE JudgeEntry(t)
    BY <1>1, <1>2, <2>2 DEF JudgeEntry
  <2>3. CASE AggregateForward(t) \/ AggregateRest(t)
    BY <1>1, <1>2, <2>3 DEF AggregateForward, AggregateRest
  <2>4. CASE Pop(t) \/ PopEmpty(t)
    <3>1. /\ pc[t] = "pop" /\ UNCHANGED <<pending, recv_wait, network, next_remote, flagVars>>
          /\ \/ pc' = [pc EXCEPT ![t] = "loop"] /\ oldest' = [oldest EXCEPT ![t] = 0]
             \/ UNCHANGED <<pc, oldest>>
      BY <2>4 DEF Pop, PopEmpty
    <3> QED BY <1>1, <1>2, <3>1
  <2> QED BY <1>9, <2>1, <2>2, <2>3, <2>4, <2>5 DEF Check
<1>10. CASE Tick
  BY <1>1, <1>2, <1>10 DEF Tick
<1>11. CASE Terminating
  BY <1>2, <1>11 DEF Terminating, vars
<1> QED
  BY <1>3, <1>4, <1>5, <1>6, <1>7, <1>8, <1>9, <1>10, <1>11
     DEF Next, Sender, Receiver, Collator

(* A step that brings no reply into the pipeline.                           *)
NoNewReply ==
    /\ Range(pending)' \subseteq Range(pending)
    /\ \A o \in Range(observation_list)' \cup Held' :
          o \in Range(observation_list) \cup Held \/ IsSend(o)
    /\ popped' >= popped /\ raw_data' = raw_data
    /\ pc["collator"] = "done" => pc'["collator"] = "done"

(* Such a step keeps the replies away while the receiver waits.             *)
LEMMA StillNoReplies ==
    ASSUME Typed, NoNewReply, popped' \in Nat,
           NoReplies \/ (pc["collator"] = "done" /\ Live = {})
    PROVE  (NoReplies \/ (pc["collator"] = "done" /\ Live = {}))'
<1>1. Live' \subseteq Live
  BY ClientTypes DEF NoNewReply, Live
<1> QED BY <1>1 DEF NoNewReply, NoReplies

(* When recvmsg has timed out, or is about to, no entry is being closed.    *)
LEMMA NothingToClose ==
    ASSUME Typed, PromptInv, Waited
    PROVE  pc["collator"] \notin Closing /\ \A i \in Live : ~Complete(raw_data[i].at)
<1>1. \A i \in Live : ~Complete(raw_data[i].at)
  BY DEF PromptInv, ReceiverInv, NoReplies, Complete, ObservationPoints
<1>2. pc["collator"] \in Closing => popped + 1 \in Live /\ Complete(raw_data[popped + 1].at)
  BY ClientTypes DEF PromptInv, CloserInv, EntriesInv, Live
<1>3. pc["collator"] = "done" => pc["collator"] \notin Closing
  BY DEF Closing
<1> QED BY <1>1, <1>2, <1>3

(* Every step keeps the receiver from closing anything.                     *)
LEMMA ReceiverStep ==
    ASSUME PerfectConditions, Typed, Typed', PipelineInv, PromptInv, Next
    PROVE  ReceiverInv'
<1>0. /\ pc \in [Threads -> Labels] /\ oldest \in [Closers -> 0..Len(raw_data)]
      /\ popped \in 0..Len(raw_data) /\ popped' \in 0..Len(raw_data')
  BY DEF Typed, TypeOK
<1>1. /\ pc \in [Threads -> Labels] /\ oldest \in [Closers -> 0..Len(raw_data)]
      /\ popped \in Nat /\ popped' \in Nat
  BY <1>0
<1>2. ReceiverInv /\ PlacesInv
  BY DEF PromptInv
<1> USE DEF At, Goto, Return, Threads, Closers, senderVars, collatorVars, listVars, closeVars,
            netVars, timeVars, flagVars
\* another thread's step that neither changes entries nor brings a reply
<1>3. ASSUME pc'["receiver"] = pc["receiver"], oldest'["receiver"] = oldest["receiver"],
             recv_wait' = recv_wait, popped' = popped, NoNewReply
      PROVE  ReceiverInv'
  <2>1. Live' = Live
    BY <1>3 DEF Live, NoNewReply
  <2> QED BY <1>1, <1>2, <1>3, <2>1, StillNoReplies DEF ReceiverInv, Waited
<1>4. CASE SenderNext \/ SenderDone \/ SendOk \/ SendFail
  BY <1>1, <1>3, <1>4 DEF SenderNext, SenderDone, SendOk, SendFail, NoNewReply, Held, Processing
<1>5. CASE SenderObserve
  <2> DEFINE x == [point |-> "CLIENT_SEND", id |-> index, stamp |-> 1]
  <2>1. x \in Observation /\ IsSend(x)
    BY ClientTypes, RemotesAssumption DEF Observation, ObservationPoints, Remotes, IsSend
  <2>2. observation_list' = observation_list \/ observation_list' = Append(observation_list, x)
    BY <1>5 DEF SenderObserve
  <2> HIDE DEF x
  <2>3. \A o \in Range(observation_list)' : o \in Range(observation_list) \/ IsSend(o)
    <3>1. Range(Append(observation_list, x)) = Range(observation_list) \cup {x}
      BY <2>1, ClientTypes, AppendOnce
    <3> QED BY <2>1, <2>2, <3>1
  <2> QED BY <1>1, <1>3, <1>5, <2>3 DEF SenderObserve, NoNewReply, Held, Processing
<1>6. CASE ReceiverContinue \/ ReceiverStop
  BY <1>1, <1>2, <1>6 DEF ReceiverContinue, ReceiverStop, PlacesInv, ReceiverInv, Waited, Closing
<1>7. CASE Enqueue
  BY <1>1, <1>7 DEF Enqueue, ReceiverInv, Waited, Closing
<1>8. ASSUME NEW m \in network, RecvPacket(m) \/ RecvTruncated(m) \/ Lose(m) PROVE ReceiverInv'
  BY <1>1, <1>8 DEF RecvPacket, RecvTruncated, Lose, PerfectConditions, ReceiverInv, Waited, Closing
<1>9. CASE RecvTimeout
  <2>1. Waited /\ pc'["receiver"] = "peek" /\ pc'["collator"] = pc["collator"]
    BY <1>1, <1>9 DEF RecvTimeout, Waited, Typed, TypeOK
  <2>2. NoNewReply
    BY <1>1, <1>9, <2>1 DEF RecvTimeout, NoNewReply, Held, Processing
  <2> QED BY <1>1, <1>2, <2>1, <2>2, StillNoReplies DEF ReceiverInv, Closing
<1>10. CASE Check("receiver")
  <2>1. pc["receiver"] \in {"peek", "judge"} /\ Waited
    BY <1>2, <1>10 DEF Check, Peek, JudgeEmpty, JudgeEntry, AggregateForward, AggregateRest,
                       Pop, PopEmpty, ReceiverInv, Waited, Closing
  <2>2. CASE Peek("receiver")
    <3>1. /\ pc'["receiver"] = "judge" /\ pc'["collator"] = pc["collator"]
          /\ oldest'["receiver"] = IF Live = {} THEN 0 ELSE popped + 1
          /\ UNCHANGED <<observation_list, raw_data, popped, pending, tmp_obs>>
      BY <1>1, <2>2 DEF Peek
    <3>2. NoNewReply /\ Live' = Live
      BY <1>1, <3>1 DEF NoNewReply, Held, Processing, Live
    <3>3. oldest'["receiver"] \in {0} \cup Live
      BY <3>1, ClientTypes DEF Live
    <3> QED BY <1>1, <1>2, <2>1, <3>1, <3>2, <3>3, StillNoReplies DEF ReceiverInv, Closing
  <2>3. CASE JudgeEmpty("receiver")
    BY <1>1, <1>2, <2>3 DEF JudgeEmpty, ReceiverInv, Waited, Closing
  <2>4. CASE JudgeEntry("receiver")
    <3>1. oldest["receiver"] \in Live
      BY <1>2, <2>4 DEF JudgeEntry, ReceiverInv
    <3>2. pc' = [pc EXCEPT !["receiver"] = "loop"]
      BY <2>1, <2>4, <3>1, NothingToClose, JudgedComplete
    <3> QED BY <1>1, <3>2 DEF ReceiverInv, Waited, Closing
  <2> QED BY <1>10, <2>1, <2>2, <2>3, <2>4
             DEF Check, AggregateForward, AggregateRest, Pop, PopEmpty
<1>11. CASE CollatorStart \/ CollatorLoop \/ CollatorPoll \/ CollatorFind
  BY <1>1, <1>3, <1>11
     DEF CollatorStart, CollatorLoop, CollatorPoll, CollatorFind, NoNewReply, Held, Processing
<1>12. CASE CollatorPopObs
  <2>1. /\ observation_list # <<>> /\ pc["collator"] = "pop_obs" /\ pc'["collator"] = "find"
        /\ tmp_obs' = Head(observation_list) /\ observation_list' = Tail(observation_list)
    BY <1>1, <1>12 DEF CollatorPopObs, Typed, ObservationPopSafe
  <2>2. /\ Head(observation_list) \in Range(observation_list)
        /\ Range(observation_list)' \subseteq Range(observation_list)
    BY <2>1, ClientTypes, TailOnce DEF PromptInv, ObservationsInv
  <2>3. \A o \in Range(observation_list)' \cup Held' : o \in Range(observation_list)
    BY <2>1, <2>2 DEF Held, Processing
  <2> QED BY <1>1, <1>3, <1>12, <2>1, <2>3 DEF CollatorPopObs, NoNewReply
<1>13. CASE CollatorUpdate
  <2>1. /\ pc["collator"] = "update" /\ pc'["collator"] = "loop" /\ popped' = popped
        /\ pc'["receiver"] = pc["receiver"]
        /\ UNCHANGED <<oldest, recv_wait, pending, observation_list>>
    BY <1>1, <1>13 DEF CollatorUpdate
  <2>2. Held' = {} /\ Held = {tmp_obs}
    BY <2>1 DEF Held, Processing
  <2>3. Live \subseteq Live'
    BY <1>13, <2>1, UpdateEntries, ClientTypes DEF Live
  <2>4. ASSUME Waited' PROVE NoReplies'
    <3>1. NoReplies
      BY <1>2, <2>1, <2>4 DEF ReceiverInv, Waited
    <3>2. IsSend(tmp_obs)
      BY <2>2, <3>1 DEF NoReplies
    <3>3. ASSUME NEW i \in Live' PROVE raw_data'[i].at["SERVER_SEND"] = 0
      <4>1. CASE i \in Live
        <5>1. i \in 1..Len(raw_data) /\ raw_data[i].at["SERVER_SEND"] = 0
          BY <3>1, <4>1, ClientTypes DEF NoReplies, Live
        <5> QED BY <1>13, <3>2, <5>1, UpdateEntries DEF IsSend, ObservationPoints
      <4>2. CASE i = Len(raw_data) + 1 /\ entry = 0
        BY <1>13, <3>2, <4>2, UpdateEntries DEF IsSend, ObservationPoints
      <4> QED BY <1>13, <2>1, <4>1, <4>2, UpdateEntries, ClientTypes DEF Live
    <3> QED BY <2>1, <2>2, <3>1, <3>3 DEF NoReplies
  <2> QED BY <1>2, <2>1, <2>3, <2>4 DEF ReceiverInv
<1>14. CASE Check("collator")
  <2>1. CASE Pop("collator") \/ PopEmpty("collator")
    <3>1. pc["collator"] = "pop" /\ pc'["receiver"] = pc["receiver"] /\ recv_wait' = recv_wait
      BY <1>1, <2>1 DEF Pop, PopEmpty
    <3>2. ~Waited
      BY <3>1, NothingToClose DEF Closing
    <3> QED BY <1>2, <3>1, <3>2 DEF ReceiverInv, Waited
  <2>2. CASE ~Pop("collator") /\ ~PopEmpty("collator")
    <3>1. /\ pc'["receiver"] = pc["receiver"] /\ oldest'["receiver"] = oldest["receiver"]
          /\ UNCHANGED <<recv_wait, popped, raw_data, pending, observation_list, tmp_obs>>
          /\ pc["collator"] \in CheckLabels /\ pc'["collator"] \in CheckLabels \cup {"loop"}
      BY <1>1, <1>14, <2>2 DEF Check, Peek, JudgeEmpty, JudgeEntry, AggregateForward, AggregateRest,
                               CheckLabels
    <3>2. NoNewReply
      BY <1>1, <3>1 DEF NoNewReply, Held, Processing, CheckLabels
    <3> QED BY <1>3, <3>1, <3>2
  <2> QED BY <2>1, <2>2
<1>15. CASE Tick
  <2>1. /\ UNCHANGED <<pc, oldest, popped, pending, observation_list, tmp_obs>>
        /\ pc["receiver"] # "recv" => recv_wait' = recv_wait
    BY <1>15 DEF Tick
  <2>2. Live' = Live /\ Held' = Held /\ Live = {}
    BY <1>15, <2>1, TickStill DEF Live, Held, Processing
  <2>3. NoReplies' \/ pc["collator"] = "done"
    BY <1>15, <2>1, <2>2, TickStill DEF NoReplies, Range
  <2> QED BY <1>2, <2>1, <2>2, <2>3 DEF ReceiverInv
<1>16. CASE Terminating
  BY <1>3, <1>16, ClientTypes DEF Terminating, vars, NoNewReply, Held, Processing
<1> QED
  BY <1>4, <1>5, <1>6, <1>7, <1>8, <1>9, <1>10, <1>11, <1>12, <1>13, <1>14, <1>15, <1>16
     DEF Next, Sender, Receiver, Collator

(* sent_packets counts the packets sent, received or on the network.        *)
LEMMA CountStep ==
    ASSUME PerfectConditions, Typed, PromptInv, Next
    PROVE  IsFiniteSet(network') /\ sent_packets' = received_packets' + Cardinality(network')
<1>1. /\ IsFiniteSet(network) /\ sent_packets = received_packets + Cardinality(network)
      /\ sent_packets \in Nat /\ received_packets \in Nat /\ Cardinality(network) \in Nat
  <2>1. IsFiniteSet(network) /\ sent_packets = received_packets + Cardinality(network)
    BY DEF PromptInv, EndInv
  <2>2. sent_packets \in Nat /\ received_packets \in Nat
    BY DEF Typed, TypeOK
  <2> QED BY <2>1, <2>2, FS_CardinalityType
<1>2. CASE UNCHANGED <<network, sent_packets, received_packets>>
  BY <1>1, <1>2
<1>3. CASE SendOk
  <2> DEFINE m == [to |-> next_remote, id |-> index]
  <2>1. /\ network' = network \cup {m} /\ sent_packets' = sent_packets + 1
        /\ received_packets' = received_packets /\ pc["sender"] = "send"
    BY <1>3 DEF SendOk, At
  <2>2. m.id = index /\ index \in Nat
    BY ClientTypes
  <2> HIDE DEF m
  <2>3. m \notin network
    <3> SUFFICES ASSUME m \in network PROVE FALSE
      OBVIOUS
    <3> DEFINE x == [point |-> "SERVER_SEND", id |-> index, stamp |-> 1]
    <3>1. x \in Observation /\ ~IsSend(x) /\ x.id = index
      BY <2>2, RemotesAssumption DEF Observation, ObservationPoints, Remotes, IsSend
    <3> HIDE DEF x
    <3>2. x \in Known
      BY <2>2, <3>1 DEF Known, Travelling
    <3>3. x.id < index
      BY <2>1, <3>2 DEF PromptInv, ObservationsInv, Reached
    <3> QED BY <2>2, <3>1, <3>3
  <2>4. IsFiniteSet(network') /\ Cardinality(network') = Cardinality(network) + 1
    BY <1>1, <2>1, <2>3, FS_AddElement
  <2> QED BY <1>1, <2>1, <2>4
<1>4. ASSUME NEW m \in network, RecvPacket(m)
      PROVE  IsFiniteSet(network') /\ sent_packets' = received_packets' + Cardinality(network')
  <2>1. network' = network \ {m} /\ sent_packets' = sent_packets
        /\ received_packets' = received_packets + 1
    BY <1>4, ClientTypes DEF RecvPacket, Deliver, PerfectConditions, senderVars
  <2>2. IsFiniteSet(network') /\ Cardinality(network') = Cardinality(network) - 1
    BY <1>1, <2>1, FS_RemoveElement
  <2> QED BY <1>1, <2>1, <2>2
<1> USE DEF senderVars, netVars
<1>5. CASE SenderNext \/ SenderDone \/ SendFail \/ SenderObserve
  BY <1>2, <1>5 DEF SenderNext, SenderDone, SendFail, SenderObserve
<1>6. CASE ReceiverContinue \/ ReceiverStop \/ RecvTimeout \/ Enqueue
  BY <1>2, <1>6 DEF ReceiverContinue, ReceiverStop, RecvTimeout, Enqueue
<1>7. ASSUME NEW m \in network, RecvTruncated(m) \/ Lose(m) PROVE FALSE
  BY <1>7 DEF RecvTruncated, Lose, PerfectConditions
<1>8. CASE Collator
  BY <1>2, <1>8 DEF Collator, CollatorStart, CollatorLoop, CollatorPoll, CollatorPopObs,
     CollatorFind, CollatorUpdate, Check, Peek, JudgeEmpty, JudgeEntry, AggregateForward,
     AggregateRest, Pop, PopEmpty
<1>9. CASE Check("receiver")
  BY <1>2, <1>9 DEF Check, Peek, JudgeEmpty, JudgeEntry, AggregateForward, AggregateRest, Pop,
     PopEmpty
<1>10. CASE Tick \/ Terminating
  BY <1>2, <1>10 DEF Tick, Terminating, vars
<1> QED
  BY <1>3, <1>4, <1>5, <1>6, <1>7, <1>8, <1>9, <1>10 DEF Next, Sender, Receiver

(* Where the threads may be once the collator has been told to end.         *)
Ending ==
    \/ Live = {} /\ pc["collator"] \in {"loop", "done"}
    \/ /\ pc["receiver"] \in {"loop", "recv", "enqueue", "done"} /\ recv_wait = 0
       /\ pc["receiver"] = "recv" => network # {}
SeenEmpty == pc["collator"] = "judge" /\ oldest["collator"] = 0 => Live = {}

(* Every step keeps the end of the collator in order.                       *)
LEMMA EndStep ==
    ASSUME PerfectConditions, Typed, PipelineInv, PromptInv, Next
    PROVE  EndInv'
<1>1. /\ pc \in [Threads -> Labels] /\ popped \in 0..Len(raw_data) /\ Len(raw_data) \in Nat
      /\ oldest \in [Closers -> 0..Len(raw_data)]
  BY DEF Typed, TypeOK
<1>2. SeenEmpty /\ (collator_finished => Ending) /\ PlacesInv /\ pc["receiver"] \notin Closing
  BY DEF PromptInv, EndInv, ReceiverInv, SeenEmpty, Ending
<1>3. SUFFICES SeenEmpty' /\ (collator_finished' => Ending')
  BY CountStep DEF EndInv, SeenEmpty, Ending
<1> USE DEF At, Goto, Return, Threads, Closers, senderVars, collatorVars, listVars, closeVars,
            netVars, timeVars, flagVars
<1>4. CASE Sender
  <2>1. /\ UNCHANGED <<raw_data, popped, oldest, recv_wait, collator_finished>>
        /\ pc'["receiver"] = pc["receiver"] /\ pc'["collator"] = pc["collator"]
        /\ network # {} => network' # {}
    BY <1>1, <1>4 DEF Sender, SenderNext, SenderDone, SendOk, SendFail, SenderObserve
  <2> QED BY <1>2, <2>1 DEF SeenEmpty, Ending, Live
<1>5. CASE Receiver
  <2>1. /\ UNCHANGED <<raw_data, popped>> /\ oldest'["collator"] = oldest["collator"]
        /\ pc'["collator"] = pc["collator"]
    BY <1>1, <1>2, <1>5
       DEF Receiver, ReceiverContinue, ReceiverStop, RecvPacket, RecvTruncated, RecvTimeout,
           Enqueue, Check, Peek, JudgeEmpty, JudgeEntry, AggregateForward, AggregateRest, Pop,
           PopEmpty, Closing
  <2>2. SeenEmpty' /\ Live' = Live
    BY <1>2, <2>1 DEF SeenEmpty, Live
  <2>3. CASE Live = {} /\ pc["collator"] \in {"loop", "done"}
    BY <2>1, <2>2, <2>3 DEF Ending
  <2>4. CASE ~(Live = {} /\ pc["collator"] \in {"loop", "done"})
    <3>1. CASE ReceiverContinue
      <4>1. collator_finished => network # {}
        <5>1. collator_finished => received_packets < sent_packets
          BY <1>2, <3>1 DEF ReceiverContinue, KeepReceiving, PlacesInv
        <5>2. network = {} => ~(received_packets < sent_packets)
          BY FS_EmptySet DEF PromptInv, EndInv, Typed, TypeOK
        <5> QED BY <5>1, <5>2
      <4> QED BY <1>1, <1>2, <2>2, <3>1, <4>1 DEF ReceiverContinue, Ending, PlacesInv
    <3>2. CASE ReceiverStop \/ Enqueue
      BY <1>1, <1>2, <2>2, <3>2 DEF ReceiverStop, Enqueue, Ending, PlacesInv
    <3>3. ASSUME NEW m \in network, RecvPacket(m) \/ RecvTruncated(m)
          PROVE  collator_finished' => Ending'
      BY <1>1, <1>2, <3>3 DEF RecvPacket, RecvTruncated, Ending, PerfectConditions
    <3>4. CASE RecvTimeout
      <4>1. ~collator_finished /\ collator_finished' = collator_finished
        BY <1>2, <2>4, <3>4 DEF RecvTimeout, Ending
      <4> QED BY <2>2, <4>1
    <3>5. CASE JudgeEmpty("receiver")
      <4>1. pc'["receiver"] = "loop" /\ recv_wait' = 0
        BY <1>1, <1>2, <3>5 DEF JudgeEmpty, PlacesInv
      <4> QED BY <2>2, <4>1 DEF Ending
    <3>6. CASE Peek("receiver") \/ JudgeEntry("receiver")
      <4>1. ~collator_finished /\ collator_finished' = collator_finished
        BY <1>2, <2>4, <3>6 DEF Peek, JudgeEntry, Ending
      <4> QED BY <2>2, <4>1
    <3> QED BY <1>2, <1>5, <2>2, <3>1, <3>2, <3>3, <3>4, <3>5, <3>6
       DEF Receiver, Check, AggregateForward, AggregateRest, Pop, PopEmpty, Closing
  <2> QED BY <2>2, <2>3, <2>4
<1>6. CASE Collator
  <2>1. UNCHANGED <<recv_wait, network>> /\ pc'["receiver"] = pc["receiver"]
    BY <1>1, <1>6
       DEF Collator, CollatorStart, CollatorLoop, CollatorPoll, CollatorPopObs, CollatorFind,
           CollatorUpdate, Check, Peek, JudgeEmpty, JudgeEntry, AggregateForward, AggregateRest,
           Pop, PopEmpty
  <2>2. CASE CollatorLoop
    BY <1>1, <1>2, <2>1, <2>2 DEF CollatorLoop, SeenEmpty, Ending, Live
  <2>3. CASE CollatorStart \/ CollatorPoll \/ CollatorPopObs \/ CollatorFind \/ CollatorUpdate
    BY <1>1, <1>2, <2>1, <2>3
       DEF CollatorStart, CollatorPoll, CollatorPopObs, CollatorFind, CollatorUpdate, SeenEmpty,
           Ending
  <2>4. CASE Peek("collator")
    BY <1>1, <1>2, <2>1, <2>4 DEF Peek, SeenEmpty, Ending, Live
  <2>5. CASE JudgeEmpty("collator")
    <3>1. Live = {} /\ UNCHANGED <<raw_data, popped>> /\ pc'["collator"] = "loop"
      BY <1>1, <1>2, <2>5 DEF JudgeEmpty, SeenEmpty
    <3>2. Live' = {}
      BY <3>1 DEF Live
    <3> QED BY <3>1, <3>2 DEF SeenEmpty, Ending
  <2>6. CASE JudgeEntry("collator") \/ AggregateForward("collator") \/ AggregateRest("collator")
    BY <1>1, <1>2, <2>1, <2>6 DEF JudgeEntry, AggregateForward, AggregateRest, SeenEmpty, Ending
  <2>7. CASE Pop("collator") \/ PopEmpty("collator")
    <3>1. /\ pc["collator"] = "pop" /\ collator_finished' = collator_finished
          /\ pc'["collator"] \in {"loop", "pop"}
      BY <1>1, <2>7 DEF Pop, PopEmpty
    <3> QED BY <1>2, <2>1, <3>1 DEF SeenEmpty, Ending
  <2> QED BY <1>6, <2>2, <2>3, <2>4, <2>5, <2>6, <2>7 DEF Collator, Check
<1>7. CASE Tick
  <2>1. UNCHANGED <<pc, popped>> /\ pc["collator"] \in {"loop", "done"}
    BY <1>7, TickStill DEF Tick
  <2>2. Live' = {}
    BY <1>7, <2>1, TickStill DEF Live
  <2> QED BY <2>1, <2>2 DEF SeenEmpty, Ending
<1>8. CASE Terminating
  BY <1>2, <1>8 DEF Terminating, vars, SeenEmpty, Ending, Live
<1>9. ASSUME NEW m \in network, Lose(m) PROVE FALSE
  BY <1>9 DEF Lose, PerfectConditions
<1> QED BY <1>4, <1>5, <1>6, <1>7, <1>8, <1>9 DEF Next

-----------------------------------------------------------------------------
(* The rows                                                                 *)

(* A step that reports nothing.                                             *)
LEMMA RowsFrame ==
    ASSUME RowsInv, UNCHANGED <<rows, popped>>,
           \A j \in 1..Len(rows) :
               raw_data'[j].id = raw_data[j].id /\ raw_data'[j].at = raw_data[j].at,
           pc'["collator"] = "pop" <=> pc["collator"] = "pop"
    PROVE  RowsInv'
  BY DEF RowsInv

(* Every step keeps the rows and the closed entries in agreement.           *)
LEMMA RowsStep ==
    ASSUME PerfectConditions, Typed, Typed', PipelineInv, PromptInv, Next
    PROVE  RowsInv'
<1>1. /\ pc \in [Threads -> Labels] /\ popped \in 0..Len(raw_data) /\ Len(raw_data) \in Nat
      /\ rows \in Seq(Row)
  BY TypedQueues, ClientTypes
<1>2. RowsInv /\ pc["receiver"] \notin Closing
  BY DEF PromptInv, ReceiverInv
<1> USE DEF At, Goto, Return, Threads, Closers, senderVars, collatorVars, listVars, closeVars,
            netVars, timeVars, flagVars
<1>3. CASE Sender
  BY <1>1, <1>2, <1>3, RowsFrame
     DEF Sender, SenderNext, SenderDone, SendOk, SendFail, SenderObserve
<1>4. CASE Receiver
  <2>1. UNCHANGED <<rows, popped, raw_data>> /\ pc'["collator"] = pc["collator"]
    BY <1>1, <1>2, <1>4
       DEF Receiver, ReceiverContinue, ReceiverStop, RecvPacket, RecvTruncated, RecvTimeout,
           Enqueue, Check, Peek, JudgeEmpty, JudgeEntry, AggregateForward, AggregateRest, Pop,
           PopEmpty, Closing
  <2> QED BY <1>2, <2>1, RowsFrame
<1>5. CASE CollatorStart \/ CollatorLoop \/ CollatorPoll \/ CollatorPopObs \/ CollatorFind
  BY <1>1, <1>2, <1>5, RowsFrame
     DEF CollatorStart, CollatorLoop, CollatorPoll, CollatorPopObs, CollatorFind
<1>6. CASE CollatorUpdate
  <2>1. /\ UNCHANGED <<rows, popped>>
        /\ pc["collator"] = "update" /\ pc'["collator"] = "loop"
    BY <1>1, <1>6 DEF CollatorUpdate
  <2>2. Len(rows) = popped
    BY <1>1, <1>2, <2>1 DEF RowsInv
  <2>3. \A j \in 1..popped : raw_data'[j].id = raw_data[j].id
    BY <1>1, <1>6, UpdateEntries
  <2>4. \A j \in 1..popped : raw_data'[j].at = raw_data[j].at
    BY FrozenStep DEF PromptInv
  <2> QED BY <1>2, <2>1, <2>2, <2>3, <2>4, RowsFrame
<1>7. CASE Peek("collator") \/ JudgeEmpty("collator") \/ JudgeEntry("collator")
  BY <1>1, <1>2, <1>7, RowsFrame DEF Peek, JudgeEmpty, JudgeEntry
<1> DEFINE e == raw_data[popped + 1]
<1>8. pc["collator"] \in Closing => oldest["collator"] = popped + 1 /\ Complete(e.at)
  BY DEF PromptInv, CloserInv, EntriesInv
<1>9. CASE AggregateForward("collator")
  BY <1>1, <1>2, <1>9, RowsFrame DEF AggregateForward
<1>10. CASE AggregateRest("collator")
  <2> DEFINE row == [id |-> e.id, at |-> e.at, entry |-> popped + 1]
  <2>1. /\ pc["collator"] = "aggregate" /\ pc'["collator"] = "pop"
        /\ UNCHANGED <<popped, raw_data>>
    BY <1>1, <1>10 DEF AggregateRest
  <2>2. oldest["collator"] = popped + 1 /\ Complete(e.at)
    BY <1>8, <2>1 DEF Closing
  <2>3. rows' = Append(rows, row)
    BY <1>10, <2>2 DEF AggregateRest
  <2>5. row \in Row /\ row.id = e.id /\ row.at = e.at
    <3>1. e \in RawData
      BY <1>1, <2>1, <2>2, ClientTypes DEF PromptInv, CloserInv, Closing
    <3> QED BY <1>1, <3>1 DEF RawData, Row
  <2> HIDE DEF row, e
  <2>6. /\ Len(rows') = Len(rows) + 1 /\ Len(rows) \in Nat
        /\ \A j \in 1..Len(rows) : rows'[j] = rows[j]
        /\ rows'[Len(rows) + 1] = row
    BY <1>1, <2>3, <2>5, AppendTyped
  <2>7. Len(rows) = popped
    BY <1>1, <1>2, <2>1 DEF RowsInv
  <2>8. \A j \in 1..Len(rows') : rows'[j].id = raw_data[j].id /\ rows'[j].at = raw_data[j].at
    <3> TAKE j \in 1..Len(rows')
    <3>1. CASE j \in 1..Len(rows)
      BY <1>2, <2>6, <3>1 DEF RowsInv
    <3>2. CASE j = popped + 1
      BY <2>5, <2>6, <2>7, <3>2 DEF e
    <3> QED BY <2>6, <2>7, <3>1, <3>2
  <2> QED BY <1>1, <1>2, <2>1, <2>6, <2>7, <2>8 DEF RowsInv
<1>11. CASE Pop("collator") \/ PopEmpty("collator")
  <2>1. ~undefined'
    BY CloserStep DEF PromptInv, ReceiverInv, ReceiverCloses, CloserInv
  <2>2. /\ pc["collator"] = "pop" /\ pc'["collator"] = "loop" /\ popped' = popped + 1
        /\ UNCHANGED <<rows, raw_data>>
    BY <1>1, <1>11, <2>1 DEF Pop, PopEmpty
  <2> QED BY <1>1, <1>2, <2>2 DEF RowsInv
<1>12. CASE Tick
  BY <1>2, <1>12, TickStill, RowsFrame DEF Tick
<1>13. CASE Terminating
  BY <1>2, <1>13, RowsFrame DEF Terminating, vars
<1>14. ASSUME NEW m \in network, Lose(m) PROVE FALSE
  BY <1>14 DEF Lose, PerfectConditions
<1> QED
  BY <1>3, <1>4, <1>5, <1>6, <1>7, <1>9, <1>10, <1>11, <1>12, <1>13, <1>14
     DEF Next, Collator, Check

-----------------------------------------------------------------------------
(* The theorems                                                             *)

(* It begins with nothing anywhere.                                         *)
LEMMA PromptInit ==
    ASSUME PerfectConditions, Init
    PROVE  PromptInv
<1>1. /\ pc["sender"] = "loop" /\ pc["receiver"] = "loop" /\ pc["collator"] = "start"
      /\ raw_data = <<>> /\ observation_list = <<>> /\ pending = <<>> /\ network = {}
      /\ rows = <<>> /\ popped = 0 /\ Len(raw_data) = 0 /\ Len(rows) = 0
  BY DEF Init, Threads, PerfectConditions
<1>2. /\ Travelling = {} /\ Held = {} /\ Entered = {}
      /\ Range(pending) = {} /\ Range(observation_list) = {}
  BY <1>1 DEF Travelling, Held, Entered, Processing, Range
<1>3. ObservationsInv
  <2>1. Known = {}
    BY <1>2 DEF Known
  <2>2. IsInjective(pending) /\ IsInjective(observation_list)
    BY <1>1 DEF IsInjective
  <2> QED BY <1>2, <2>1, <2>2 DEF ObservationsInv, Apart, Together
<1>4. CloserInv /\ EntriesInv /\ ReceiverInv
  BY <1>1 DEF Init, CloserInv, EntriesInv, ReceiverInv, Waited, Closing
<1>5. PlacesInv
  BY <1>1 DEF Init, PlacesInv, Closers
<1>6. EndInv
  BY <1>1, FS_EmptySet DEF Init, EndInv
<1>7. RowsInv
  BY <1>1 DEF Init, RowsInv
<1> QED BY <1>3, <1>4, <1>5, <1>6, <1>7 DEF PromptInv

(* All steps keep the invariant.                                            *)
LEMMA PromptInductive ==
    ASSUME PerfectConditions
    PROVE  Spec => [](Typed /\ PromptInv)
<1>1. Init => PromptInv
  BY PromptInit
<1>2. Typed /\ Typed' /\ PipelineInv /\ PromptInv /\ Next => PromptInv'
  <2> SUFFICES ASSUME Typed, Typed', PipelineInv, PromptInv, Next PROVE PromptInv'
    OBVIOUS
  <2>1. CloserInv'
    BY CloserStep DEF PromptInv, ReceiverInv, ReceiverCloses
  <2> QED
    BY <2>1, ObservationsStep, EntriesStep, PlacesStep, ReceiverStep, EndStep, RowsStep
       DEF PromptInv
<1>3. PromptInv /\ UNCHANGED vars => PromptInv'
  <2> SUFFICES ASSUME PromptInv, UNCHANGED vars PROVE PromptInv'
    OBVIOUS
  <2>1. /\ UNCHANGED <<pc, index, next_remote, sent_packets, received_packets, sending_completed,
                       collator_started, collator_finished, observation_list>>
        /\ UNCHANGED <<raw_data, popped, pending, tmp_obs, entry, oldest, rows, network,
                       recv_wait, undefined>>
    BY DEF vars, senderVars, collatorVars, listVars, closeVars, netVars, timeVars, flagVars
  <2>2. CloserInv' /\ EntriesInv' /\ PlacesInv' /\ RowsInv'
    BY <2>1 DEF PromptInv, CloserInv, EntriesInv, PlacesInv, RowsInv
  <2>3. ObservationsInv'
    BY <2>1 DEF PromptInv, ObservationsInv, Known, Travelling, Held, Entered, Reached, Processing
  <2>4. ReceiverInv' /\ EndInv'
    BY <2>1 DEF PromptInv, ReceiverInv, EndInv, Waited, NoReplies, Held, Processing, Live
  <2> QED BY <2>2, <2>3, <2>4 DEF PromptInv
<1>4. Spec => []Typed /\ []PipelineInv
  BY TypedCorrect, PipelineCorrect, PTL
<1> QED BY <1>1, <1>2, <1>3, <1>4, PTL DEF Spec

(* Each row is of an entry, and complete.                                   *)
LEMMA RowsComplete ==
    ASSUME PerfectConditions, Typed, PromptInv
    PROVE  \A j \in 1..Len(rows) :
              /\ j \in 1..Len(raw_data)
              /\ rows[j].id = raw_data[j].id
              /\ \A p \in ObservationPoints : rows[j].at[p] = 1
<1>1. /\ popped \in 0..Len(raw_data) /\ Len(raw_data) \in Nat /\ Len(rows) \in Nat
      /\ rows \in Seq(Row)
  BY DEF Typed, TypeOK
<1>2. \A j \in 1..Len(rows) : j \in 1..Len(raw_data) /\ Complete(raw_data[j].at)
  <2>1. pc["collator"] = "pop" => popped + 1 <= Len(raw_data) /\ Complete(raw_data[popped + 1].at)
    BY DEF PromptInv, CloserInv, EntriesInv, Closing
  <2> QED BY <1>1, <2>1 DEF PromptInv, RowsInv, EntriesInv
<1>3. \A j \in 1..Len(rows) : rows[j].at \in [ObservationPoints -> Stamps]
  <2>1. \A j \in 1..Len(rows) : rows[j] \in Row
    BY <1>1
  <2> QED BY <2>1 DEF Row
<1> QED BY <1>2, <1>3 DEF PromptInv, RowsInv, Complete, Stamps, PerfectConditions

(* Under perfect conditions a packet gets at most one verdict, although two *)
(* threads give verdicts: see VerdictOnce.                                  *)
THEOREM OneVerdict ==
    ASSUME PerfectConditions
    PROVE  Spec => []VerdictOnce
<1>1. Typed /\ PromptInv => VerdictOnce
  BY RowsComplete DEF VerdictOnce, PromptInv, EntriesInv
<1> QED BY <1>1, PromptInductive, PTL

(* Under perfect conditions no row is made of a part of a reply, although a *)
(* reply is queued in three steps: see NoSplitReply.                        *)
THEOREM RepliesWhole ==
    ASSUME PerfectConditions
    PROVE  Spec => []NoSplitReply
<1>1. Typed /\ PromptInv => NoSplitReply
  BY RowsComplete DEF NoSplitReply
<1> QED BY <1>1, PromptInductive, PTL
=============================================================================
