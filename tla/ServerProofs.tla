---------------------------- MODULE ServerProofs ----------------------------
(***************************************************************************)
(* What Server promises for every number of samples, every timeout, every  *)
(* set of clients and every number of datagrams.                           *)
(***************************************************************************)
EXTENDS Server, FiniteSetTheorems, TLAPS

(* The counter of listen() and the datagrams received, at each place of the *)
(* loop: the counter is ahead by one only while recvmsg waits, and listen() *)
(* returns 0 only by the test in the head of the loop.                      *)
CounterInv ==
    NumSamples # 0 =>
        /\ pc \in {"start", "count"} \/ Handling => counter = consumed /\ consumed <= NumSamples
        /\ pc = "recv" => counter = consumed + 1 /\ counter <= NumSamples
        /\ pc = "exit" => IF exit_status = 0 THEN consumed = NumSamples ELSE consumed <= NumSamples

(* The inductive invariant.                                                 *)
ServerInv == TypeOK /\ Conservation /\ CounterInv

(* A fresh datagram is a Datagram.                                          *)
LEMMA ArriveTyped ==
    ASSUME TypeOK, NEW c \in Clients, NEW n \in Lengths, NEW t \in ClientTimes,
           NEW s \in KernelStamps, Arrive(c, SentBy(c), n, t, s)
    PROVE  TypeOK'
<1>1. IsFiniteSet(1..Len(arrivals))
  BY FS_Interval DEF TypeOK
<1>2. SentBy(c) \in Nat
  BY <1>1, FS_Subset, FS_CardinalityType DEF SentBy
<1>3. arrivals' \in Seq(Datagram) /\ Len(arrivals') = Len(arrivals) + 1
  BY <1>2, SwitchesAssumption, TimesAssumption DEF TypeOK, Arrive, Datagram
<1> QED BY <1>3 DEF TypeOK, Arrive, stampVars

(* The reply to a received datagram is a Reply.                             *)
LEMMA ReflectionTyped ==
    ASSUME TypeOK, consumed # 0
    PROVE  Reflection(Current) \in Reply
<1>1. Current \in Datagram
  BY DEF TypeOK, Current
<1> QED BY <1>1 DEF TypeOK, Reflection, Reply, Datagram

(* The server starts with its counters at 0.                                *)
LEMMA ServerInit == Init => ServerInv
BY NumSamplesAssumption, LimitsAssumption
   DEF Init, ServerInv, TypeOK, Conservation, CounterInv, Handling

(* Every step keeps the types.                                              *)
LEMMA TypeStep == TypeOK /\ [Next]_vars => TypeOK'
<1> SUFFICES ASSUME TypeOK, [Next]_vars PROVE TypeOK'
  OBVIOUS
<1> USE NumSamplesAssumption, LimitsAssumption, LengthsAssumption, SwitchesAssumption
<1>1. CASE Count
  BY <1>1 DEF TypeOK, Count, stampVars
<1>2. CASE Receive
  BY <1>2 DEF TypeOK, Receive, stampVars
<1>3. CASE ReceiveTimeout
  BY <1>3 DEF TypeOK, ReceiveTimeout, stampVars
<1>4. CASE ReceiveError
  BY <1>4 DEF TypeOK, ReceiveError, stampVars
<1>5. CASE StampReceive
  <2>1. ReceiveTime(Current) \in Nat
    <3>1. Current \in Datagram
      BY <1>5 DEF TypeOK, StampReceive, Current
    <3> QED BY <3>1 DEF TypeOK, ReceiveTime, KernelTime, Datagram
  <2> QED BY <1>5, <2>1 DEF TypeOK, StampReceive
<1>6. CASE StampSend
  BY <1>6 DEF TypeOK, StampSend
<1>7. CASE SendReply
  BY <1>7, ReflectionTyped DEF TypeOK, SendReply, Forget
<1>8. CASE SendFails
  BY <1>8 DEF TypeOK, SendFails, Forget
<1>9. CASE PortThrows
  BY <1>9 DEF TypeOK, PortThrows, Forget
<1>10. ASSUME NEW c \in Clients, NEW n \in Lengths, NEW t \in ClientTimes,
           NEW s \in KernelStamps, Arrive(c, SentBy(c), n, t, s) PROVE TypeOK'
  BY <1>10, ArriveTyped
<1>11. CASE Tick
  BY <1>11 DEF TypeOK, Tick, stampVars
<1>12. CASE Terminating \/ UNCHANGED vars
  BY <1>12 DEF TypeOK, Terminating, vars, stampVars
<1>13. CASE StartOk \/ StartFails
  BY <1>13 DEF TypeOK, StartOk, StartFails, stampVars
<1> QED
  BY <1>1, <1>2, <1>3, <1>4, <1>5, <1>6, <1>7, <1>8, <1>9, <1>10, <1>11, <1>12, <1>13
  DEF Next, Listen, Proceed

(* Every datagram received is answered once or dropped once.                *)
LEMMA ConservationStep == TypeOK /\ Conservation /\ [Next]_vars => Conservation'
<1> SUFFICES ASSUME TypeOK, Conservation, [Next]_vars PROVE Conservation'
  OBVIOUS
<1> USE DEF TypeOK, Conservation, Handling
<1>1. CASE Count
  BY <1>1 DEF Count
<1>2. CASE Receive
  BY <1>2 DEF Receive
<1>3. CASE ReceiveTimeout \/ ReceiveError
  BY <1>3 DEF ReceiveTimeout, ReceiveError
<1>4. CASE StampReceive \/ StampSend
  BY <1>4 DEF StampReceive, StampSend
<1>5. CASE SendReply
  <2>1. Len(replies') = Len(replies) + 1
    BY <1>5, ReflectionTyped DEF SendReply
  <2> QED BY <1>5, <2>1 DEF SendReply
<1>6. CASE SendFails \/ PortThrows
  BY <1>6 DEF SendFails, PortThrows
<1>7. ASSUME NEW c \in Clients, NEW n \in Lengths, NEW t \in ClientTimes,
           NEW s \in KernelStamps, Arrive(c, SentBy(c), n, t, s) PROVE Conservation'
  BY <1>7 DEF Arrive
<1>8. CASE Tick \/ Terminating \/ UNCHANGED vars
  BY <1>8 DEF Tick, Terminating, vars
<1>9. CASE StartOk \/ StartFails
  BY <1>9 DEF StartOk, StartFails
<1> QED
  BY <1>1, <1>2, <1>3, <1>4, <1>5, <1>6, <1>7, <1>8, <1>9 DEF Next, Listen, Proceed

(* Every step keeps the counter of listen() in step with the datagrams,     *)
(* unless NumSamples is the largest uint32_t, where counter++ wraps to 0.   *)
LEMMA CounterStep ==
    ASSUME NumSamples # UintModulus - 1, TypeOK, CounterInv, [Next]_vars
    PROVE  CounterInv'
<1> USE NumSamplesAssumption, LimitsAssumption DEF TypeOK, CounterInv, Handling
<1>1. CASE Count
  <2>1. NumSamples # 0 => counter' = counter + 1
    BY <1>1 DEF Count
  <2> QED BY <1>1, <2>1 DEF Count, Exhausted
<1>2. CASE Receive
  BY <1>2 DEF Receive
<1>3. CASE ReceiveTimeout \/ ReceiveError
  BY <1>3 DEF ReceiveTimeout, ReceiveError
<1>4. CASE StampReceive \/ StampSend
  BY <1>4 DEF StampReceive, StampSend
<1>5. CASE SendReply
  BY <1>5 DEF SendReply
<1>6. CASE SendFails \/ PortThrows
  BY <1>6 DEF SendFails, PortThrows
<1>7. ASSUME NEW c \in Clients, NEW n \in Lengths, NEW t \in ClientTimes,
           NEW s \in KernelStamps, Arrive(c, SentBy(c), n, t, s) PROVE CounterInv'
  BY <1>7 DEF Arrive
<1>8. CASE Tick \/ Terminating \/ UNCHANGED vars
  BY <1>8 DEF Tick, Terminating, vars
<1>9. CASE StartOk \/ StartFails
  BY <1>9 DEF StartOk, StartFails
<1> QED
  BY <1>1, <1>2, <1>3, <1>4, <1>5, <1>6, <1>7, <1>8, <1>9 DEF Next, Listen, Proceed

(* Whatever the clients, the network and the clock do, no datagram that     *)
(* listen() received is forgotten or answered twice.                        *)
THEOREM ServerConserves == Spec => [](TypeOK /\ Conservation)
<1>1. Init => TypeOK /\ Conservation
  BY ServerInit DEF ServerInv
<1>2. TypeOK /\ Conservation /\ [Next]_vars => (TypeOK /\ Conservation)'
  BY TypeStep, ConservationStep
<1> QED BY <1>1, <1>2, PTL DEF Spec

(* Every variable of the server keeps its type, and a datagram is in the    *)
(* buffer whenever one is being handled.                                    *)
THEOREM ServerTyped == Spec => []TypeOK
BY ServerConserves, PTL

(* For every NumSamples but the largest uint32_t, listen() receives at most *)
(* NumSamples datagrams and returns 0 only after exactly that many.         *)
THEOREM BudgetKept ==
    ASSUME NumSamples # UintModulus - 1
    PROVE  Spec => []SampleBudget
<1>1. Init => ServerInv
  BY ServerInit
<1>2. ServerInv /\ [Next]_vars => ServerInv'
  BY TypeStep, ConservationStep, CounterStep DEF ServerInv
<1>3. ServerInv => SampleBudget
  BY NumSamplesAssumption, LimitsAssumption
     DEF ServerInv, TypeOK, CounterInv, SampleBudget, Handling
<1> QED BY <1>1, <1>2, <1>3, PTL DEF Spec

-----------------------------------------------------------------------------
(* The server implements the reflector                                      *)

(* r is a receive time for datagram d: its arrival, or a later reading of   *)
(* the clock if the kernel gave no time.                                    *)
ReceivedAt(r, d) == IF d.stamped THEN r = d.arrived ELSE d.arrived <= r

(* What the times are worth at each place: no datagram comes from the       *)
(* future, and the stamps of the datagram in the buffer enclose its stay.   *)
StampInv ==
    /\ \A k \in 1..Len(arrivals) : arrivals[k].arrived # 0 /\ arrivals[k].arrived <= clock
    /\ pc \in {"stamp_send", "send"} =>
          ReceivedAt(receive_timestamp, Current) /\ receive_timestamp <= clock
    /\ pc = "send" => receive_timestamp <= send_timestamp /\ send_timestamp <= clock

(* A new datagram leaves the earlier ones, and the one in the buffer, alone.*)
LEMMA ArriveKeeps ==
    ASSUME TypeOK, NEW c \in Clients, NEW n \in Lengths, NEW t \in ClientTimes,
           NEW s \in KernelStamps, Arrive(c, SentBy(c), n, t, s)
    PROVE  /\ Len(arrivals') = Len(arrivals) + 1
           /\ \A k \in 1..Len(arrivals) : arrivals'[k] = arrivals[k]
           /\ arrivals'[Len(arrivals')].arrived = clock
           /\ consumed # 0 => Current' = Current
<1>1. IsFiniteSet(1..Len(arrivals))
  BY FS_Interval DEF TypeOK
<1>2. SentBy(c) \in Nat
  BY <1>1, FS_Subset, FS_CardinalityType DEF SentBy
<1> DEFINE d == [from |-> c, seq_number |-> SentBy(c), length |-> n, timestamp |-> t,
                 arrived |-> clock, stamped |-> s]
<1>3. d \in Datagram
  BY <1>2, SwitchesAssumption, TimesAssumption DEF TypeOK, Datagram
<1>4. arrivals' = Append(arrivals, d) /\ consumed' = consumed
  BY DEF Arrive
<1>5. d.arrived = clock
  OBVIOUS
<1> HIDE DEF d
<1> QED BY <1>3, <1>4, <1>5 DEF TypeOK, Current

(* Every step keeps the meaning of the stamps.                              *)
LEMMA StampStep == TypeOK /\ StampInv /\ [Next]_vars => StampInv'
<1> SUFFICES ASSUME TypeOK, StampInv, [Next]_vars PROVE StampInv'
  OBVIOUS
<1> USE LimitsAssumption
<1>1. CASE Count \/ StartOk \/ StartFails \/ ReceiveTimeout \/ ReceiveError
  BY <1>1 DEF TypeOK, StampInv, Count, StartOk, StartFails, ReceiveTimeout, ReceiveError
<1>2. CASE Receive
  BY <1>2 DEF TypeOK, StampInv, Receive
<1>3. CASE StampReceive
  <2>1. Current \in Datagram /\ Current' = Current
    BY <1>3 DEF TypeOK, StampReceive, Current
  <2>2. Current.arrived # 0 /\ Current.arrived <= clock
    BY <1>3 DEF TypeOK, StampInv, StampReceive, Current
  <2>3. ReceivedAt(ReceiveTime(Current), Current) /\ ReceiveTime(Current) <= clock
    BY <2>1, <2>2 DEF TypeOK, ReceivedAt, ReceiveTime, KernelTime, Datagram
  <2> QED BY <1>3, <2>1, <2>3 DEF TypeOK, StampInv, StampReceive
<1>4. CASE StampSend
  BY <1>4 DEF TypeOK, StampInv, StampSend, Current
<1>5. CASE SendReply \/ SendFails \/ PortThrows
  BY <1>5 DEF TypeOK, StampInv, SendReply, SendFails, PortThrows
<1>6. ASSUME NEW c \in Clients, NEW n \in Lengths, NEW t \in ClientTimes,
             NEW s \in KernelStamps, Arrive(c, SentBy(c), n, t, s)
      PROVE  StampInv'
  <2>1. clock' = clock /\ pc' = pc /\ receive_timestamp' = receive_timestamp
        /\ send_timestamp' = send_timestamp
    BY <1>6 DEF Arrive, stampVars
  <2>2. \A k \in 1..Len(arrivals') : arrivals'[k].arrived # 0 /\ arrivals'[k].arrived <= clock
    BY <1>6, ArriveKeeps DEF TypeOK, StampInv
  <2>3. pc \in {"stamp_send", "send"} => Current' = Current
    BY <1>6, ArriveKeeps DEF TypeOK
  <2> QED BY <2>1, <2>2, <2>3 DEF StampInv
<1>7. CASE Tick
  <2>1. clock' \in Nat /\ clock <= clock'
    BY <1>7 DEF Tick, TypeOK
  <2>2. UNCHANGED <<pc, arrivals, consumed, receive_timestamp, send_timestamp>>
    BY <1>7 DEF Tick, stampVars
  <2>3. \A k \in 1..Len(arrivals) : arrivals[k].arrived \in Nat
    <3>1. \A k \in 1..Len(arrivals) : arrivals[k] \in Datagram
      BY DEF TypeOK
    <3> QED BY <3>1 DEF Datagram
  <2> QED BY <2>1, <2>2, <2>3 DEF StampInv, TypeOK, Current
<1>8. CASE Terminating \/ UNCHANGED vars
  BY <1>8 DEF Terminating, vars, stampVars, StampInv, Current
<1> QED
  BY <1>1, <1>2, <1>3, <1>4, <1>5, <1>6, <1>7, <1>8 DEF Next, Listen, Proceed

(* Each step of the server is a step of the reflector, or is not visible.   *)
LEMMA RefinementStep ==
    ASSUME TypeOK, Conservation, StampInv, [Next]_vars
    PROVE  [Outside!Next]_(Outside!vars)
<1> USE LimitsAssumption
<1>1. CASE Count \/ StartOk \/ StampReceive \/ StampSend \/ Terminating \/ UNCHANGED vars
  <2>1. \/ /\ UNCHANGED <<arrivals, replies, dropped, clock>>
           /\ (pc # "exit") = (pc # "exit")'
        \/ Count
    BY <1>1 DEF StartOk, StampReceive, StampSend, Terminating, vars, stampVars
  <2>2. CASE Count
    <3>1. UNCHANGED <<arrivals, replies, dropped, clock>> /\ pc # "exit"
      BY <2>2 DEF Count
    <3>2. CASE pc' = "exit"
      BY <3>1, <3>2 DEF Outside!Next, Outside!Close
    <3>3. CASE pc' # "exit"
      BY <3>1, <3>3 DEF Outside!vars
    <3> QED BY <3>2, <3>3
  <2> QED BY <2>1, <2>2 DEF Outside!vars
<1>2. CASE StartFails \/ ReceiveTimeout \/ ReceiveError
  <2>1. UNCHANGED <<arrivals, replies, dropped, clock>> /\ pc # "exit" /\ pc' = "exit"
    BY <1>2 DEF StartFails, ReceiveTimeout, ReceiveError
  <2> QED BY <2>1 DEF Outside!Next, Outside!Close
<1>3. CASE Receive
  <2>1. UNCHANGED <<arrivals, replies, clock>> /\ pc = "recv" /\ pc' # "exit"
    BY <1>3 DEF Receive
  <2>2. CASE Fits(arrivals[consumed + 1])
    BY <1>3, <2>1, <2>2 DEF Receive, Outside!vars
  <2>3. CASE ~Fits(arrivals[consumed + 1])
    <3>1. dropped' = dropped + 1 /\ consumed < Len(arrivals)
      BY <1>3, <2>3 DEF Receive
    <3>2. Len(replies) + dropped < Len(arrivals)
      BY <2>1, <3>1 DEF TypeOK, Conservation, Handling
    <3> QED BY <2>1, <3>1, <3>2 DEF TypeOK, Outside!Next, Outside!GiveUp
  <2> QED BY <2>2, <2>3
<1>4. CASE SendReply
  <2> DEFINE d == Current
             r == Reflection(Current)
  <2>1. UNCHANGED <<arrivals, clock, dropped>> /\ pc = "send" /\ pc' # "exit" /\ consumed # 0
        /\ replies' = Append(replies, r)
    BY <1>4 DEF SendReply, TypeOK
  <2>2. d \in Datagram /\ r \in Reply /\ replies \in Seq(Reply)
    BY <2>1, ReflectionTyped DEF TypeOK, Current
  <2>3. consumed = Len(replies) + dropped + 1 /\ consumed <= Len(arrivals)
    BY <2>1 DEF TypeOK, Conservation, Handling
  <2>4. Outside!Reflects(r, d)
    BY <2>1 DEF StampInv, ReceivedAt, Reflection, Outside!Reflects
  <2>5. d = arrivals[(Len(replies) + dropped) + 1]
    BY <2>2, <2>3 DEF Current, TypeOK
  <2> HIDE DEF d, r
  <2>6. Len(replies') = Len(replies) + 1 /\ replies'[Len(replies')] = r
        /\ \A i \in 1..Len(replies) : replies'[i] = replies[i]
    BY <2>1, <2>2
  <2>7. Outside!Extends(replies', replies)
    BY <2>6 DEF Outside!Extends
  <2>8. (Len(replies) + dropped)' = Len(replies) + dropped + 1
    BY <2>1, <2>2, <2>6 DEF TypeOK
  <2>9. Outside!Answer
    BY <2>1, <2>2, <2>3, <2>4, <2>5, <2>6, <2>7, <2>8 DEF TypeOK, Outside!Answer
  <2> QED BY <2>9 DEF Outside!Next
<1>5. CASE SendFails \/ PortThrows
  <2>1. UNCHANGED <<arrivals, clock, replies>> /\ pc = "send" /\ dropped' = dropped + 1
    BY <1>5 DEF SendFails, PortThrows
  <2>2. Len(replies) + dropped < Len(arrivals)
    BY <2>1 DEF TypeOK, Conservation, Handling
  <2> QED BY <2>1, <2>2 DEF TypeOK, Outside!Next, Outside!GiveUp
<1>6. ASSUME NEW c \in Clients, NEW n \in Lengths, NEW t \in ClientTimes,
             NEW s \in KernelStamps, Arrive(c, SentBy(c), n, t, s)
      PROVE  Outside!Next
  <2>1. UNCHANGED <<replies, dropped, clock, pc>> /\ pc # "exit"
    BY <1>6 DEF Arrive
  <2>2. Outside!Extends(arrivals', arrivals) /\ arrivals'[Len(arrivals')].arrived = clock
    BY <1>6, ArriveKeeps DEF Outside!Extends
  <2> QED BY <2>1, <2>2 DEF Outside!Next, Outside!Accept
<1>7. CASE Tick
  <2>1. UNCHANGED <<arrivals, replies, dropped, pc>>
    BY <1>7 DEF Tick
  <2>2. clock' > clock \/ clock' = clock
    BY <1>7 DEF Tick, TypeOK
  <2> QED BY <2>1, <2>2 DEF Outside!Next, Outside!Pass, Outside!vars
<1> QED
  BY <1>1, <1>2, <1>3, <1>4, <1>5, <1>6, <1>7 DEF Next, Listen, Proceed

(* The server, whatever its clients, lengths, limits and failures, behaves  *)
(* as the Reflector it is meant to be: it takes the requests in order, and  *)
(* answers each once, with its own data and with times that enclose its     *)
(* stay, or gives it up.                                                    *)
THEOREM ServerImplementsReflector == Spec => ImplementsReflector
<1>1. Init => TypeOK /\ Conservation /\ StampInv
  BY ServerInit DEF ServerInv, Init, StampInv
<1>2. TypeOK /\ Conservation /\ StampInv /\ [Next]_vars
        => (TypeOK /\ Conservation /\ StampInv)'
  BY TypeStep, ConservationStep, StampStep
<1>3. Init => Outside!Init
  BY LimitsAssumption DEF Init, Outside!Init
<1>4. TypeOK /\ Conservation /\ StampInv /\ [Next]_vars => [Outside!Next]_(Outside!vars)
  BY RefinementStep
<1> QED BY <1>1, <1>2, <1>3, <1>4, PTL DEF Spec, ImplementsReflector, Outside!Spec
-----------------------------------------------------------------------------
(* The replies, one by one                                                  *)

(* Reply r answers datagram d and its times enclose the stay of d.          *)
Encloses(r, d) ==
    /\ Answers(r, d)
    /\ r.receive_timestamp <= r.timestamp
    /\ ReceivedAt(r.receive_timestamp, d)

Finished == Len(replies) + dropped  \* the datagrams done with

(* Each client's datagrams arrive in the order of their numbers, which are  *)
(* those of the datagrams it sent before.                                   *)
NumberedInv ==
    /\ \A i, j \in 1..Len(arrivals) :
          i < j /\ arrivals[i].from = arrivals[j].from
            => arrivals[i].seq_number < arrivals[j].seq_number
    /\ \A c \in Clients, k \in 1..Len(arrivals) :
          arrivals[k].from = c => arrivals[k].seq_number < SentBy(c)

(* Every reply answers a datagram that is done with, and the replies to one *)
(* client are in the order of its numbers.                                  *)
RepliesInv ==
    /\ \A i \in 1..Len(replies) : \E k \in 1..Finished : Encloses(replies[i], arrivals[k])
    /\ \A i, j \in 1..Len(replies) :
          i < j /\ replies[i].to = replies[j].to => replies[i].seq_number < replies[j].seq_number

(* What a new datagram does to the numbers of its client and of the others. *)
LEMMA ArriveCounts ==
    ASSUME TypeOK, NEW c \in Clients, NEW n \in Lengths, NEW t \in ClientTimes,
           NEW s \in KernelStamps, Arrive(c, SentBy(c), n, t, s)
    PROVE  /\ SentBy(c) \in Nat
           /\ arrivals'[Len(arrivals) + 1].from = c
           /\ arrivals'[Len(arrivals) + 1].seq_number = SentBy(c)
           /\ SentBy(c)' = SentBy(c) + 1
           /\ \A e \in Clients \ {c} : SentBy(e)' = SentBy(e)
<1> DEFINE Of(e) == {k \in 1..Len(arrivals) : arrivals[k].from = e}
           d == [from |-> c, seq_number |-> SentBy(c), length |-> n, timestamp |-> t,
                 arrived |-> clock, stamped |-> s]
           l == Len(arrivals) + 1
<1>1. IsFiniteSet(1..Len(arrivals)) /\ Len(arrivals) \in Nat
  BY FS_Interval DEF TypeOK
<1>2. \A e : IsFiniteSet(Of(e)) /\ l \notin Of(e)
  BY <1>1, FS_Subset
<1>3. \A e : SentBy(e) = Cardinality(Of(e)) /\ SentBy(e) \in Nat
  BY <1>2, FS_CardinalityType DEF SentBy
<1>4. d \in Datagram
  BY <1>3, SwitchesAssumption, TimesAssumption DEF TypeOK, Datagram
<1>5. arrivals' = Append(arrivals, d)
  BY DEF Arrive
<1>6. d.from = c /\ d.seq_number = SentBy(c)
  OBVIOUS
<1> HIDE DEF d
<1>7. Len(arrivals') = l /\ arrivals'[l] = d /\ \A k \in 1..Len(arrivals) : arrivals'[k] = arrivals[k]
  BY <1>4, <1>5 DEF TypeOK
<1>8. Of(c)' = Of(c) \cup {l} /\ \A e \in Clients \ {c} : Of(e)' = Of(e)
  <2>1. \A k \in 1..Len(arrivals') : k = l \/ k \in 1..Len(arrivals)
    BY <1>1, <1>7
  <2>2. \A k \in 1..Len(arrivals) : k \in 1..Len(arrivals')
    BY <1>1, <1>7
  <2>3. l \in 1..Len(arrivals')
    BY <1>1, <1>7
  <2> QED BY <1>6, <1>7, <2>1, <2>2, <2>3
<1>9. \A e : SentBy(e)' = Cardinality(Of(e)')
  BY DEF SentBy
<1>10. Cardinality(Of(c) \cup {l}) = Cardinality(Of(c)) + 1
  <2> HIDE DEF Of, l
  <2> QED BY <1>2, FS_AddElement
<1> QED BY <1>3, <1>6, <1>7, <1>8, <1>9, <1>10

(* Every step keeps the datagrams numbered.                                 *)
LEMMA NumberedStep == TypeOK /\ NumberedInv /\ [Next]_vars => NumberedInv'
<1> SUFFICES ASSUME TypeOK, NumberedInv, [Next]_vars PROVE NumberedInv'
  OBVIOUS
<1>1. CASE UNCHANGED arrivals
  BY <1>1 DEF NumberedInv, SentBy
<1>2. ASSUME NEW c \in Clients, NEW n \in Lengths, NEW t \in ClientTimes,
             NEW s \in KernelStamps, Arrive(c, SentBy(c), n, t, s)
      PROVE  NumberedInv'
  <2>1. /\ Len(arrivals) \in Nat
        /\ \A k \in 1..Len(arrivals) : arrivals[k].from \in Clients /\ arrivals[k].seq_number \in Nat
    <3>1. arrivals \in Seq(Datagram)
      BY DEF TypeOK
    <3>2. Len(arrivals) \in Nat /\ \A k \in 1..Len(arrivals) : arrivals[k] \in Datagram
      BY <3>1
    <3>3. \A d \in Datagram : d.from \in Clients /\ d.seq_number \in Nat
      BY DEF Datagram
    <3> QED BY <3>2, <3>3
  <2>2. /\ Len(arrivals') = Len(arrivals) + 1
        /\ \A k \in 1..Len(arrivals) : arrivals'[k] = arrivals[k]
    BY <1>2, ArriveKeeps
  <2>3. \A k \in 1..Len(arrivals') : k = Len(arrivals) + 1 \/ k \in 1..Len(arrivals)
    BY <2>1, <2>2
  <2>4. /\ SentBy(c) \in Nat
        /\ arrivals'[Len(arrivals) + 1].from = c
        /\ arrivals'[Len(arrivals) + 1].seq_number = SentBy(c)
        /\ SentBy(c)' = SentBy(c) + 1
        /\ \A e \in Clients \ {c} : SentBy(e)' = SentBy(e)
    BY <1>2, ArriveCounts
  <2>5. \A e \in Clients, k \in 1..Len(arrivals) :
           arrivals[k].from = e => arrivals[k].seq_number < SentBy(e)
    BY DEF NumberedInv
  <2>6. \A e \in Clients, k \in 1..Len(arrivals') :
           arrivals'[k].from = e => arrivals'[k].seq_number < SentBy(e)'
    <3>1. \A e \in Clients : SentBy(e)' = IF e = c THEN SentBy(e) + 1 ELSE SentBy(e)
      BY <2>4
    <3>2. ASSUME NEW e \in Clients PROVE SentBy(e) \in Nat
      <4>1. IsFiniteSet(1..Len(arrivals))
        BY <2>1, FS_Interval
      <4> QED BY <4>1, FS_Subset, FS_CardinalityType DEF SentBy
    <3> QED BY <2>1, <2>2, <2>3, <2>4, <2>5, <3>1, <3>2
  <2>7. \A i, j \in 1..Len(arrivals') :
          i < j /\ arrivals'[i].from = arrivals'[j].from
            => arrivals'[i].seq_number < arrivals'[j].seq_number
    <3> SUFFICES ASSUME NEW i \in 1..Len(arrivals'), NEW j \in 1..Len(arrivals'), i < j,
                        arrivals'[i].from = arrivals'[j].from
                 PROVE  arrivals'[i].seq_number < arrivals'[j].seq_number
      OBVIOUS
    <3>1. i \in 1..Len(arrivals)
      BY <2>1, <2>2
    <3>2. CASE j = Len(arrivals) + 1
      BY <2>2, <2>4, <2>5, <3>1, <3>2
    <3>3. CASE j \in 1..Len(arrivals)
      BY <2>2, <3>1, <3>3 DEF NumberedInv
    <3> QED BY <2>3, <3>2, <3>3
  <2> QED BY <2>6, <2>7 DEF NumberedInv
<1> QED
  BY <1>1, <1>2 DEF Next, Listen, Proceed, StartOk, StartFails, Count, Receive, ReceiveTimeout,
     ReceiveError, StampReceive, StampSend, SendReply, SendFails, PortThrows, Tick, Terminating,
     vars

(* A step that sends nothing and at most gives up a datagram or adds one.   *)
LEMMA RepliesFrame ==
    ASSUME TypeOK, RepliesInv, replies' = replies, dropped' \in Nat, dropped' >= dropped,
           Finished <= Len(arrivals),
           \A k \in 1..Len(arrivals) : arrivals'[k] = arrivals[k]
    PROVE  RepliesInv'
<1>1. Finished \in Nat /\ Finished' \in Nat /\ Finished' >= Finished /\ Len(arrivals) \in Nat
  BY DEF Finished, TypeOK
<1>2. \A k \in 1..Finished : k \in 1..Finished' /\ k \in 1..Len(arrivals)
  BY <1>1
<1>3. ASSUME NEW i \in 1..Len(replies) PROVE \E k \in 1..Finished' : Encloses(replies[i], arrivals'[k])
  <2>1. PICK k \in 1..Finished : Encloses(replies[i], arrivals[k])
    BY DEF RepliesInv
  <2> QED BY <1>2, <2>1
<1> QED BY <1>3 DEF RepliesInv, Encloses, Answers, ReceivedAt

(* Every step keeps the replies in order.                                   *)
LEMMA RepliesStep ==
    ASSUME TypeOK, Conservation, StampInv, NumberedInv, RepliesInv, [Next]_vars
    PROVE  RepliesInv'
<1>1. Finished <= Len(arrivals) /\ Len(replies) \in Nat /\ Len(arrivals) \in Nat /\ dropped \in Nat
  BY DEF Finished, Conservation, Handling, TypeOK
<1>2. CASE replies' = replies /\ dropped' \in {dropped, dropped + 1} /\ arrivals' = arrivals
  BY <1>1, <1>2, RepliesFrame
<1>3. ASSUME NEW c \in Clients, NEW n \in Lengths, NEW t \in ClientTimes,
             NEW s \in KernelStamps, Arrive(c, SentBy(c), n, t, s)
      PROVE  RepliesInv'
  BY <1>1, <1>3, ArriveKeeps, RepliesFrame DEF Arrive
<1>4. CASE SendReply
  <2> DEFINE r == Reflection(Current)
             l == Len(replies) + 1
  <2>1. /\ UNCHANGED <<arrivals, dropped>> /\ pc = "send" /\ consumed # 0
        /\ replies' = Append(replies, r)
    BY <1>4 DEF SendReply, TypeOK
  <2>2. Current \in Datagram /\ r \in Reply /\ replies \in Seq(Reply)
    BY <2>1, ReflectionTyped DEF TypeOK, Current
  <2>3. /\ consumed = Finished + 1 /\ Finished + 1 <= Len(arrivals) /\ Finished \in Nat
        /\ Current = arrivals[Finished + 1]
    BY <2>1 DEF TypeOK, Conservation, Handling, Current, Finished
  <2>4. Encloses(r, Current)
    BY <2>1 DEF StampInv, Encloses, Answers, Reflection
  <2>5. r.to = Current.from /\ r.seq_number = Current.seq_number
    BY DEF Reflection
  <2> HIDE DEF r
  <2>6. /\ Len(replies') = l /\ replies'[l] = r
        /\ \A i \in 1..Len(replies) : replies'[i] = replies[i]
    BY <2>1, <2>2
  <2>7. \A i \in 1..Len(replies') : i = l \/ i \in 1..Len(replies)
    BY <1>1, <2>6
  <2>8. Finished' = Finished + 1
    BY <1>1, <2>1, <2>6 DEF Finished
  <2>9. \A i \in 1..Len(replies) : \E k \in 1..Finished : Encloses(replies[i], arrivals[k])
    BY DEF RepliesInv
  <2>10. \A i \in 1..Len(replies') : \E k \in 1..Finished' : Encloses(replies'[i], arrivals'[k])
    <3> SUFFICES ASSUME NEW i \in 1..Len(replies')
                 PROVE  \E k \in 1..Finished + 1 : Encloses(replies'[i], arrivals[k])
      BY <2>1, <2>8
    <3>1. CASE i = l
      BY <2>3, <2>4, <2>6, <3>1
    <3>2. CASE i \in 1..Len(replies)
      <4>1. PICK k \in 1..Finished : Encloses(replies[i], arrivals[k])
        BY <2>9, <3>2
      <4>2. k \in 1..Finished + 1
        BY <2>3
      <4> QED BY <2>6, <3>2, <4>1, <4>2
    <3> QED BY <2>7, <3>1, <3>2
  <2>11. \A i \in 1..Len(replies) : replies[i].to = r.to => replies[i].seq_number < r.seq_number
    <3> SUFFICES ASSUME NEW i \in 1..Len(replies), replies[i].to = r.to
                 PROVE  replies[i].seq_number < r.seq_number
      OBVIOUS
    <3>1. PICK k \in 1..Finished : Encloses(replies[i], arrivals[k])
      BY <2>9
    <3>2. k \in 1..Len(arrivals) /\ Finished + 1 \in 1..Len(arrivals) /\ k < Finished + 1
      BY <1>1, <2>3
    <3> QED BY <2>3, <2>5, <3>1, <3>2 DEF NumberedInv, Encloses, Answers
  <2>12. \A i, j \in 1..Len(replies') :
           i < j /\ replies'[i].to = replies'[j].to => replies'[i].seq_number < replies'[j].seq_number
    <3> SUFFICES ASSUME NEW i \in 1..Len(replies'), NEW j \in 1..Len(replies'), i < j,
                        replies'[i].to = replies'[j].to
                 PROVE  replies'[i].seq_number < replies'[j].seq_number
      OBVIOUS
    <3>1. i \in 1..Len(replies)
      BY <1>1, <2>6
    <3>2. CASE j = l
      BY <2>6, <2>11, <3>1, <3>2
    <3>3. CASE j \in 1..Len(replies)
      BY <2>6, <3>1, <3>3 DEF RepliesInv
    <3> QED BY <2>7, <3>2, <3>3
  <2> QED BY <2>10, <2>12 DEF RepliesInv
<1> QED
  BY <1>2, <1>3, <1>4 DEF Next, Listen, Proceed, StartOk, StartFails, Count, Receive,
     ReceiveTimeout, ReceiveError, StampReceive, StampSend, SendFails, PortThrows, Tick,
     Terminating, vars

(* The induction for the replies.                                           *)
OrderInv == TypeOK /\ Conservation /\ StampInv /\ NumberedInv /\ RepliesInv

(* It holds in every execution.                                             *)
LEMMA OrderInductive == Spec => []OrderInv
<1>1. Init => OrderInv
  BY ServerInit
     DEF OrderInv, ServerInv, Init, StampInv, NumberedInv, RepliesInv
<1>2. OrderInv /\ [Next]_vars => OrderInv'
  BY TypeStep, ConservationStep, StampStep, NumberedStep, RepliesStep DEF OrderInv
<1> QED BY <1>1, <1>2, PTL DEF Spec

(* A datagram that is done with was received.                               *)
LEMMA FinishedConsumed == OrderInv => 1..Finished \subseteq 1..consumed
BY DEF OrderInv, Finished, Conservation, Handling, TypeOK

(* With any number of clients interleaved in any way, each gets its replies *)
(* in the order of its packets, at most one for each: see ReflectsInOrder.  *)
THEOREM RepliesInOrder == Spec => []ReflectsInOrder
<1>1. OrderInv => ReflectsInOrder
  <2> SUFFICES ASSUME OrderInv PROVE ReflectsInOrder
    OBVIOUS
  <2>1. ASSUME NEW i \in 1..Len(replies) PROVE \E k \in 1..consumed : Answers(replies[i], arrivals[k])
    <3>1. PICK k \in 1..Finished : Encloses(replies[i], arrivals[k])
      BY DEF OrderInv, RepliesInv
    <3> QED BY <3>1, FinishedConsumed DEF Encloses
  <2> QED BY <2>1 DEF OrderInv, RepliesInv, ReflectsInOrder
<1> QED BY <1>1, OrderInductive, PTL

(* The two times of every reply enclose the datagram's stay in the server,  *)
(* the wait in the socket's queue included: see TimesEncloseStay.           *)
THEOREM StayEnclosed == Spec => []TimesEncloseStay
<1>1. OrderInv => TimesEncloseStay
  <2> SUFFICES ASSUME OrderInv, NEW i \in 1..Len(replies)
               PROVE  /\ replies[i].receive_timestamp <= replies[i].timestamp
                      /\ \E k \in 1..consumed :
                            /\ Answers(replies[i], arrivals[k])
                            /\ IF arrivals[k].stamped
                               THEN replies[i].receive_timestamp = arrivals[k].arrived
                               ELSE replies[i].receive_timestamp >= arrivals[k].arrived
    BY DEF TimesEncloseStay
  <2>1. PICK k \in 1..Finished : Encloses(replies[i], arrivals[k])
    BY DEF OrderInv, RepliesInv
  <2>2. k \in 1..consumed
    BY FinishedConsumed
  <2> QED BY <2>1, <2>2 DEF Encloses, ReceivedAt
<1> QED BY <1>1, OrderInductive, PTL
=============================================================================
