--------------------------- MODULE SessionProofs ---------------------------
(***************************************************************************)
(* What the times of a session are worth, for every difference of the two  *)
(* clocks, every way the client's clock is set, every timeout and any      *)
(* number of packets.                                                      *)
(***************************************************************************)
EXTENDS Session, ServerProofs, TimeArithmeticProofs

(* Neither clock has reached the end of the era that a timestamp shows (the *)
(* year 2106): the seconds since 1970 are below 2^32.                       *)
ClocksFit == clock \in Era /\ client_clock \in Era

ReadingType == [shows : Nat, at : Nat, steps : Nat]
SocketType == [reply : Nat, kernel : ReadingType]
RowType == [id : Nat, times : Times, received : ReadingType]
LostType == [id : Nat, closed : ReadingType]

(* Every variable has its type.                                             *)
SessionTyped ==
    /\ TypeOK
    /\ client_clock \in Nat \ {0} /\ steps \in Nat
    /\ sent \in Seq(ReadingType)
    /\ requests \subseteq 0..Len(sent) - 1
    /\ socket \in Seq(SocketType)
    /\ last_received \in ReadingType
    /\ rows \in Seq(RowType) /\ lost \in Seq(LostType)

(* R is a reading of the client's clock that was taken at R.at, in the past:*)
(* as long as the clock is not set again it has advanced since as much as   *)
(* the real time, and R agrees with what was read for every packet sent     *)
(* between the same two settings of the clock.  The state it is about is    *)
(* given by the packets s, the time now and what the clock shows after n    *)
(* settings.                                                                *)
Agrees(R, S) == R.steps = S.steps => R.shows - R.at = S.shows - S.at
Taken(R, s, now, shows, n) ==
    /\ R.shows \in Era /\ R.shows # 0 /\ R.at \in 1..now /\ R.steps \in 0..n
    /\ R.steps = n => R.shows - R.at = shows - now
    /\ \A k \in 1..Len(s) : Agrees(R, s[k])

SentInv ==
    /\ \A k \in 1..Len(sent) : Taken(sent[k], sent, clock, client_clock, steps)
    /\ \A j, k \in 1..Len(sent) : j <= k => sent[j].at <= sent[k].at

(* Number seq and time t are those of a packet sent no later than time at.  *)
Sent(seq, t, at, s) == seq + 1 \in 1..Len(s) /\ t = s[seq + 1].shows /\ s[seq + 1].at <= at

DatagramOk(d, s) == Sent(d.seq_number, d.timestamp, d.arrived, s)
DatagramInv == \A k \in 1..Len(arrivals) : DatagramOk(arrivals[k], sent)

ReplyOk(r, s, now) ==
    /\ Sent(r.seq_number, r.sender_timestamp, r.receive_timestamp, s)
    /\ r.receive_timestamp <= r.timestamp /\ r.timestamp <= now
ReplyInv == \A i \in 1..Len(replies) : ReplyOk(replies[i], sent, clock)

SocketInv ==
    \A i \in 1..Len(socket) :
        /\ socket[i].reply \in 1..Len(replies)
        /\ socket[i].kernel.shows # 0 =>
              /\ Taken(socket[i].kernel, sent, clock, client_clock, steps)
              /\ replies[socket[i].reply].timestamp <= socket[i].kernel.at

(* R goes back to a reading x of the clock, taken after the packet that was *)
(* sent at S; if the clock was not set in between it shows the time since.  *)
ReadAfter(R, S, x, now) ==
    /\ R.shows \in AsKept(x) /\ S.at <= R.at /\ R.at <= now
    /\ R.steps = S.steps => x - R.at = S.shows - S.at

RowOk(row, s, now) ==
    /\ row.id + 1 \in 1..Len(s)
    /\ \E x \in Era, sr, ss \in Nat :
          /\ ReadAfter(row.received, s[row.id + 1], x, now)
          /\ s[row.id + 1].at <= sr /\ sr <= ss /\ ss <= row.received.at
          /\ row.times = [client_send |-> Wire(s[row.id + 1].shows),
                          server_receive |-> Wire(sr), server_send |-> Wire(ss),
                          client_receive |-> row.received.shows]
RowInv == \A i \in 1..Len(rows) : RowOk(rows[i], sent, clock)

LastOk(R, s, now) ==
    R.at # 0 => Len(s) >= 1 /\ \E x \in Era : ReadAfter(R, s[1], x, now)
LastInv == LastOk(last_received, sent, clock)

LostOk(e, s) ==
    /\ e.id + 1 \in 1..Len(s)
    /\ e.closed.steps = s[e.id + 1].steps =>
          e.closed.at - s[e.id + 1].at > ClientTimeout * Nanoseconds
LostInv == \A i \in 1..Len(lost) : LostOk(lost[i], sent)

(* The inductive invariant.                                                 *)
SessionInv ==
    /\ SessionTyped /\ StampInv /\ SentInv /\ DatagramInv /\ ReplyInv /\ SocketInv
    /\ RowInv /\ LastInv /\ LostInv

-----------------------------------------------------------------------------
(* The fields of readings, datagrams and replies.                           *)
LEMMA Fields ==
    /\ \A R \in ReadingType : R.shows \in Nat /\ R.at \in Nat /\ R.steps \in Nat
    /\ \A d \in Datagram : d.seq_number \in Nat /\ d.timestamp \in Nat /\ d.arrived \in Nat
    /\ \A r \in Reply : /\ r.seq_number \in Nat /\ r.sender_timestamp \in Nat
                        /\ r.receive_timestamp \in Nat /\ r.timestamp \in Nat
BY DEF ReadingType, Datagram, Reply

(* Appending to a sequence.                                                 *)
LEMMA Appended ==
    ASSUME NEW S, NEW s \in Seq(S), NEW e \in S
    PROVE  /\ Append(s, e) \in Seq(S) /\ Len(s) \in Nat
           /\ Len(Append(s, e)) = Len(s) + 1 /\ Append(s, e)[Len(s) + 1] = e
           /\ \A i \in 1..Len(s) : Append(s, e)[i] = s[i] /\ s[i] \in S
           /\ \A i \in 1..Len(s) + 1 : i \in 1..Len(s) \/ i = Len(s) + 1
OBVIOUS

(* What no step of the session undoes: packets stay sent, time passes.      *)
Kept ==
    /\ Len(sent') \in Nat /\ Len(sent) <= Len(sent')
    /\ \A k \in 1..Len(sent) : sent'[k] = sent[k] /\ k \in 1..Len(sent')
    /\ clock' \in Nat /\ clock <= clock'

(* The client's current reading is a reading.                               *)
LEMMA ReadingTaken ==
    ASSUME SessionInv, ClocksFit
    PROVE  Reading \in ReadingType /\ Taken(Reading, sent, clock, client_clock, steps)
<1>1. Reading.shows = client_clock /\ Reading.at = clock /\ Reading.steps = steps
  BY DEF Reading
<1>2. client_clock \in Nat \ {0} /\ steps \in Nat /\ clock \in Nat \ {0}
  BY DEF SessionInv, SessionTyped, TypeOK
<1>3. Reading \in ReadingType
  BY <1>2 DEF Reading, ReadingType
<1>4. \A k \in 1..Len(sent) : Agrees(Reading, sent[k])
  BY <1>1 DEF SessionInv, SentInv, Taken, Agrees
<1> QED BY <1>1, <1>2, <1>3, <1>4 DEF Taken, ClocksFit

(* How a step treats the clocks and the packets sent.                       *)
LEMMA ClockCases ==
    ASSUME SessionInv, [SessionNext]_sessionVars
    PROVE  \/ UNCHANGED <<sent, clock, client_clock, steps>>
           \/ Send
           \/ Advance
           \/ \E d \in ClockSteps : SetClock(d)
<1>1. ServerStep => UNCHANGED <<sent, clock, client_clock, steps>>
  BY DEF ServerStep, clientVars, Listen, Proceed, StartOk, StartFails, Count, Receive,
     ReceiveTimeout, ReceiveError, StampReceive, StampSend, SendReply, SendFails, PortThrows
<1>2. \A k, c, n, s : DeliverRequest(k, c, n, s) => UNCHANGED <<sent, clock, client_clock, steps>>
  BY DEF DeliverRequest, Arrive
<1>3. \A i, s : DeliverReply(i, s) => UNCHANGED <<sent, clock, client_clock, steps>>
  BY DEF DeliverReply, serverVars, vars
<1>4. Handle \/ Expire \/ Over \/ UNCHANGED sessionVars
        => UNCHANGED <<sent, clock, client_clock, steps>>
  BY DEF Handle, Expire, Over, sessionVars, clientVars, serverVars, vars
<1> QED BY <1>1, <1>2, <1>3, <1>4 DEF SessionNext

LEMMA KeptStep ==
    ASSUME SessionInv, ClocksFit, [SessionNext]_sessionVars
    PROVE  Kept
<1>1. sent \in Seq(ReadingType) /\ Len(sent) \in Nat /\ clock \in Nat
  BY DEF SessionInv, SessionTyped, TypeOK
<1>2. CASE Send
  <2>1. sent' = Append(sent, Reading) /\ clock' = clock
    BY <1>2 DEF Send, serverVars, vars
  <2>2. Len(sent') = Len(sent) + 1 /\ \A k \in 1..Len(sent) : sent'[k] = sent[k]
    BY <1>1, <2>1, ReadingTaken, Appended
  <2> QED BY <1>1, <2>1, <2>2 DEF Kept
<1>3. CASE Advance
  BY <1>1, <1>3 DEF Advance, Kept
<1>4. CASE \E d \in ClockSteps : SetClock(d)
  BY <1>1, <1>4 DEF SetClock, Kept, serverVars, vars
<1>5. CASE UNCHANGED <<sent, clock, client_clock, steps>>
  BY <1>1, <1>5 DEF Kept
<1> QED BY <1>2, <1>3, <1>4, <1>5, ClockCases

(* A reading stays one.                                                     *)
LEMMA TakenKept ==
    ASSUME SessionInv, ClocksFit, [SessionNext]_sessionVars,
           NEW R \in ReadingType, Taken(R, sent, clock, client_clock, steps)
    PROVE  Taken(R, sent', clock', client_clock', steps')
<1>1. /\ client_clock \in Nat \ {0} /\ steps \in Nat /\ clock \in Nat \ {0}
      /\ sent \in Seq(ReadingType) /\ Len(sent) \in Nat
      /\ R.at \in Nat /\ R.steps \in Nat /\ R.shows \in Nat
  BY DEF SessionInv, SessionTyped, TypeOK, ReadingType
<1>2. CASE UNCHANGED <<sent, clock, client_clock, steps>>
  BY <1>2
<1>3. CASE Send
  <2>1. sent' = Append(sent, Reading) /\ UNCHANGED <<clock, client_clock, steps>>
    BY <1>3 DEF Send, serverVars, vars
  <2>2. /\ Len(sent') = Len(sent) + 1 /\ sent'[Len(sent) + 1] = Reading
        /\ \A k \in 1..Len(sent) : sent'[k] = sent[k]
        /\ \A k \in 1..Len(sent) + 1 : k \in 1..Len(sent) \/ k = Len(sent) + 1
    BY <1>1, <2>1, ReadingTaken, Appended
  <2>3. Agrees(R, Reading)
    BY DEF Agrees, Reading, Taken
  <2>4. ASSUME NEW k \in 1..Len(sent') PROVE Agrees(R, sent'[k])
    BY <2>2, <2>3, <2>4 DEF Taken
  <2> QED BY <2>1, <2>4 DEF Taken
<1>4. CASE Advance
  <2>1. clock' = clock + 1 /\ client_clock' = client_clock + 1 /\ UNCHANGED <<sent, steps>>
    BY <1>4 DEF Advance
  <2> QED BY <1>1, <2>1 DEF Taken
<1>5. CASE \E d \in ClockSteps : SetClock(d)
  <2>1. steps' = steps + 1 /\ UNCHANGED <<sent, clock>>
    BY <1>5 DEF SetClock, serverVars, vars
  <2> QED BY <1>1, <2>1 DEF Taken
<1> QED BY <1>2, <1>3, <1>4, <1>5, ClockCases

(* Every step keeps what is known of the packets sent.                      *)
LEMMA SentStep ==
    ASSUME SessionInv, ClocksFit, [SessionNext]_sessionVars
    PROVE  SentInv'
<1>1. /\ client_clock \in Nat \ {0} /\ steps \in Nat /\ clock \in Nat \ {0}
      /\ sent \in Seq(ReadingType) /\ Len(sent) \in Nat
  BY DEF SessionInv, SessionTyped, TypeOK
<1>2. ASSUME NEW k \in 1..Len(sent)
      PROVE  /\ sent[k] \in ReadingType /\ Taken(sent[k], sent, clock, client_clock, steps)
             /\ sent[k].at \in Nat /\ sent[k].at <= clock
  <2>1. sent[k] \in ReadingType /\ Taken(sent[k], sent, clock, client_clock, steps)
    BY <1>1 DEF SessionInv, SentInv
  <2>2. sent[k].at \in 1..clock
    BY <2>1 DEF Taken
  <2> QED BY <1>1, <2>1, <2>2
<1>3. CASE Send
  <2>1. sent' = Append(sent, Reading) /\ UNCHANGED <<clock, client_clock, steps>>
    BY <1>3 DEF Send, serverVars, vars
  <2>2. /\ Len(sent') = Len(sent) + 1 /\ sent'[Len(sent) + 1] = Reading
        /\ \A k \in 1..Len(sent) : sent'[k] = sent[k]
        /\ \A k \in 1..Len(sent) + 1 : k \in 1..Len(sent) \/ k = Len(sent) + 1
    BY <1>1, <2>1, ReadingTaken, Appended
  <2>3. /\ Reading \in ReadingType /\ Reading.at = clock
        /\ Taken(Reading, sent, clock, client_clock, steps)
    BY ReadingTaken DEF Reading
  <2>4. ASSUME NEW k \in 1..Len(sent') PROVE Taken(sent'[k], sent', clock', client_clock', steps')
    <3>1. sent'[k] \in ReadingType /\ Taken(sent'[k], sent, clock, client_clock, steps)
      BY <1>2, <2>2, <2>3
    <3> QED BY <3>1, TakenKept
  <2>5. ASSUME NEW j \in 1..Len(sent'), NEW k \in 1..Len(sent'), j <= k
        PROVE  sent'[j].at <= sent'[k].at
    <3>1. CASE k \in 1..Len(sent)
      <4>1. j \in 1..Len(sent)
        BY <1>1, <2>2, <2>5, <3>1
      <4> QED BY <2>2, <2>5, <3>1, <4>1 DEF SessionInv, SentInv
    <3>2. CASE k = Len(sent) + 1
      BY <1>1, <1>2, <2>2, <2>3, <3>2
    <3> QED BY <2>2, <3>1, <3>2
  <2> QED BY <2>4, <2>5 DEF SentInv
<1>4. CASE sent' = sent
  <2>1. ASSUME NEW k \in 1..Len(sent) PROVE Taken(sent[k], sent', clock', client_clock', steps')
    BY <1>2, TakenKept
  <2> QED BY <1>4, <2>1 DEF SessionInv, SentInv
<1> QED BY <1>3, <1>4, ClockCases DEF Advance, SetClock

-----------------------------------------------------------------------------
(* What was known of a packet, a datagram, a reply, a row, the last reply   *)
(* and a loss stays known.                                                  *)
LEMMA KnownKept ==
    ASSUME SessionInv, Kept
    PROVE  /\ \A seq, t, at : Sent(seq, t, at, sent) => Sent(seq, t, at, sent')
           /\ \A d : DatagramOk(d, sent) => DatagramOk(d, sent')
           /\ \A r \in Reply : ReplyOk(r, sent, clock) => ReplyOk(r, sent', clock')
           /\ \A e : LostOk(e, sent) => LostOk(e, sent')
<1>1. \A k \in 1..Len(sent) : sent'[k] = sent[k] /\ k \in 1..Len(sent')
  BY DEF Kept
<1>2. \A seq, t, at : Sent(seq, t, at, sent) => Sent(seq, t, at, sent')
  BY <1>1, Zenon DEF Sent
<1>3. \A r \in Reply : r.timestamp <= clock => r.timestamp <= clock'
  BY DEF Kept, SessionInv, SessionTyped, TypeOK, Reply
<1>4. \A e : LostOk(e, sent) => LostOk(e, sent')
  BY <1>1, Zenon DEF LostOk
<1> QED BY <1>2, <1>3, <1>4 DEF DatagramOk, ReplyOk

LEMMA RowKept ==
    ASSUME SessionInv, Kept, NEW row \in RowType, RowOk(row, sent, clock)
    PROVE  RowOk(row, sent', clock')
<1>1. row.id + 1 \in 1..Len(sent') /\ sent'[row.id + 1] = sent[row.id + 1]
  BY DEF Kept, RowOk
<1>2. row.received.at <= clock => row.received.at <= clock'
  <2>1. row.received \in ReadingType
    BY DEF RowType
  <2>2. row.received.at \in Nat /\ clock \in Nat
    BY <2>1 DEF SessionInv, SessionTyped, TypeOK, ReadingType
  <2> QED BY <2>2 DEF Kept
<1> QED BY <1>1, <1>2 DEF RowOk, ReadAfter

LEMMA LastKept ==
    ASSUME SessionInv, Kept, NEW R \in ReadingType, LastOk(R, sent, clock)
    PROVE  LastOk(R, sent', clock')
<1>1. R.at <= clock => R.at <= clock'
  BY DEF Kept, SessionInv, SessionTyped, TypeOK, ReadingType
<1>2. Len(sent) >= 1 => 1 \in 1..Len(sent) /\ Len(sent') >= 1
  BY DEF Kept, SessionInv, SessionTyped
<1> QED BY <1>1, <1>2 DEF LastOk, ReadAfter, Kept

-----------------------------------------------------------------------------
(* The server's part                                                        *)

(* A request arrives: the datagram it becomes.                              *)
LEMMA RequestArrives ==
    ASSUME SessionInv, NEW k \in requests, NEW c \in Clients, NEW n \in Lengths,
           NEW st \in KernelStamps, DeliverRequest(k, c, n, st)
    PROVE  \E d \in Datagram :
              /\ d.seq_number = k /\ d.timestamp = sent[k + 1].shows /\ d.arrived = clock
              /\ arrivals' = Append(arrivals, d)
              /\ k + 1 \in 1..Len(sent) /\ sent[k + 1] \in ReadingType
<1> DEFINE d == [from |-> c, seq_number |-> k, length |-> n, timestamp |-> sent[k + 1].shows,
                 arrived |-> clock, stamped |-> st]
<1>1. sent \in Seq(ReadingType) /\ Len(sent) \in Nat /\ k \in 0..Len(sent) - 1 /\ clock \in Nat
  BY DEF SessionInv, SessionTyped, TypeOK
<1>2. k \in Nat /\ k + 1 \in 1..Len(sent)
  BY <1>1
<1>3. sent[k + 1] \in ReadingType /\ sent[k + 1].shows \in Nat
  BY <1>1, <1>2, Fields
<1>4. d \in Datagram
  BY <1>1, <1>2, <1>3, SwitchesAssumption DEF Datagram
<1>5. arrivals' = Append(arrivals, d)
  BY DEF DeliverRequest, Arrive
<1> QED BY <1>2, <1>3, <1>4, <1>5

(* A step of the session is a step of the server, or a datagram arrives, or *)
(* the server sees time pass.                                               *)
LEMMA ServerCases ==
    ASSUME [SessionNext]_sessionVars
    PROVE  \/ [Next]_vars /\ UNCHANGED <<arrivals, clock>>
           \/ \E k \in requests, c \in Clients, n \in Lengths, st \in KernelStamps :
                 DeliverRequest(k, c, n, st)
           \/ Advance
<1>1. ServerStep => Next /\ UNCHANGED <<arrivals, clock>>
  BY DEF ServerStep, Next, Listen, Proceed, StartOk, StartFails, Count, Receive,
     ReceiveTimeout, ReceiveError, StampReceive, StampSend, SendReply, SendFails, PortThrows
<1>2. Send \/ Handle \/ Expire \/ (\E i, st : DeliverReply(i, st)) \/ (\E d : SetClock(d))
        \/ Over \/ UNCHANGED sessionVars => UNCHANGED vars
  BY DEF Send, Handle, Expire, DeliverReply, SetClock, Over, sessionVars, serverVars
<1>3. UNCHANGED vars => [Next]_vars /\ UNCHANGED <<arrivals, clock>>
  BY DEF vars
<1> QED BY <1>1, <1>2, <1>3 DEF SessionNext

(* Every step keeps the server's types.                                     *)
LEMMA ServerTypedStep ==
    ASSUME SessionInv, [SessionNext]_sessionVars
    PROVE  TypeOK'
<1>1. TypeOK
  BY DEF SessionInv, SessionTyped
<1>2. CASE [Next]_vars
  BY <1>1, <1>2, TypeStep
<1>3. ASSUME NEW k \in requests, NEW c \in Clients, NEW n \in Lengths, NEW st \in KernelStamps,
             DeliverRequest(k, c, n, st)
      PROVE  TypeOK'
  <2>1. PICK d \in Datagram : arrivals' = Append(arrivals, d)
    BY <1>3, RequestArrives
  <2>2. arrivals' \in Seq(Datagram) /\ Len(arrivals') = Len(arrivals) + 1
    BY <1>1, <2>1, Appended DEF TypeOK
  <2> QED BY <1>1, <1>3, <2>2 DEF TypeOK, DeliverRequest, Arrive, stampVars
<1>4. CASE Advance
  BY <1>1, <1>4 DEF TypeOK, Advance, stampVars
<1> QED BY <1>2, <1>3, <1>4, ServerCases

(* Every step keeps the meaning of the server's stamps.                     *)
LEMMA SessionStampStep ==
    ASSUME SessionInv, [SessionNext]_sessionVars
    PROVE  StampInv'
<1>1. TypeOK /\ StampInv
  BY DEF SessionInv, SessionTyped
<1>2. CASE [Next]_vars
  BY <1>1, <1>2, StampStep
<1>3. ASSUME NEW k \in requests, NEW c \in Clients, NEW n \in Lengths, NEW st \in KernelStamps,
             DeliverRequest(k, c, n, st)
      PROVE  StampInv'
  <2>1. PICK d \in Datagram : d.arrived = clock /\ arrivals' = Append(arrivals, d)
    BY <1>3, RequestArrives
  <2>2. /\ Len(arrivals') = Len(arrivals) + 1 /\ arrivals'[Len(arrivals) + 1] = d
        /\ \A i \in 1..Len(arrivals) : arrivals'[i] = arrivals[i]
        /\ \A i \in 1..Len(arrivals) + 1 : i \in 1..Len(arrivals) \/ i = Len(arrivals) + 1
    BY <1>1, <2>1, Appended DEF TypeOK
  <2>3. UNCHANGED <<pc, consumed, clock, receive_timestamp, send_timestamp>>
    BY <1>3 DEF DeliverRequest, Arrive, stampVars
  <2>4. \A i \in 1..Len(arrivals') : arrivals'[i].arrived # 0 /\ arrivals'[i].arrived <= clock
    BY <1>1, <2>1, <2>2 DEF StampInv, TypeOK
  <2>5. pc \in {"stamp_send", "send"} => Current' = Current
    BY <1>1, <2>2, <2>3 DEF TypeOK, Current
  <2> QED BY <1>1, <2>3, <2>4, <2>5 DEF StampInv
<1>4. CASE Advance
  <2>1. UNCHANGED <<pc, consumed, arrivals, receive_timestamp, send_timestamp>> /\ clock' = clock + 1
    BY <1>4 DEF Advance, stampVars
  <2>2. \A i \in 1..Len(arrivals) : arrivals[i].arrived \in Nat
    BY <1>1, Fields DEF TypeOK
  <2> QED BY <1>1, <2>1, <2>2 DEF StampInv, TypeOK, Current
<1> QED BY <1>2, <1>3, <1>4, ServerCases

(* Every step keeps what is known of the datagrams.                         *)
LEMMA DatagramStep ==
    ASSUME SessionInv, ClocksFit, [SessionNext]_sessionVars
    PROVE  DatagramInv'
<1>1. TypeOK /\ DatagramInv /\ Kept
  BY KeptStep DEF SessionInv, SessionTyped
<1>2. ASSUME NEW i \in 1..Len(arrivals) PROVE DatagramOk(arrivals[i], sent')
  BY <1>1, KnownKept DEF DatagramInv
<1>3. CASE UNCHANGED arrivals
  BY <1>2, <1>3 DEF DatagramInv
<1>4. ASSUME NEW k \in requests, NEW c \in Clients, NEW n \in Lengths, NEW st \in KernelStamps,
             DeliverRequest(k, c, n, st)
      PROVE  DatagramInv'
  <2>1. PICK d \in Datagram :
              /\ d.seq_number = k /\ d.timestamp = sent[k + 1].shows /\ d.arrived = clock
              /\ arrivals' = Append(arrivals, d)
              /\ k + 1 \in 1..Len(sent) /\ sent[k + 1] \in ReadingType
    BY <1>4, RequestArrives
  <2>2. /\ Len(arrivals') = Len(arrivals) + 1 /\ arrivals'[Len(arrivals) + 1] = d
        /\ \A i \in 1..Len(arrivals) : arrivals'[i] = arrivals[i]
        /\ \A i \in 1..Len(arrivals) + 1 : i \in 1..Len(arrivals) \/ i = Len(arrivals) + 1
    BY <1>1, <2>1, Appended DEF TypeOK
  <2>3. sent[k + 1].at <= clock
    <3>1. sent[k + 1].at \in 1..clock
      BY <2>1 DEF SessionInv, SentInv, Taken
    <3> QED BY <1>1, <3>1 DEF TypeOK
  <2>4. DatagramOk(d, sent)
    BY <2>1, <2>3 DEF DatagramOk, Sent
  <2>5. DatagramOk(d, sent')
    BY <1>1, <2>4, KnownKept
  <2> QED BY <1>2, <2>2, <2>5 DEF DatagramInv
<1> QED BY <1>3, <1>4, ServerCases DEF Advance

(* Every step keeps what is known of the replies.                           *)
LEMMA ReplyStep ==
    ASSUME SessionInv, ClocksFit, [SessionNext]_sessionVars
    PROVE  ReplyInv'
<1>1. TypeOK /\ ReplyInv /\ Kept
  BY KeptStep DEF SessionInv, SessionTyped
<1>2. ASSUME NEW i \in 1..Len(replies) PROVE ReplyOk(replies[i], sent', clock')
  <2>1. replies[i] \in Reply
    BY <1>1 DEF TypeOK
  <2> QED BY <1>1, <2>1, KnownKept DEF ReplyInv
<1>3. CASE UNCHANGED replies
  BY <1>2, <1>3 DEF ReplyInv
<1>4. CASE ServerStep /\ SendReply
  <2> DEFINE r == Reflection(Current)
  <2>1. consumed # 0 /\ consumed \in 1..Len(arrivals) /\ Current \in Datagram
    BY <1>1, <1>4 DEF TypeOK, SendReply, Current
  <2>2. r \in Reply
    BY <1>1, <2>1, ReflectionTyped
  <2>3. replies' = Append(replies, r)
    BY <1>4 DEF SendReply
  <2>4. DatagramOk(Current, sent)
    BY <2>1 DEF SessionInv, DatagramInv, Current
  <2>5. Current.arrived <= receive_timestamp /\ receive_timestamp <= send_timestamp
        /\ send_timestamp <= clock
    BY <1>1, <1>4, <2>1 DEF SessionInv, StampInv, SendReply, ReceivedAt, TypeOK, Datagram
  <2>6. /\ r.seq_number = Current.seq_number /\ r.sender_timestamp = Current.timestamp
        /\ r.receive_timestamp = receive_timestamp /\ r.timestamp = send_timestamp
    BY DEF Reflection
  <2> HIDE DEF r
  <2>7. ReplyOk(r, sent, clock)
    <3> DEFINE S == sent[Current.seq_number + 1]
    <3>1. Current.seq_number + 1 \in 1..Len(sent) /\ S.at <= Current.arrived /\ Current.timestamp = S.shows
      BY <2>4 DEF DatagramOk, Sent
    <3>2. S \in ReadingType /\ S.at \in Nat
      BY <3>1, Fields DEF SessionInv, SessionTyped
    <3>3. Current.arrived \in Nat /\ receive_timestamp \in Nat
      BY <1>1, <2>1, Fields DEF TypeOK
    <3>4. S.at <= receive_timestamp
      BY <2>5, <3>1, <3>2, <3>3
    <3> QED BY <2>5, <2>6, <3>1, <3>4 DEF ReplyOk, Sent
  <2>8. ReplyOk(r, sent', clock')
    BY <1>1, <2>2, <2>7, KnownKept
  <2>9. /\ Len(replies') = Len(replies) + 1 /\ replies'[Len(replies) + 1] = r
        /\ \A i \in 1..Len(replies) : replies'[i] = replies[i]
        /\ \A i \in 1..Len(replies) + 1 : i \in 1..Len(replies) \/ i = Len(replies) + 1
    BY <1>1, <2>2, <2>3, Appended DEF TypeOK
  <2> QED BY <1>2, <2>8, <2>9 DEF ReplyInv
<1>5. UNCHANGED replies \/ (ServerStep /\ SendReply)
  BY DEF SessionNext, Send, Handle, Expire, DeliverRequest, Arrive, DeliverReply, SetClock, Over,
     Advance, sessionVars, serverVars, vars, ServerStep, Listen, Proceed, StartOk, StartFails, Count,
     Receive, ReceiveTimeout, ReceiveError, StampReceive, StampSend, SendFails, PortThrows
<1> QED BY <1>3, <1>4, <1>5

-----------------------------------------------------------------------------
(* The client's part                                                        *)

(* The reply that is handled next, and the time of its receipt.             *)
LEMMA ReceivedAfter ==
    ASSUME SessionInv, ClocksFit, socket # <<>>
    PROVE  LET m == Head(socket)
               r == replies[m.reply]
               R == ReceiveReading(m) IN
           /\ r \in Reply /\ ReplyOk(r, sent, clock)
           /\ R \in ReadingType /\ R.at # 0 /\ R.at <= clock /\ r.timestamp <= R.at
           /\ \E x \in Era : R.shows \in AsKept(x) /\ \A k \in 1..Len(sent) :
                 R.steps = sent[k].steps => x - R.at = sent[k].shows - sent[k].at
<1> DEFINE m == Head(socket)
           r == replies[m.reply]
           R == ReceiveReading(m)
<1>1. m = socket[1] /\ m \in SocketType /\ 1 \in 1..Len(socket)
  BY DEF SessionInv, SessionTyped
<1>2. m.reply \in 1..Len(replies) /\ m.kernel \in ReadingType
  BY <1>1 DEF SessionInv, SocketInv, SocketType
<1>3. r \in Reply /\ ReplyOk(r, sent, clock)
  BY <1>2 DEF SessionInv, SessionTyped, TypeOK, ReplyInv
<1>4. r.timestamp \in Nat /\ r.timestamp <= clock /\ clock \in Nat \ {0}
  BY <1>3, Fields DEF ReplyOk, SessionInv, SessionTyped, TypeOK
<1>5. CASE m.kernel.shows # 0
  <2>1. R = m.kernel
    BY <1>5 DEF ReceiveReading
  <2>2. Taken(R, sent, clock, client_clock, steps) /\ r.timestamp <= R.at
    BY <1>1, <1>5, <2>1 DEF SessionInv, SocketInv
  <2>3. R.at \in 1..clock /\ R.shows \in Era /\ R.shows \in AsKept(R.shows)
    BY <2>2 DEF Taken, AsKept
  <2>4. \A k \in 1..Len(sent) : R.steps = sent[k].steps => R.shows - R.at = sent[k].shows - sent[k].at
    BY <2>2 DEF Taken, Agrees
  <2>5. R.at # 0 /\ R.at <= clock
    BY <1>4, <2>3
  <2> HIDE DEF R, r, m
  <2> QED BY <1>2, <1>3, <2>1, <2>2, <2>3, <2>4, <2>5 DEF R, r, m
<1>6. CASE m.kernel.shows = 0
  <2>1. R = [Reading EXCEPT !.shows = Wire(@)]
    BY <1>6 DEF ReceiveReading
  <2>2. R.shows = Wire(client_clock) /\ R.at = clock /\ R.steps = steps
    BY <2>1 DEF Reading
  <2>3. client_clock \in Era /\ R.shows \in AsKept(client_clock) /\ Wire(client_clock) \in Nat
    BY <2>2, WireLosesOne DEF ClocksFit, AsKept
  <2>4. \A k \in 1..Len(sent) : steps = sent[k].steps => client_clock - clock = sent[k].shows - sent[k].at
    BY DEF SessionInv, SentInv, Taken
  <2>5. R \in ReadingType
    BY <1>4, <2>1, <2>3 DEF Reading, ReadingType, SessionInv, SessionTyped
  <2> HIDE DEF R, r, m
  <2> QED BY <1>3, <1>4, <2>2, <2>3, <2>4, <2>5 DEF R, r, m
<1> QED BY <1>5, <1>6

(* Packet and row of a reply.                                               *)
LEMMA NewRow ==
    ASSUME SessionInv, ClocksFit, socket # <<>>
    PROVE  LET r == replies[Head(socket).reply]
               R == ReceiveReading(Head(socket))
               row == [id |-> r.seq_number, times |-> TimesOf(r, R), received |-> R] IN
           row \in RowType /\ RowOk(row, sent, clock)
<1> DEFINE r == replies[Head(socket).reply]
           R == ReceiveReading(Head(socket))
           row == [id |-> r.seq_number, times |-> TimesOf(r, R), received |-> R]
           S == sent[r.seq_number + 1]
<1>1. /\ r \in Reply /\ ReplyOk(r, sent, clock)
      /\ R \in ReadingType /\ R.at # 0 /\ R.at <= clock /\ r.timestamp <= R.at
  BY ReceivedAfter
<1>2. PICK x \in Era : R.shows \in AsKept(x) /\ \A k \in 1..Len(sent) :
                 R.steps = sent[k].steps => x - R.at = sent[k].shows - sent[k].at
  BY ReceivedAfter
<1> HIDE DEF r, R
<1>3. /\ r.seq_number \in Nat /\ r.receive_timestamp \in Nat /\ r.timestamp \in Nat
      /\ r.sender_timestamp \in Nat /\ R.shows \in Nat /\ R.at \in Nat /\ clock \in Nat
  BY <1>1, Fields DEF SessionInv, SessionTyped, TypeOK
<1>4. /\ r.seq_number + 1 \in 1..Len(sent) /\ r.sender_timestamp = S.shows
      /\ S.at <= r.receive_timestamp /\ r.receive_timestamp <= r.timestamp /\ r.timestamp <= clock
  BY <1>1 DEF ReplyOk, Sent
<1>5. S \in ReadingType /\ S.at \in Nat /\ S.shows \in Era
  BY <1>4, Fields DEF SessionInv, SessionTyped, SentInv, Taken
<1>6. r.receive_timestamp \in Era /\ r.timestamp \in Era
  BY <1>3, <1>4, EraBegins DEF ClocksFit
<1>7. TimesOf(r, R) = [client_send |-> Wire(S.shows), server_receive |-> Wire(r.receive_timestamp),
                       server_send |-> Wire(r.timestamp), client_receive |-> R.shows]
  BY <1>4, Zenon DEF TimesOf
<1>8. Wire(S.shows) \in Nat /\ Wire(r.receive_timestamp) \in Nat /\ Wire(r.timestamp) \in Nat
  BY <1>5, <1>6, WireLosesOne
<1>9. TimesOf(r, R) \in Times
  BY <1>3, <1>7, <1>8 DEF Times
<1>10. row \in RowType
  BY <1>1, <1>3, <1>9 DEF RowType
<1>11. ReadAfter(R, S, x, clock)
  <2>1. S.at <= R.at
    BY <1>1, <1>3, <1>4, <1>5
  <2> QED BY <1>1, <1>2, <1>4, <2>1 DEF ReadAfter
<1>12. row.id = r.seq_number /\ row.times = TimesOf(r, R) /\ row.received = R
  OBVIOUS
<1> HIDE DEF row
<1>13. RowOk(row, sent, clock)
  BY <1>1, <1>3, <1>4, <1>7, <1>11, <1>12 DEF RowOk
<1> QED BY <1>10, <1>13 DEF row, r, R

(* Every step keeps what is known of the rows.                              *)
LEMMA RowStep ==
    ASSUME SessionInv, ClocksFit, [SessionNext]_sessionVars
    PROVE  rows' \in Seq(RowType) /\ RowInv'
<1>1. rows \in Seq(RowType) /\ RowInv /\ Kept
  BY KeptStep DEF SessionInv, SessionTyped
<1>2. ASSUME NEW i \in 1..Len(rows) PROVE RowOk(rows[i], sent', clock')
  BY <1>1, RowKept DEF RowInv
<1>3. CASE rows' = rows
  BY <1>1, <1>2, <1>3 DEF RowInv
<1>4. CASE Handle /\ rows' # rows
  <2> DEFINE r == replies[Head(socket).reply]
             R == ReceiveReading(Head(socket))
             row == [id |-> r.seq_number, times |-> TimesOf(r, R), received |-> R]
  <2>1. rows' = Append(rows, row) /\ socket # <<>>
    BY <1>4 DEF Handle
  <2>2. row \in RowType /\ RowOk(row, sent, clock)
    BY <2>1, NewRow
  <2> HIDE DEF row
  <2>3. RowOk(row, sent', clock')
    BY <1>1, <2>2, RowKept
  <2>4. /\ rows' \in Seq(RowType) /\ Len(rows') = Len(rows) + 1 /\ rows'[Len(rows) + 1] = row
        /\ \A i \in 1..Len(rows) : rows'[i] = rows[i]
        /\ \A i \in 1..Len(rows) + 1 : i \in 1..Len(rows) \/ i = Len(rows) + 1
    BY <1>1, <2>1, <2>2, Appended
  <2> QED BY <1>2, <2>3, <2>4 DEF RowInv
<1>5. rows' = rows \/ Handle
  BY DEF SessionNext, Send, Expire, DeliverRequest, DeliverReply, SetClock, Over, Advance,
     sessionVars, clientVars, ServerStep
<1> QED BY <1>3, <1>4, <1>5

(* Every step keeps what is known of the last reply.                        *)
LEMMA LastStep ==
    ASSUME SessionInv, ClocksFit, [SessionNext]_sessionVars
    PROVE  last_received' \in ReadingType /\ LastInv'
<1>1. last_received \in ReadingType /\ LastInv /\ Kept
  BY KeptStep DEF SessionInv, SessionTyped
<1>2. CASE last_received' = last_received
  BY <1>1, <1>2, LastKept DEF LastInv
<1>3. CASE Handle
  <2> DEFINE r == replies[Head(socket).reply]
             R == ReceiveReading(Head(socket))
             S == sent[r.seq_number + 1]
  <2>1. last_received' = R /\ socket # <<>>
    BY <1>3 DEF Handle
  <2>2. /\ r \in Reply /\ ReplyOk(r, sent, clock)
        /\ R \in ReadingType /\ R.at # 0 /\ R.at <= clock /\ r.timestamp <= R.at
    BY <2>1, ReceivedAfter
  <2>3. PICK x \in Era : R.shows \in AsKept(x) /\ \A k \in 1..Len(sent) :
                 R.steps = sent[k].steps => x - R.at = sent[k].shows - sent[k].at
    BY <2>1, ReceivedAfter
  <2> HIDE DEF r, R
  <2>4. /\ r.seq_number \in Nat /\ r.receive_timestamp \in Nat /\ r.timestamp \in Nat
        /\ R.at \in Nat /\ sent \in Seq(ReadingType) /\ Len(sent) \in Nat
    BY <2>2, Fields DEF SessionInv, SessionTyped
  <2>5. /\ r.seq_number + 1 \in 1..Len(sent)
        /\ S.at <= r.receive_timestamp /\ r.receive_timestamp <= r.timestamp
    BY <2>2 DEF ReplyOk, Sent
  <2>6. 1 \in 1..Len(sent) /\ Len(sent) >= 1 /\ 1 <= r.seq_number + 1
    BY <2>4, <2>5
  <2>7. sent[1].at <= S.at /\ sent[1] \in ReadingType /\ S \in ReadingType
    BY <2>4, <2>5, <2>6 DEF SessionInv, SentInv
  <2>8. sent[1].at \in Nat /\ S.at \in Nat
    BY <2>7, Fields
  <2>9. sent[1].at <= R.at
    BY <2>2, <2>4, <2>5, <2>7, <2>8
  <2>10. LastOk(R, sent, clock)
    BY <2>2, <2>3, <2>6, <2>9 DEF LastOk, ReadAfter
  <2> QED BY <1>1, <2>1, <2>2, <2>10, LastKept DEF LastInv
<1>4. last_received' = last_received \/ Handle
  BY DEF SessionNext, Send, Expire, DeliverRequest, DeliverReply, SetClock, Over, Advance,
     sessionVars, clientVars, ServerStep
<1> QED BY <1>2, <1>3, <1>4

(* Every step keeps what is known of the losses.                            *)
LEMMA LostStep ==
    ASSUME SessionInv, ClocksFit, [SessionNext]_sessionVars
    PROVE  lost' \in Seq(LostType) /\ LostInv'
<1>1. lost \in Seq(LostType) /\ LostInv /\ Kept /\ sent \in Seq(ReadingType) /\ Len(sent) \in Nat
  BY KeptStep DEF SessionInv, SessionTyped
<1>2. ASSUME NEW i \in 1..Len(lost) PROVE LostOk(lost[i], sent')
  BY <1>1, KnownKept DEF LostInv
<1>3. CASE lost' = lost
  BY <1>1, <1>2, <1>3 DEF LostInv
<1>4. CASE Expire
  <2>1. PICK k \in Outstanding :
           Expired(sent[k + 1].shows) /\ lost' = Append(lost, [id |-> k, closed |-> Reading])
    BY <1>4 DEF Expire
  <2> DEFINE e == [id |-> k, closed |-> Reading]
             S == sent[k + 1]
  <2>2. k \in 0..Len(sent) - 1
    BY DEF Outstanding
  <2>3. k \in Nat /\ k + 1 \in 1..Len(sent)
    BY <1>1, <2>2
  <2>4. S \in ReadingType /\ Taken(S, sent, clock, client_clock, steps) /\ Reading \in ReadingType
    BY <1>1, <2>3, ReadingTaken DEF SessionInv, SentInv
  <2>5. S.shows \in Nat /\ S.at \in Nat /\ clock \in Nat /\ client_clock \in Nat
    BY <2>4, Fields DEF SessionInv, SessionTyped, TypeOK
  <2>6. Minus(Wire(client_clock), Wire(S.shows)) > ClientTimeout * Nanoseconds
    BY <2>1 DEF Expired
  <2>7. ASSUME S.steps = steps PROVE clock - S.at > ClientTimeout * Nanoseconds
    <3>1. S.shows - S.at = client_clock - clock /\ S.at \in 1..clock /\ S.shows \in Era
      BY <2>4, <2>7 DEF Taken
    <3>2. S.shows <= client_clock /\ clock - S.at = client_clock - S.shows
      BY <2>5, <3>1
    <3>3. client_clock - S.shows > ClientTimeout * Nanoseconds
      BY <2>6, <3>1, <3>2, NoEarlyAge, ClientAssumption DEF ClocksFit
    <3> QED BY <3>2, <3>3
  <2>8. e \in LostType /\ e.id = k /\ e.closed = Reading
    BY <2>3, <2>4 DEF LostType
  <2>9. Reading.at = clock /\ Reading.steps = steps
    BY DEF Reading
  <2>10. lost' = Append(lost, e)
    BY <2>1
  <2> HIDE DEF e
  <2>11. LostOk(e, sent)
    BY <2>3, <2>7, <2>8, <2>9 DEF LostOk
  <2>12. LostOk(e, sent')
    BY <1>1, <2>11, KnownKept
  <2>13. /\ lost' \in Seq(LostType) /\ Len(lost') = Len(lost) + 1 /\ lost'[Len(lost) + 1] = e
         /\ \A i \in 1..Len(lost) : lost'[i] = lost[i]
         /\ \A i \in 1..Len(lost) + 1 : i \in 1..Len(lost) \/ i = Len(lost) + 1
    BY <1>1, <2>8, <2>10, Appended
  <2> QED BY <1>2, <2>12, <2>13 DEF LostInv
<1>5. lost' = lost \/ Expire
  BY DEF SessionNext, Send, Handle, DeliverRequest, DeliverReply, SetClock, Over, Advance,
     sessionVars, clientVars, ServerStep
<1> QED BY <1>3, <1>4, <1>5

(* Replies stay where they are.                                             *)
LEMMA RepliesKept ==
    ASSUME SessionInv, [SessionNext]_sessionVars
    PROVE  \A i \in 1..Len(replies) : i \in 1..Len(replies') /\ replies'[i] = replies[i]
<1>1. TypeOK /\ replies \in Seq(Reply)
  BY DEF SessionInv, SessionTyped, TypeOK
<1>2. CASE UNCHANGED replies
  BY <1>2
<1>3. CASE SendReply
  <2> DEFINE r == Reflection(Current)
  <2>1. r \in Reply
    BY <1>1, <1>3, ReflectionTyped DEF TypeOK, SendReply
  <2>2. replies' = Append(replies, r)
    BY <1>3 DEF SendReply
  <2> HIDE DEF r
  <2>3. /\ Len(replies') = Len(replies) + 1 /\ Len(replies) \in Nat
        /\ \A i \in 1..Len(replies) : replies'[i] = replies[i]
    BY <1>1, <2>1, <2>2, Appended
  <2> QED BY <2>3
<1>4. UNCHANGED replies \/ SendReply
  BY DEF SessionNext, Send, Handle, Expire, DeliverRequest, Arrive, DeliverReply, SetClock, Over,
     Advance, sessionVars, serverVars, vars, ServerStep, Listen, Proceed, StartOk, StartFails, Count,
     Receive, ReceiveTimeout, ReceiveError, StampReceive, StampSend, SendFails, PortThrows
<1> QED BY <1>2, <1>3, <1>4

(* Every step keeps what is known of the replies in the client's socket.    *)
LEMMA SocketStep ==
    ASSUME SessionInv, ClocksFit, [SessionNext]_sessionVars
    PROVE  socket' \in Seq(SocketType) /\ SocketInv'
<1>1. socket \in Seq(SocketType) /\ Len(socket) \in Nat
  BY DEF SessionInv, SessionTyped
<1> DEFINE Ok(m) == /\ m.reply \in 1..Len(replies')
                    /\ m.kernel.shows # 0 =>
                          /\ Taken(m.kernel, sent', clock', client_clock', steps')
                          /\ replies'[m.reply].timestamp <= m.kernel.at
<1>2. ASSUME NEW i \in 1..Len(socket) PROVE Ok(socket[i])
  <2>1. socket[i].reply \in 1..Len(replies) /\ socket[i] \in SocketType
    BY <1>1 DEF SessionInv, SocketInv
  <2>2. socket[i].kernel \in ReadingType
    BY <2>1 DEF SocketType
  <2> QED BY <2>1, <2>2, RepliesKept, TakenKept DEF SessionInv, SocketInv
<1>3. CASE socket' = socket
  BY <1>1, <1>2, <1>3 DEF SocketInv
<1>4. CASE Handle
  <2>1. socket' = Tail(socket) /\ socket # <<>>
    BY <1>4 DEF Handle
  <2>2. /\ socket' \in Seq(SocketType) /\ Len(socket') = Len(socket) - 1
        /\ \A i \in 1..Len(socket') : socket'[i] = socket[i + 1] /\ i + 1 \in 1..Len(socket)
    BY <1>1, <2>1
  <2>3. \A i \in 1..Len(socket') : Ok(socket'[i])
    BY <1>2, <2>2
  <2> QED BY <2>2, <2>3 DEF SocketInv
<1>5. ASSUME NEW i \in Returning, NEW st \in KernelStamps, DeliverReply(i, st)
      PROVE  socket' \in Seq(SocketType) /\ SocketInv'
  <2> DEFINE m == [reply |-> i, kernel |-> IF st THEN Reading ELSE NoReading]
  <2>1. socket' = Append(socket, m)
    BY <1>5 DEF DeliverReply
  <2>2. i \in 1..Len(replies) /\ i \in Nat /\ replies[i] \in Reply
    BY DEF Returning, SessionInv, SessionTyped, TypeOK
  <2>3. /\ Reading \in ReadingType /\ Taken(Reading, sent, clock, client_clock, steps)
        /\ Reading.at = clock /\ NoReading \in ReadingType /\ NoReading.shows = 0
    BY ReadingTaken DEF Reading, NoReading, ReadingType
  <2>4. /\ m \in SocketType /\ m.reply = i /\ m.kernel \in ReadingType
        /\ m.kernel.shows # 0 => m.kernel = Reading
    BY <2>2, <2>3 DEF SocketType
  <2>5. replies[i].timestamp <= clock
    BY <2>2 DEF SessionInv, ReplyInv, ReplyOk
  <2> HIDE DEF m
  <2>6. Ok(m)
    BY <2>2, <2>3, <2>4, <2>5, RepliesKept, TakenKept
  <2>7. /\ socket' \in Seq(SocketType) /\ Len(socket') = Len(socket) + 1
        /\ socket'[Len(socket) + 1] = m
        /\ \A j \in 1..Len(socket) : socket'[j] = socket[j]
        /\ \A j \in 1..Len(socket) + 1 : j \in 1..Len(socket) \/ j = Len(socket) + 1
    BY <1>1, <2>1, <2>4, Appended
  <2>8. \A j \in 1..Len(socket') : Ok(socket'[j])
    BY <1>2, <2>6, <2>7
  <2> QED BY <2>7, <2>8 DEF SocketInv
<1>6. \/ socket' = socket \/ Handle
      \/ \E i \in Returning, st \in KernelStamps : DeliverReply(i, st)
  BY DEF SessionNext, Send, Expire, DeliverRequest, SetClock, Over, Advance,
     sessionVars, clientVars, ServerStep
<1> QED BY <1>3, <1>4, <1>5, <1>6

(* Every step keeps the types of what the client sent and of its clock.     *)
LEMMA ClientTypedStep ==
    ASSUME SessionInv, ClocksFit, [SessionNext]_sessionVars
    PROVE  /\ client_clock' \in Nat \ {0} /\ steps' \in Nat
           /\ sent' \in Seq(ReadingType) /\ requests' \subseteq 0..Len(sent') - 1
<1>1. /\ client_clock \in Nat \ {0} /\ steps \in Nat
      /\ sent \in Seq(ReadingType) /\ Len(sent) \in Nat /\ requests \subseteq 0..Len(sent) - 1
  BY DEF SessionInv, SessionTyped
<1>2. CASE Send
  <2>1. /\ sent' = Append(sent, Reading) /\ UNCHANGED <<client_clock, steps>>
        /\ requests' = requests \cup {Len(sent)}
    BY <1>2 DEF Send
  <2>2. sent' \in Seq(ReadingType) /\ Len(sent') = Len(sent) + 1
    BY <1>1, <2>1, ReadingTaken, Appended
  <2>3. Len(sent) \in 0..Len(sent') - 1 /\ \A k \in 0..Len(sent) - 1 : k \in 0..Len(sent') - 1
    BY <1>1, <2>2
  <2>4. requests' \subseteq 0..Len(sent') - 1
    BY <1>1, <2>1, <2>3
  <2> QED BY <1>1, <2>1, <2>2, <2>4
<1>3. CASE sent' = sent /\ requests' \subseteq requests
  <2>1. \/ UNCHANGED <<client_clock, steps>>
        \/ client_clock' = client_clock + 1 /\ UNCHANGED steps
        \/ client_clock' \in Nat \ {0} /\ steps' = steps + 1
    BY DEF SessionNext, Send, Handle, Expire, DeliverRequest, DeliverReply, SetClock, Over, Advance,
       sessionVars, clientVars, ServerStep
  <2> QED BY <1>1, <1>3, <2>1
<1>4. Send \/ (sent' = sent /\ requests' \subseteq requests)
  BY DEF SessionNext, Handle, Expire, DeliverRequest, DeliverReply, SetClock, Over, Advance,
     sessionVars, clientVars, ServerStep
<1> QED BY <1>2, <1>3, <1>4

-----------------------------------------------------------------------------
(* The inductive invariant holds as long as the clocks fit.                 *)
LEMMA SessionInitial == SessionInit => SessionInv
<1> SUFFICES ASSUME SessionInit PROVE SessionInv
  OBVIOUS
<1>1. TypeOK
  BY ServerInit DEF SessionInit, ServerInv
<1>2. SessionTyped
  BY <1>1, ClientAssumption DEF SessionInit, SessionTyped, NoReading, ReadingType
<1>3. StampInv /\ DatagramInv /\ ReplyInv
  BY DEF SessionInit, Init, StampInv, DatagramInv, ReplyInv
<1>4. SentInv /\ SocketInv /\ RowInv /\ LastInv /\ LostInv
  BY DEF SessionInit, SentInv, SocketInv, RowInv, LastInv, LastOk, LostInv, NoReading
<1> QED BY <1>2, <1>3, <1>4 DEF SessionInv

LEMMA SessionInductive == SessionSpec /\ []ClocksFit => []SessionInv
<1>1. SessionInv /\ ClocksFit /\ [SessionNext]_sessionVars => SessionInv'
  BY ServerTypedStep, ClientTypedStep, SessionStampStep, SentStep, DatagramStep, ReplyStep,
     SocketStep, RowStep, LastStep, LostStep DEF SessionInv, SessionTyped
<1> QED BY <1>1, SessionInitial, PTL DEF SessionSpec

(* The times of a row, unpacked.                                            *)
LEMMA RowTimes ==
    ASSUME SessionInv, ClocksFit, NEW i \in 1..Len(rows)
    PROVE  \E x \in Era, sr \in Era, ss \in Era :
              LET row == rows[i]
                  S == SentReading(row)
                  R == row.received IN
              /\ S.shows \in Era /\ S.at \in Nat /\ R.at \in Nat /\ R.at \in Era
              /\ S.at <= sr /\ sr <= ss /\ ss <= R.at
              /\ R.shows \in AsKept(x) /\ (Steady(row) => x - R.at = S.shows - S.at)
              /\ row.times = [client_send |-> Wire(S.shows), server_receive |-> Wire(sr),
                              server_send |-> Wire(ss), client_receive |-> R.shows]
<1> DEFINE row == rows[i]
           S == SentReading(row)
           R == row.received
<1>1. row \in RowType /\ RowOk(row, sent, clock)
  BY DEF SessionInv, SessionTyped, RowInv
<1>2. R \in ReadingType
  BY <1>1 DEF RowType
<1> HIDE DEF row
<1>3. row.id + 1 \in 1..Len(sent)
  BY <1>1 DEF RowOk
<1>4. S \in ReadingType /\ S.shows \in Era
  BY <1>3 DEF SessionInv, SessionTyped, SentInv, Taken, SentReading
<1>5. PICK x \in Era, sr \in Nat, ss \in Nat :
          /\ ReadAfter(R, S, x, clock) /\ S.at <= sr /\ sr <= ss /\ ss <= R.at
          /\ row.times = [client_send |-> Wire(S.shows),
                          server_receive |-> Wire(sr), server_send |-> Wire(ss),
                          client_receive |-> R.shows]
  BY <1>1 DEF RowOk, SentReading
<1>6. /\ R.shows \in AsKept(x) /\ R.at <= clock
      /\ Steady(row) => x - R.at = S.shows - S.at
  BY <1>5 DEF ReadAfter, Steady
<1>7. S.at \in Nat /\ R.at \in Nat
  BY <1>2, <1>4, Fields
<1>8. R.at \in Era
  BY <1>6, <1>7, EraBegins DEF ClocksFit
<1>9. ss \in Era
  BY <1>5, <1>8, EraBegins
<1>10. sr \in Era
  BY <1>5, <1>9, EraBegins
<1> HIDE DEF S, R
<1>11. WITNESS x \in Era, sr \in Era, ss \in Era
<1> QED BY <1>4, <1>5, <1>6, <1>7, <1>8 DEF S, R, row

-----------------------------------------------------------------------------
(* What the times are worth                                                 *)

(* Whatever the difference of the clocks, the round-trip time of a packet   *)
(* that printMetrics reports is off by at most a nanosecond, unless the     *)
(* client's clock was set meanwhile: see RoundTripExact.                    *)
THEOREM RoundTripProved == SessionSpec /\ []ClocksFit => []RoundTripExact
<1>1. SessionInv /\ ClocksFit => RoundTripExact
  <2> SUFFICES ASSUME SessionInv, ClocksFit, NEW i \in 1..Len(rows), Steady(rows[i])
               PROVE  computeTimeData(rows[i].times).rtt - Elapsed(rows[i]) \in -1..1
    BY DEF RoundTripExact
  <2> DEFINE S == SentReading(rows[i])
             R == rows[i].received
  <2>1. PICK x \in Era, sr \in Era, ss \in Era :
              /\ S.shows \in Era /\ S.at \in Nat /\ R.at \in Nat /\ R.at \in Era
              /\ S.at <= sr /\ sr <= ss /\ ss <= R.at
              /\ R.shows \in AsKept(x) /\ (Steady(rows[i]) => x - R.at = S.shows - S.at)
              /\ rows[i].times = [client_send |-> Wire(S.shows), server_receive |-> Wire(sr),
                                  server_send |-> Wire(ss), client_receive |-> R.shows]
    BY RowTimes
  <2>2. computeTimeData(rows[i].times).rtt = Minus(R.shows, Wire(S.shows))
    BY <2>1 DEF computeTimeData
  <2>3. Elapsed(rows[i]) = R.at - S.at
    BY DEF Elapsed
  <2> HIDE DEF S, R
  <2>4. x \in Nat /\ S.shows \in Nat /\ sr \in Nat /\ ss \in Nat
    BY <2>1, Scale DEF Era
  <2>5. S.shows <= x /\ x - S.shows = R.at - S.at
    <3>1. x - R.at = S.shows - S.at /\ S.at \in Nat /\ R.at \in Nat
      BY <2>1
    <3>2. S.at <= R.at
      BY <2>1, <2>4
    <3>3. x \in Nat /\ S.shows \in Nat
      BY <2>4
    <3>4. S.shows <= x
      BY <3>1, <3>2, <3>3
    <3>5. x - S.shows = R.at - S.at
      BY ONLY <3>1, <3>3, SMTT(30)
    <3> QED BY <3>4, <3>5
  <2>6. Minus(R.shows, Wire(S.shows)) - (x - S.shows) \in -1..1
    BY <2>1, <2>5, SpanExact
  <2> QED BY <2>2, <2>3, <2>5, <2>6, Zenon
<1> QED BY <1>1, SessionInductive, PTL

(* The server's stay is never negative, and with the clocks in agreement    *)
(* neither of the other two delays is: see DelaysNotNegative.               *)
THEOREM DelaysProved == SessionSpec /\ []ClocksFit => []DelaysNotNegative
<1>1. SessionInv /\ ClocksFit => DelaysNotNegative
  <2> SUFFICES ASSUME SessionInv, ClocksFit, NEW i \in 1..Len(rows)
               PROVE  LET d == computeTimeData(rows[i].times) IN
                      /\ d.internal_delay >= 0
                      /\ SentReading(rows[i]).shows = SentReading(rows[i]).at /\ Steady(rows[i]) =>
                            d.client_server_delay >= 0 /\ d.server_client_delay >= 0
    BY DEF DelaysNotNegative
  <2> DEFINE S == SentReading(rows[i])
             R == rows[i].received
             d == computeTimeData(rows[i].times)
  <2>1. PICK x \in Era, sr \in Era, ss \in Era :
              /\ S.shows \in Era /\ S.at \in Nat /\ R.at \in Nat /\ R.at \in Era
              /\ S.at <= sr /\ sr <= ss /\ ss <= R.at
              /\ R.shows \in AsKept(x) /\ (Steady(rows[i]) => x - R.at = S.shows - S.at)
              /\ rows[i].times = [client_send |-> Wire(S.shows), server_receive |-> Wire(sr),
                                  server_send |-> Wire(ss), client_receive |-> R.shows]
    BY RowTimes
  <2>2. /\ d.internal_delay = Wire(ss) - Wire(sr)
        /\ d.client_server_delay = Wire(sr) - Wire(S.shows)
        /\ d.server_client_delay = R.shows - Wire(ss)
    BY <2>1 DEF computeTimeData
  <2> HIDE DEF S, R, d
  <2>3. /\ Wire(sr) \in Nat /\ Wire(ss) \in Nat /\ Wire(S.shows) \in Nat
        /\ Wire(sr) <= Wire(ss)
    BY <2>1, WireLosesOne
  <2>4. d.internal_delay >= 0
    BY <2>2, <2>3
  <2>5. ASSUME S.shows = S.at, Steady(rows[i])
        PROVE  d.client_server_delay >= 0 /\ d.server_client_delay >= 0
    <3>1. x = R.at
      <4>1. x \in Nat
        BY Scale DEF Era
      <4> QED BY <2>1, <2>5, <4>1
    <3>2. Wire(S.shows) <= Wire(sr)
      BY <2>1, <2>5, WireLosesOne
    <3>3. Wire(ss) <= R.shows
      BY <2>1, <3>1, SpanExact
    <3>4. R.shows \in Nat
      <4>1. x \in Nat
        BY Scale DEF Era
      <4>2. Wire(x) \in Nat
        BY WireLosesOne
      <4> QED BY <2>1, <4>1, <4>2 DEF AsKept
    <3> QED BY <2>2, <2>3, <3>2, <3>3, <3>4
  <2> QED BY <2>4, <2>5 DEF d, S
<1> QED BY <1>1, SessionInductive, PTL

(* The two ways the client computes delays agree exactly for the packets    *)
(* that are marked as in sync: see SyncMeansNoWrap.                         *)
THEOREM SyncProved == SessionSpec /\ []ClocksFit => []SyncMeansNoWrap
<1>1. SessionInv /\ ClocksFit => SyncMeansNoWrap
  <2> SUFFICES ASSUME SessionInv, ClocksFit, NEW i \in 1..Len(rows)
               PROVE  LET d == computeTimeData(rows[i].times)
                          s == Samples(rows[i].times) IN
                      Sync(d) <=> /\ InNanoseconds(s.client_server) = d.client_server_delay
                                  /\ InNanoseconds(s.server_client) = d.server_client_delay
                                  /\ InNanoseconds(s.rtt) + InNanoseconds(s.internal) = d.rtt
    BY DEF SyncMeansNoWrap
  <2> DEFINE S == SentReading(rows[i])
             R == rows[i].received
             t == rows[i].times
  <2>1. PICK x \in Era, sr \in Era, ss \in Era :
              /\ S.shows \in Era /\ S.at \in Nat /\ R.at \in Nat /\ R.at \in Era
              /\ S.at <= sr /\ sr <= ss /\ ss <= R.at
              /\ R.shows \in AsKept(x) /\ (Steady(rows[i]) => x - R.at = S.shows - S.at)
              /\ t = [client_send |-> Wire(S.shows), server_receive |-> Wire(sr),
                      server_send |-> Wire(ss), client_receive |-> R.shows]
    BY RowTimes
  <2> HIDE DEF S, R, t
  <2>2. \A y \in Era : Wire(y) \in Era
    <3> SUFFICES ASSUME NEW y \in Era PROVE Wire(y) \in Era
      OBVIOUS
    <3>1. y \in Nat /\ Wire(y) \in {y - 1, y} \cap Nat
      BY Scale, WireLosesOne DEF Era
    <3>2. Wire(y) \in Nat /\ Wire(y) <= y
      BY <3>1
    <3> QED BY <3>2, EraBegins
  <2>3. R.shows \in Era
    BY <2>1, <2>2 DEF AsKept
  <2>4. /\ t \in [client_send : Era, server_receive : Era, server_send : Era, client_receive : Era]
        /\ t.server_receive <= t.server_send
    BY <2>1, <2>2, <2>3, WireLosesOne
  <2> QED BY <2>4, SyncExact DEF t
<1> QED BY <1>1, SessionInductive, PTL

(* No packet is given up before its timeout, unless the client's clock was  *)
(* set since it was sent: see NoEarlyExpiry.                                *)
THEOREM ExpiryProved == SessionSpec /\ []ClocksFit => []NoEarlyExpiry
<1>1. SessionInv => NoEarlyExpiry
  BY DEF SessionInv, LostInv, LostOk, NoEarlyExpiry
<1> QED BY <1>1, SessionInductive, PTL

(* The duration in the JSON report is the time from the first packet to the *)
(* last reply, to a nanosecond: see DurationIsElapsed.                      *)
THEOREM DurationProved == SessionSpec /\ []ClocksFit => []DurationIsElapsed
<1>1. SessionInv /\ ClocksFit => DurationIsElapsed
  <2> SUFFICES ASSUME SessionInv, ClocksFit, last_received.at # 0,
                      last_received.steps = sent[1].steps
               PROVE  Duration - (last_received.at - sent[1].at) \in -1..1
    BY DEF DurationIsElapsed
  <2> DEFINE S == sent[1]
             R == last_received
  <2>1. Len(sent) >= 1
    BY DEF SessionInv, LastInv, LastOk
  <2>2. PICK x \in Era : R.shows \in AsKept(x) /\ S.at <= R.at /\ x - R.at = S.shows - S.at
    BY DEF SessionInv, LastInv, LastOk, ReadAfter
  <2>3. 1 \in 1..Len(sent)
    BY <2>1 DEF SessionInv, SessionTyped
  <2>4. S \in ReadingType /\ S.shows \in Era /\ R \in ReadingType
    BY <2>3 DEF SessionInv, SessionTyped, SentInv, Taken
  <2>5. S.shows \in Nat /\ S.at \in Nat /\ R.at \in Nat /\ x \in Nat
    BY <2>4, Fields, Scale DEF Era
  <2>6. Duration = Minus(R.shows, Wire(S.shows))
    BY DEF Duration
  <2> HIDE DEF S, R
  <2>7. S.shows <= x /\ x - S.shows = R.at - S.at
    BY <2>2, <2>5, SameSpan
  <2>8. Minus(R.shows, Wire(S.shows)) - (x - S.shows) \in -1..1
    BY <2>2, <2>4, <2>7, SpanExact
  <2> QED BY <2>6, <2>7, <2>8, Zenon DEF S, R
<1> QED BY <1>1, SessionInductive, PTL

-----------------------------------------------------------------------------
(* The hypothesis of the theorems above holds for sessions that are short   *)
(* enough: a client clock that starts at most at first, and is set by at    *)
(* most jump each time, stays in the era.                                   *)
THEOREM ShortSessionsFit ==
    ASSUME NEW first \in Nat, NEW jump \in Nat,
           ClientStart \subseteq 1..first, ClockSteps \subseteq 0..jump, StartTime <= MaxClock,
           first + MaxClock + MaxSteps * jump < Fractions * Nanoseconds
    PROVE  SessionSpec => []ClocksFit
<1> DEFINE Bounded == /\ clock \in 1..MaxClock /\ steps \in 0..MaxSteps /\ client_clock \in Nat
                      /\ client_clock <= first + clock + steps * jump
<1>1. MaxSteps \in Nat /\ MaxClock \in Nat /\ StartTime \in Nat \ {0}
  BY ClientAssumption, LimitsAssumption
<1>2. SessionInit => Bounded
  <2> SUFFICES ASSUME SessionInit PROVE Bounded
    OBVIOUS
  <2>1. clock = StartTime /\ steps = 0 /\ client_clock \in 1..first /\ steps * jump = 0
    BY DEF SessionInit, Init
  <2> QED BY <1>1, <2>1
<1>3. Bounded /\ [SessionNext]_sessionVars => Bounded'
  <2> SUFFICES ASSUME Bounded, [SessionNext]_sessionVars PROVE Bounded'
    OBVIOUS
  <2>1. CASE UNCHANGED <<clock, steps, client_clock>>
    BY <2>1
  <2>2. CASE Advance
    <3>1. clock < MaxClock /\ clock' = clock + 1 /\ client_clock' = client_clock + 1 /\ steps' = steps
      BY <2>2 DEF Advance
    <3>2. steps * jump \in Nat
      OBVIOUS
    <3> QED BY <1>1, <3>1, <3>2
  <2>3. ASSUME NEW d \in ClockSteps, SetClock(d) PROVE Bounded'
    <3>1. /\ steps < MaxSteps /\ steps' = steps + 1 /\ clock' = clock
          /\ client_clock' \in {client_clock + d, client_clock - d} \cap (Nat \ {0})
      BY <2>3 DEF SetClock, serverVars, vars
    <3>2. d \in Nat /\ d <= jump
      OBVIOUS
    <3>3. (steps + 1) * jump = steps * jump + jump /\ steps * jump \in Nat
      OBVIOUS
    <3> QED BY <1>1, <3>1, <3>2, <3>3
  <2>4. \/ UNCHANGED <<clock, steps, client_clock>> \/ Advance
        \/ \E d \in ClockSteps : SetClock(d)
    BY DEF SessionNext, Send, Handle, Expire, DeliverRequest, Arrive, DeliverReply, Over,
       sessionVars, clientVars, serverVars, vars, ServerStep, Listen, Proceed, StartOk, StartFails,
       Count, Receive, ReceiveTimeout, ReceiveError, StampReceive, StampSend, SendReply, SendFails,
       PortThrows
  <2> QED BY <2>1, <2>2, <2>3, <2>4
<1>4. Bounded => ClocksFit
  <2> SUFFICES ASSUME Bounded PROVE ClocksFit
    OBVIOUS
  <2>1. steps * jump <= MaxSteps * jump /\ steps * jump \in Nat /\ MaxSteps * jump \in Nat
    BY <1>1
  <2>2. clock <= Fractions * Nanoseconds - 1 /\ client_clock <= Fractions * Nanoseconds - 1
    BY <1>1, <2>1, Scale
  <2> QED BY <1>1, <2>2, Scale DEF ClocksFit, Era
<1> HIDE DEF Bounded
<1> QED BY <1>2, <1>3, <1>4, PTL DEF SessionSpec
=============================================================================
