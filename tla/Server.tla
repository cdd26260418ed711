------------------------------- MODULE Server -------------------------------
(***************************************************************************)
(* The reflector (src/src/server/Server.cpp, include/Server.h): one thread *)
(* that receives datagrams and sends each one back with two timestamps.    *)
(* Any number of clients use it at the same time; their datagrams wait in  *)
(* the socket's receive queue.                                             *)
(***************************************************************************)
EXTENDS Integers, Sequences, FiniteSets

CONSTANTS
    NumSamples,      \* args.num_samples; 0 serves without limit
    Timeout,         \* args.timeout in seconds; 0 waits for ever
    UintModulus,     \* 2^32, the range of uint32_t counter
    BufferSize,      \* sizeof(ClientPacket), 1472
    Clients,         \* the addresses datagrams come from
    Lengths,         \* the lengths they have
    KernelStamps,    \* {TRUE, FALSE}: the kernel may leave out SO_TIMESTAMPNS
    ReceiveMayFail,  \* recvmsg may fail with another error than a timeout
    SendMayFail,     \* sendmsg may return -1
    Ports,           \* what args.local_port may be: "number", "service"
    ClientTimes,     \* the times clients put into their packets
    StartTime,       \* what the clock shows when the server starts
    MaxDatagrams,    \* bound on the datagrams that arrive
    MaxClock         \* bound on the clock

ASSUME NumSamplesAssumption == NumSamples \in 0..UintModulus - 1
ASSUME LimitsAssumption ==
    /\ Timeout \in Nat /\ UintModulus \in Nat \ {0} /\ BufferSize \in Nat
    /\ MaxDatagrams \in Nat /\ StartTime \in Nat \ {0} /\ MaxClock \in Nat
ASSUME LengthsAssumption == Lengths \subseteq Nat
ASSUME TimesAssumption == ClientTimes \subseteq Nat
ASSUME SwitchesAssumption ==
    /\ KernelStamps \subseteq BOOLEAN /\ Ports \subseteq {"number", "service"}
    /\ ReceiveMayFail \in BOOLEAN /\ SendMayFail \in BOOLEAN

VARIABLES
    local_port,         \* args.local_port; does not change
    pc,                 \* where the constructor or listen() is
    counter,            \* uint32_t counter of listen()
    arrivals,           \* every datagram that reached the socket, in order
    consumed,           \* how many of them recvmsg has returned
    receive_timestamp,  \* craftReflectorPacket: server_timestamp
    send_timestamp,     \* craftReflectorPacket: send_timestamp
    replies,            \* the reflector packets sent, in order
    dropped,            \* datagrams received and not answered
    exit_status,        \* what main() returns once pc = "exit"
    clock,              \* the server's clock; never 0
    waited              \* seconds spent blocked in recvmsg

stampVars == <<receive_timestamp, send_timestamp>>
vars == <<local_port, pc, counter, arrivals, consumed, stampVars, replies, dropped, exit_status,
          clock, waited>>

Datagram == [from : Clients, seq_number : Nat, length : Lengths, timestamp : Nat,
             arrived : Nat, stamped : BOOLEAN]
Reply == [to : Clients, seq_number : Nat, length : Lengths, sender_timestamp : Nat,
          receive_timestamp : Nat, timestamp : Nat]

Init ==
    /\ local_port \in Ports
    /\ pc = "start" /\ counter = 0
    /\ arrivals = <<>> /\ consumed = 0
    /\ receive_timestamp = 0 /\ send_timestamp = 0
    /\ replies = <<>> /\ dropped = 0
    /\ exit_status = 0
    /\ clock = StartTime /\ waited = 0

Current == arrivals[consumed]  \* the datagram in buffer

-----------------------------------------------------------------------------
(* Server::Server()                                                         *)

(* The address is resolved and the socket is made, set up and bound.        *)
StartOk ==
    /\ pc = "start"
    /\ pc' = "count"
    /\ UNCHANGED <<local_port, counter, arrivals, consumed, stampVars, replies, dropped,
                   exit_status, clock, waited>>

(* A wrong IP version, or one of the calls fails: std::exit(EXIT_FAILURE).  *)
StartFails ==
    /\ pc = "start"
    /\ pc' = "exit" /\ exit_status' = 1
    /\ UNCHANGED <<local_port, counter, arrivals, consumed, stampVars, replies, dropped,
                   clock, waited>>

-----------------------------------------------------------------------------
(* listen()                                                                 *)

(* Mutant of Exhausted: one datagram too few.                               *)
ExhaustedEarly(n) == n >= NumSamples
Exhausted(n) == n > NumSamples

(* The head of the loop: counter++ and the test against num_samples.        *)
Count ==
    /\ pc = "count"
    /\ counter' = IF NumSamples = 0 THEN counter ELSE (counter + 1) % UintModulus
    /\ pc' = IF NumSamples # 0 /\ Exhausted(counter') THEN "exit" ELSE "recv"
    /\ UNCHANGED <<local_port, arrivals, consumed, stampVars, replies, dropped, exit_status,
                   clock, waited>>

Fits(d) == d.length <= BufferSize

(* Mutant of Receive: the datagram is looked at but stays in the queue.     *)
ReceivePeek ==
    /\ pc = "recv"
    /\ consumed < Len(arrivals)
    /\ waited' = 0
    /\ IF Fits(arrivals[consumed + 1])
       THEN pc' = "stamp_receive" /\ UNCHANGED dropped
       ELSE pc' = "count" /\ dropped' = dropped + 1
    /\ UNCHANGED <<local_port, counter, arrivals, consumed, stampVars, replies, exit_status,
                   clock>>

(* recvmsg returns a datagram.  MSG_TRUNC: it is reported and not answered. *)
Receive ==
    /\ pc = "recv"
    /\ consumed < Len(arrivals)
    /\ consumed' = consumed + 1
    /\ waited' = 0
    /\ IF Fits(arrivals[consumed + 1])
       THEN pc' = "stamp_receive" /\ UNCHANGED dropped
       ELSE pc' = "count" /\ dropped' = dropped + 1
    /\ UNCHANGED <<local_port, counter, arrivals, stampVars, replies, exit_status, clock>>

(* Mutant of ReceiveTimeout: recvmsg is called again.                       *)
ReceiveTimeoutRetried ==
    /\ pc = "recv"
    /\ consumed = Len(arrivals)
    /\ Timeout # 0 /\ waited >= Timeout
    /\ UNCHANGED vars

(* recvmsg fails with EAGAIN once SO_RCVTIMEO has passed: listen returns 11.*)
ReceiveTimeout ==
    /\ pc = "recv"
    /\ consumed = Len(arrivals)
    /\ Timeout # 0 /\ waited >= Timeout
    /\ pc' = "exit" /\ exit_status' = 11
    /\ UNCHANGED <<local_port, counter, arrivals, consumed, stampVars, replies, dropped,
                   clock, waited>>

(* Any other error: listen returns 1.                                       *)
ReceiveError ==
    /\ pc = "recv"
    /\ ReceiveMayFail
    /\ pc' = "exit" /\ exit_status' = 1
    /\ UNCHANGED <<local_port, counter, arrivals, consumed, stampVars, replies, dropped,
                   clock, waited>>

-----------------------------------------------------------------------------
(* handleTestPacket() and craftReflectorPacket()                            *)

(* get_kernel_timestamp() leaves the timespec 0 if the control messages of  *)
(* the datagram hold no time.                                               *)
KernelTime(d) == IF d.stamped THEN d.arrived ELSE 0

(* Mutant of ReceiveTime: the kernel's time is never used.                  *)
ReceiveTimeNow(d) == clock
ReceiveTime(d) == IF KernelTime(d) = 0 THEN clock ELSE KernelTime(d)

StampReceive ==
    /\ pc = "stamp_receive"
    /\ receive_timestamp' = ReceiveTime(Current)
    /\ pc' = "stamp_send"
    /\ UNCHANGED <<local_port, counter, arrivals, consumed, send_timestamp, replies,
                   dropped, exit_status, clock, waited>>

StampSend ==
    /\ pc = "stamp_send"
    /\ send_timestamp' = clock
    /\ pc' = "send"
    /\ UNCHANGED <<local_port, counter, arrivals, consumed, receive_timestamp, replies,
                   dropped, exit_status, clock, waited>>

(* Mutant of Reflection: the sequence number counts replies.                *)
OwnSequence(d) ==
    [to |-> d.from, seq_number |-> Len(replies), length |-> d.length,
     sender_timestamp |-> d.timestamp,
     receive_timestamp |-> receive_timestamp, timestamp |-> send_timestamp]
Reflection(d) ==
    [to |-> d.from, seq_number |-> d.seq_number, length |-> d.length,
     sender_timestamp |-> d.timestamp,
     receive_timestamp |-> receive_timestamp, timestamp |-> send_timestamp]

(* The stamps are local to craftReflectorPacket.                            *)
Forget == receive_timestamp' = 0 /\ send_timestamp' = 0

(* Mutant of SendReply: the reply is sent again.                            *)
SendReplyRepeated ==
    /\ pc = "send" /\ local_port = "number"
    /\ replies' = Append(replies, Reflection(Current))
    /\ UNCHANGED <<local_port, pc, counter, arrivals, consumed, stampVars, dropped,
                   exit_status, clock, waited>>

SendReply ==
    /\ pc = "send" /\ local_port = "number"
    /\ replies' = Append(replies, Reflection(Current))
    /\ pc' = "count"
    /\ Forget
    /\ UNCHANGED <<local_port, counter, arrivals, consumed, dropped, exit_status, clock,
                   waited>>

(* Mutant of SendFails: retried, with a new time, until it succeeds.        *)
SendFailsRetried ==
    /\ pc = "send" /\ local_port = "number"
    /\ SendMayFail
    /\ pc' = "stamp_send"
    /\ UNCHANGED <<local_port, counter, arrivals, consumed, stampVars, replies, dropped,
                   exit_status, clock, waited>>

(* sendmsg fails: the error is printed and the server goes on.              *)
SendFails ==
    /\ pc = "send" /\ local_port = "number"
    /\ SendMayFail
    /\ dropped' = dropped + 1
    /\ pc' = "count"
    /\ Forget
    /\ UNCHANGED <<local_port, counter, arrivals, consumed, replies, exit_status, clock,
                   waited>>

(* std::stoi(args.local_port), evaluated for every datagram, throws on a    *)
(* service name; main() catches and returns EXIT_FAILURE.                   *)
PortThrows ==
    /\ pc = "send" /\ local_port = "service"
    /\ dropped' = dropped + 1
    /\ pc' = "exit" /\ exit_status' = 1
    /\ Forget
    /\ UNCHANGED <<local_port, counter, arrivals, consumed, replies, clock, waited>>

(* The server's steps that do not wait for a socket error.                  *)
Proceed == \/ StartOk \/ StartFails
           \/ Count \/ Receive \/ ReceiveTimeout
           \/ StampReceive \/ StampSend \/ SendReply \/ SendFails \/ PortThrows

Listen == Proceed \/ ReceiveError

-----------------------------------------------------------------------------
(* Environment                                                              *)

(* A client's packets are told apart by the order in which they reach the   *)
(* server, which looks at no sequence number: a packet that the network     *)
(* reordered or delivered twice is one more packet with a number of its     *)
(* own, and a lost one has none.                                            *)
SentBy(c) == Cardinality({k \in 1..Len(arrivals) : arrivals[k].from = c})

Arrive(c, seq, n, t, stamped) ==
    /\ pc \notin {"start", "exit"}  \* the socket is open
    /\ Len(arrivals) < MaxDatagrams
    /\ arrivals' = Append(arrivals, [from |-> c, seq_number |-> seq, length |-> n,
                                     timestamp |-> t, arrived |-> clock,
                                     stamped |-> stamped])
    /\ UNCHANGED <<local_port, pc, counter, consumed, stampVars, replies, dropped,
                   exit_status, clock, waited>>

Tick ==
    /\ pc # "exit"
    /\ clock' = IF clock < MaxClock THEN clock + 1 ELSE clock
    /\ waited' = IF pc = "recv" /\ waited < Timeout THEN waited + 1 ELSE waited
    /\ UNCHANGED <<local_port, pc, counter, arrivals, consumed, stampVars, replies, dropped,
                   exit_status>>

Terminating == pc = "exit" /\ UNCHANGED vars

Next == \/ Listen
        \/ \E c \in Clients, n \in Lengths, t \in ClientTimes, stamped \in KernelStamps :
              Arrive(c, SentBy(c), n, t, stamped)
        \/ Tick
        \/ Terminating

Spec == Init /\ [][Next]_vars

(* The server runs whenever it can, and time passes; nothing makes recvmsg  *)
(* fail.                                                                    *)
FairSpec == Spec /\ WF_vars(Proceed) /\ WF_vars(Tick)

-----------------------------------------------------------------------------
(* Properties                                                               *)

(* Every variable has its type, and a datagram is in the buffer whenever    *)
(* one is being handled.                                                    *)
TypeOK ==
    /\ local_port \in Ports
    /\ pc \in {"start", "count", "recv", "stamp_receive", "stamp_send", "send", "exit"}
    /\ counter \in 0..UintModulus - 1
    /\ arrivals \in Seq(Datagram)
    /\ consumed \in 0..Len(arrivals)
    /\ pc \in {"stamp_receive", "stamp_send", "send"} => consumed # 0
    /\ receive_timestamp \in Nat /\ send_timestamp \in Nat
    /\ replies \in Seq(Reply)
    /\ dropped \in Nat
    /\ exit_status \in {0, 1, 11}
    /\ clock \in Nat \ {0}
    /\ waited \in 0..Timeout

(* "d was answered by r", whatever the server's times.                      *)
Answers(r, d) ==
    /\ r.to = d.from /\ r.seq_number = d.seq_number
    /\ r.length = d.length /\ r.sender_timestamp = d.timestamp

Handling == pc \in {"stamp_receive", "stamp_send", "send"}

(* Every datagram received so far was answered once, or dropped, or is      *)
(* being handled: none is answered twice or forgotten.                      *)
Conservation ==
    Len(replies) + dropped + (IF Handling THEN 1 ELSE 0) = consumed

(* A reply goes to a client that is waiting for it and carries that         *)
(* client's sequence number, and with several clients interleaved each gets *)
(* its replies in the order of its packets, at most one for each.           *)
ReflectsInOrder ==
    /\ \A i \in 1..Len(replies) : \E k \in 1..consumed : Answers(replies[i], arrivals[k])
    /\ \A i, j \in 1..Len(replies) :
          i < j /\ replies[i].to = replies[j].to => replies[i].seq_number < replies[j].seq_number

(* The two times of a reply enclose the time the datagram spent in the      *)
(* server: the internal delay the client computes is not negative, and if   *)
(* the kernel gave a time it begins when the datagram arrived, so that      *)
(* waiting in the socket's queue is not taken for network delay.            *)
TimesEncloseStay ==
    \A i \in 1..Len(replies) :
        /\ replies[i].receive_timestamp <= replies[i].timestamp
        /\ \E k \in 1..consumed :
              /\ Answers(replies[i], arrivals[k])
              /\ IF arrivals[k].stamped
                 THEN replies[i].receive_timestamp = arrivals[k].arrived
                 ELSE replies[i].receive_timestamp >= arrivals[k].arrived

(* A limited server handles NumSamples datagrams, no more, and reports      *)
(* success only after exactly that many.                                    *)
SampleBudget ==
    NumSamples # 0 =>
        /\ consumed <= NumSamples
        /\ pc = "exit" /\ exit_status = 0 => consumed = NumSamples

(* With a timeout the server does not outlive its clients.                  *)
EventuallyExits == <>(pc = "exit")

(* A server without limits keeps serving: whatever its clients send, however*)
(* often sendmsg fails and whatever does not fit its buffer, a datagram that*)
(* reached the socket is handled, unless the server exits.                  *)
EventuallyHandled ==
    \A k \in 1..MaxDatagrams :
        (Len(arrivals) >= k) ~> ((consumed >= k /\ ~Handling) \/ pc = "exit")

(* Seen from outside, the server is a Reflector: of its state only the      *)
(* datagrams, how many of them are done with, the replies and whether it    *)
(* has exited matter.                                                       *)
Outside == INSTANCE Reflector WITH
    inbox <- arrivals,
    handled <- Len(replies) + dropped,
    open <- (pc # "exit"),
    now <- clock

(* Every behaviour of the server, with its counter, timeouts, failures and  *)
(* stamps taken at different times, is one a Reflector may show.            *)
ImplementsReflector == Outside!Spec
=============================================================================
