------------------------------ MODULE Session ------------------------------
(***************************************************************************)
(* One client measuring one server over a network that delays, reorders    *)
(* and loses datagrams: Server, and of the client what becomes of the      *)
(* times.  The two machines have a clock each, the client's may be set     *)
(* while it measures, and both count nanoseconds.                          *)
(*                                                                         *)
(* Times are kept as the clocks showed them; Wire is what the client reads *)
(* back once they were in an NTP timestamp.  The threads of the client are *)
(* TwampClient's subject: here a packet's entry is made when it is sent,   *)
(* and its samples are computed when its reply is handled.                 *)
(***************************************************************************)
EXTENDS Server, TimeArithmetic

CONSTANTS
    ClientStart,    \* what the client's clock may show when the server's shows StartTime
    ClientTimeout,  \* args.timeout of the client, in seconds
    ClockSteps,     \* by how much the client's clock may be set forward or back
    MaxSteps,       \* bound on how often it is set
    MaxSent         \* bound on the packets

ASSUME ClientAssumption ==
    /\ ClientStart \subseteq Nat \ {0} /\ ClockSteps \subseteq Nat
    /\ ClientTimeout \in Nat /\ MaxSteps \in Nat /\ MaxSent \in Nat

VARIABLES
    client_clock,   \* CLOCK_REALTIME of the client
    steps,          \* how often it was set
    sent,           \* the packets sent: packet k is sent[k + 1]
    requests,       \* the packets on their way to the server
    returned,       \* the replies that reached the client
    socket,         \* the replies in the client's socket
    last_received,  \* last_packet_received_epoch_nanoseconds
    rows,           \* the answered packets, with their times
    lost            \* the packets given up

clientVars == <<client_clock, steps, sent, requests, returned, socket, last_received, rows, lost>>
serverVars == vars
sessionVars == <<clientVars, serverVars>>

(* A reading of the client's clock, with the time it was really taken at    *)
(* and the number of times the clock had been set.                          *)
Reading == [shows |-> client_clock, at |-> clock, steps |-> steps]
NoReading == [shows |-> 0, at |-> 0, steps |-> 0]

SessionInit ==
    /\ Init
    /\ client_clock \in ClientStart /\ steps = 0
    /\ sent = <<>> /\ requests = {} /\ returned = {}
    /\ socket = <<>>
    /\ last_received = NoReading
    /\ rows = <<>> /\ lost = <<>>

-----------------------------------------------------------------------------
(* The client                                                               *)

(* sendPacket, and the entry for the packet.                                *)
Send ==
    /\ Len(sent) < MaxSent
    /\ sent' = Append(sent, Reading)
    /\ requests' = requests \cup {Len(sent)}
    /\ UNCHANGED <<client_clock, steps, returned, socket, last_received, rows, lost, serverVars>>

(* The packets whose entries are still in raw_data_list.                    *)
Outstanding ==
    (0..Len(sent) - 1) \ ({rows[i].id : i \in 1..Len(rows)} \cup {lost[i].id : i \in 1..Len(lost)})

(* handleReflectorPacket: the kernel's time, as it is, or get_timestamp().  *)
ReceiveReading(m) ==
    IF m.kernel.shows # 0 THEN m.kernel ELSE [Reading EXCEPT !.shows = Wire(@)]

(* The four times of the packet, as the client has them.                    *)
TimesOf(r, received) ==
    [client_send |-> Wire(r.sender_timestamp),
     server_receive |-> Wire(r.receive_timestamp),
     server_send |-> Wire(r.timestamp),
     client_receive |-> received.shows]

Handle ==
    /\ socket # <<>>
    /\ LET m == Head(socket)
           r == replies[m.reply]
           received == ReceiveReading(m) IN
       /\ last_received' = received
       /\ rows' = IF r.seq_number \in Outstanding
                  THEN Append(rows, [id |-> r.seq_number, times |-> TimesOf(r, received),
                                     received |-> received])
                  ELSE rows
    /\ socket' = Tail(socket)
    /\ UNCHANGED <<client_clock, steps, sent, requests, returned, lost, serverVars>>

(* Mutant of Expired: the age is compared with a smaller limit.             *)
ExpiredEarly(added) == Minus(Wire(client_clock), Wire(added)) + 1 >= ClientTimeout * Nanoseconds
(* check_if_oldest_packet_should_be_processed: now - added_at > timeout.    *)
Expired(added) == Minus(Wire(client_clock), Wire(added)) > ClientTimeout * Nanoseconds

(* The oldest entry is closed without a reply.                              *)
Expire ==
    /\ \E k \in Outstanding :
          /\ \A j \in Outstanding : k <= j
          /\ Expired(sent[k + 1].shows)
          /\ lost' = Append(lost, [id |-> k, closed |-> Reading])
    /\ UNCHANGED <<client_clock, steps, sent, requests, returned, socket, last_received, rows,
                   serverVars>>

-----------------------------------------------------------------------------
(* The network, the server and the clocks.  Datagrams take any time and any *)
(* order; one that never arrives is lost.                                   *)

DeliverRequest(k, c, n, stamped) ==
    /\ requests' = requests \ {k}
    /\ Arrive(c, k, n, sent[k + 1].shows, stamped)
    /\ UNCHANGED <<client_clock, steps, sent, returned, socket, last_received, rows, lost>>

Returning == 1..Len(replies) \ returned

DeliverReply(i, stamped) ==
    /\ returned' = returned \cup {i}
    /\ socket' = Append(socket, [reply |-> i, kernel |-> IF stamped THEN Reading ELSE NoReading])
    /\ UNCHANGED <<client_clock, steps, sent, requests, last_received, rows, lost, serverVars>>

ServerStep == Listen /\ UNCHANGED clientVars

(* Both clocks run at the same rate.                                        *)
Advance ==
    /\ clock < MaxClock
    /\ clock' = clock + 1 /\ client_clock' = client_clock + 1
    /\ UNCHANGED <<steps, sent, requests, returned, socket, last_received, rows, lost,
                   local_port, pc, counter, arrivals, consumed, stampVars, replies, dropped,
                   exit_status, waited>>

(* The client's clock is set.                                               *)
SetClock(d) ==
    /\ steps < MaxSteps
    /\ client_clock' \in {client_clock + d, client_clock - d} \cap (Nat \ {0})
    /\ steps' = steps + 1
    /\ UNCHANGED <<sent, requests, returned, socket, last_received, rows, lost, serverVars>>

(* The bound on the clock is reached.                                       *)
Over == clock = MaxClock /\ UNCHANGED sessionVars

SessionNext ==
    \/ Send \/ Handle \/ Expire
    \/ \E k \in requests, c \in Clients, n \in Lengths, stamped \in KernelStamps :
          DeliverRequest(k, c, n, stamped)
    \/ \E i \in Returning, stamped \in KernelStamps : DeliverReply(i, stamped)
    \/ ServerStep
    \/ Advance
    \/ \E d \in ClockSteps : SetClock(d)
    \/ Over

SessionSpec == SessionInit /\ [][SessionNext]_sessionVars

-----------------------------------------------------------------------------
(* Properties                                                               *)

SentReading(row) == sent[row.id + 1]
(* The client's clock was not set between the packet and its reply.         *)
Steady(row) == SentReading(row).steps = row.received.steps
(* How long the round trip really took.                                     *)
Elapsed(row) == row.received.at - SentReading(row).at

(* The round-trip time of a packet needs no agreement of the two clocks:    *)
(* whatever their difference, and although the time of sending went through *)
(* an NTP fraction and the time of receipt may not have, the RTT that       *)
(* printMetrics reports is off by at most a nanosecond.                     *)
RoundTripExact ==
    \A i \in 1..Len(rows) : Steady(rows[i]) =>
        computeTimeData(rows[i].times).rtt - Elapsed(rows[i]) \in -1..1

(* With the clocks in agreement none of the three delays is negative: the   *)
(* truncations keep the order of the times, whichever of them came from the *)
(* kernel.                                                                  *)
DelaysNotNegative ==
    \A i \in 1..Len(rows) :
        LET d == computeTimeData(rows[i].times) IN
        /\ d.internal_delay >= 0
        /\ SentReading(rows[i]).shows = SentReading(rows[i]).at /\ Steady(rows[i]) =>
              d.client_server_delay >= 0 /\ d.server_client_delay >= 0

(* The two ways the client computes a delay agree exactly for the packets   *)
(* that the legacy format marks as in sync: there the samples are the       *)
(* signed delays, and the RTT statistic is the RTT without the server's     *)
(* stay.  For any other packet one of the samples has wrapped.              *)
SyncMeansNoWrap ==
    \A i \in 1..Len(rows) :
        LET d == computeTimeData(rows[i].times)
            s == Samples(rows[i].times) IN
        Sync(d) <=> /\ InNanoseconds(s.client_server) = d.client_server_delay
                    /\ InNanoseconds(s.server_client) = d.server_client_delay
                    /\ InNanoseconds(s.rtt) + InNanoseconds(s.internal) = d.rtt

(* A packet is given up only after the timeout, unless the client's clock   *)
(* was set since it was sent.                                               *)
NoEarlyExpiry ==
    \A i \in 1..Len(lost) :
        LET e == lost[i] IN
        e.closed.steps = sent[e.id + 1].steps =>
            e.closed.at - sent[e.id + 1].at > ClientTimeout * Nanoseconds

(* JsonLog: the duration of the measurement.                                *)
Duration == Minus(last_received.shows, Wire(sent[1].shows))

(* The duration in the JSON report is the time from the first packet to the *)
(* last reply, if there was a reply and the clock was not set in between.   *)
DurationIsElapsed ==
    last_received.at # 0 /\ last_received.steps = sent[1].steps =>
        Duration - (last_received.at - sent[1].at) \in -1..1
=============================================================================
