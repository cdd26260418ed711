----------------------------- MODULE MCSession -----------------------------
(***************************************************************************)
(* A statement about the statistics that a comment of the client makes,    *)
(* written as a property of Session.  TLC refutes it.                      *)
(***************************************************************************)
EXTENDS Session

(* Client.cpp, aggregateRawData, where the sum of the two delays is added   *)
(* to stats_RTT: "Check if RTT is positive (not just >= 1ms) to handle      *)
(* sub-millisecond RTTs".  What is added is a round-trip time: it is not    *)
(* longer than the time between sending the packet and receiving the reply. *)
RttSampleIsRoundTrip ==
    \A i \in 1..Len(rows) : Steady(rows[i]) =>
        InNanoseconds(Samples(rows[i].times).rtt) <= Elapsed(rows[i]) + 1
=============================================================================
