--------------------------- MODULE TimeArithmetic ---------------------------
(***************************************************************************)
(* The arithmetic of times (src/src/utils.cpp, include/utils.hpp and the   *)
(* computations in Client.cpp).  A time is a number of nanoseconds since   *)
(* 1970, kept in a uint64_t; in a packet it is an NTP timestamp: seconds   *)
(* since 1900 in a uint32_t and a fraction of a second in another one.     *)
(*                                                                         *)
(* The conversions of the fraction use double; for each of the 10^9 values *)
(* of tv_nsec and each of the 2^32 fractions their result is that of the   *)
(* integer divisions below.  htonts and ntohts undo each other and are     *)
(* left out.                                                               *)
(***************************************************************************)
EXTENDS Integers

CONSTANTS
    Nanoseconds,  \* in a second: NANOSECONDS_IN_SECOND, 10^9
    Fractions,    \* 2^32: the values of a uint32_t, and fractions in a second
    Word,         \* 2^64: the values of a uint64_t
    EpochOffset   \* NTP_EPOCH_OFFSET, 2208988800

ASSUME ScaleAssumption ==
    /\ Nanoseconds \in Nat \ {0}
    /\ Fractions \in Nat /\ Fractions >= Nanoseconds
    /\ EpochOffset \in 0..Fractions - 1
ASSUME WordAssumption == Word \in Nat /\ Word >= 2 * Fractions * Nanoseconds

-----------------------------------------------------------------------------
nanosecondsToTimespec(ns) == [tv_sec |-> ns \div Nanoseconds, tv_nsec |-> ns % Nanoseconds]

Fraction(tv_nsec) == (tv_nsec * Fractions) \div Nanoseconds
FromFraction(fractional) == (fractional * Nanoseconds) \div Fractions

timespec_to_timestamp(tv) ==
    [integer |-> (tv.tv_sec + EpochOffset) % Fractions, fractional |-> Fraction(tv.tv_nsec)]

(* Mutant of timestamp_to_timespec: the difference is not that of uint32_t. *)
timestamp_to_timespec_signed(ts) ==
    [tv_sec |-> ts.integer - EpochOffset, tv_nsec |-> FromFraction(ts.fractional)]
timestamp_to_timespec(ts) ==
    [tv_sec |-> (ts.integer - EpochOffset) % Fractions, tv_nsec |-> FromFraction(ts.fractional)]

timestamp_to_nsec(ts) ==
    LET tv == timestamp_to_timespec(ts) IN (tv.tv_sec * Nanoseconds + tv.tv_nsec) % Word

(* A reading of the clock as the program gets it back from a packet, from   *)
(* get_timestamp() or from an observation.                                  *)
Wire(ns) == timestamp_to_nsec(timespec_to_timestamp(nanosecondsToTimespec(ns)))

-----------------------------------------------------------------------------
(* The four times of an answered packet                                     *)
Times == [client_send : Nat, server_receive : Nat, server_send : Nat, client_receive : Nat]

(* The difference of two uint64_t.                                          *)
Minus(a, b) == (a - b) % Word

(* Mutant of safe_tspecplus: the carry is forgotten.                        *)
safe_tspecplus_no_carry(a, b) ==
    [tv_sec |-> a.tv_sec + b.tv_sec, tv_nsec |-> (a.tv_nsec + b.tv_nsec) % Nanoseconds]
(* The loop that carries whole seconds over.                                *)
safe_tspecplus(a, b) ==
    LET nsec == a.tv_nsec + b.tv_nsec IN
    [tv_sec |-> a.tv_sec + b.tv_sec + nsec \div Nanoseconds, tv_nsec |-> nsec % Nanoseconds]

(* aggregateRawData: the samples for the four statistics.                   *)
Samples(t) ==
    LET client_server == nanosecondsToTimespec(Minus(t.server_receive, t.client_send))
        server_client == nanosecondsToTimespec(Minus(t.client_receive, t.server_send)) IN
    [client_server |-> client_server,
     server_client |-> server_client,
     internal |-> nanosecondsToTimespec(Minus(t.server_send, t.server_receive)),
     rtt |-> safe_tspecplus(client_server, server_client)]

(* What the statistics make of a sample.                                    *)
InNanoseconds(tv) == tv.tv_sec * Nanoseconds + tv.tv_nsec

(* computeTimeData: int64_t differences, of times below 2^63.               *)
computeTimeData(t) ==
    [internal_delay |-> t.server_send - t.server_receive,
     client_server_delay |-> t.server_receive - t.client_send,
     server_client_delay |-> t.client_receive - t.server_send,
     rtt |-> Minus(t.client_receive, t.client_send)]

(* isWithinEpsilon with an epsilon of 1%, for numbers that are not negative.*)
isWithinEpsilon(a, b) ==
    100 * (IF a < b THEN b - a ELSE a - b) <= (IF a < b THEN b ELSE a)

(* printMetrics: the Sync column is 'Y'.                                    *)
Sync(d) ==
    /\ isWithinEpsilon(d.rtt,
           (d.client_server_delay + d.server_client_delay + d.internal_delay) % Word)
    /\ ~(d.client_server_delay < 0 \/ d.server_client_delay < 0)
=============================================================================
