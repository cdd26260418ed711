------------------------ MODULE TimeArithmeticProofs ------------------------
(***************************************************************************)
(* What the conversions of times keep, for every number of nanoseconds in  *)
(* a second and of fractions in a uint32_t, and every epoch: the facts     *)
(* about TimeArithmetic that the proofs about Session need.                *)
(***************************************************************************)
EXTENDS TimeArithmetic, TLAPS

(* The times an NTP timestamp can show: 2^32 seconds from 1970 on.          *)
Era == 0..Fractions * Nanoseconds - 1

(* The constants are numbers.                                               *)
LEMMA Scale ==
    /\ Nanoseconds \in Nat \ {0} /\ Fractions \in Nat \ {0} /\ Nanoseconds <= Fractions
    /\ EpochOffset \in 0..Fractions - 1
    /\ Word \in Nat \ {0} /\ Fractions * Nanoseconds \in Nat \ {0}
    /\ 2 * (Fractions * Nanoseconds) <= Word
<1>1. Nanoseconds \in Nat \ {0} /\ Fractions \in Nat \ {0} /\ Nanoseconds <= Fractions
  BY ScaleAssumption
<1>2. Fractions * Nanoseconds \in Nat \ {0} /\ 2 * Fractions * Nanoseconds = 2 * (Fractions * Nanoseconds)
  BY <1>1
<1> QED BY <1>1, <1>2, ScaleAssumption, WordAssumption

-----------------------------------------------------------------------------
(* Division                                                                 *)

(* The quotient and the remainder of a division are the only ones.          *)
LEMMA Quotient ==
    ASSUME NEW q \in Int, NEW r \in Int, NEW n \in Nat \ {0}, 0 <= r, r < n
    PROVE  (n * q + r) \div n = q /\ (n * q + r) % n = r
OBVIOUS

(* A number is made of its quotient and its remainder.                      *)
LEMMA Division ==
    ASSUME NEW a \in Int, NEW n \in Nat \ {0}
    PROVE  /\ a \div n \in Int /\ a % n \in 0..n - 1
           /\ a = n * (a \div n) + (a % n)
OBVIOUS

(* The quotient of a number that is not negative is not negative.           *)
LEMMA QuotientBounds ==
    ASSUME NEW a \in Nat, NEW n \in Nat \ {0}
    PROVE  /\ a \div n \in Nat
           /\ \A m \in Nat : a < m * n => a \div n < m
OBVIOUS

(* A number below the modulus is its own remainder, and a number that is    *)
(* negative by less than the modulus wraps.                                 *)
LEMMA Remainder ==
    ASSUME NEW a \in Int, NEW n \in Nat \ {0}
    PROVE  /\ 0 <= a /\ a < n => a % n = a
           /\ -n <= a /\ a < 0 => a % n = a + n
           /\ n <= a /\ a < 2 * n => a % n = a - n
OBVIOUS

(* Multiples of the divisor.                                                *)
LEMMA ShiftedDivision ==
    ASSUME NEW a \in Int, NEW k \in Int, NEW n \in Nat \ {0}
    PROVE  (a + k * n) \div n = (a \div n) + k /\ (a + k * n) % n = a % n
<1> DEFINE q == a \div n
           r == a % n
<1>1. q \in Int /\ r \in 0..n - 1 /\ a = n * q + r
  BY Division
<1> HIDE DEF q, r
<1>2. a + k * n = n * (q + k) + r /\ q + k \in Int /\ r \in Int /\ 0 <= r /\ r < n
  BY <1>1
<1>3. (n * (q + k) + r) \div n = q + k /\ (n * (q + k) + r) % n = r
  BY <1>2, Quotient
<1> QED BY <1>2, <1>3, Zenon DEF q, r

-----------------------------------------------------------------------------
(* Fractions of a second                                                    *)

(* A number of nanoseconds below a second survives the conversion to NTP    *)
(* fractions and back, or loses one: both divisions round down, and a       *)
(* fraction is not longer than a nanosecond.                                *)
LEMMA FractionLosesOne ==
    ASSUME NEW x \in 0..Nanoseconds - 1
    PROVE  /\ Fraction(x) \in 0..Fractions - 1
           /\ FromFraction(Fraction(x)) \in {x - 1, x} \cap Nat
<1> DEFINE N == Nanoseconds
           F == Fractions
           f == Fraction(x)
           g == FromFraction(f)
<1>1. N \in Nat \ {0} /\ F \in Nat \ {0} /\ N <= F /\ x \in Nat /\ x < N
  BY Scale
<1>2. x * F \in Nat /\ x * F < N * F /\ N * F = F * N
  BY <1>1
<1>3. f \in Nat /\ N * f <= x * F /\ x * F < N * f + N
  BY <1>1, <1>2 DEF Fraction
<1>4. f < F
  BY <1>1, <1>2, <1>3, QuotientBounds DEF Fraction
<1> HIDE DEF f
<1>5. f * N \in Nat /\ f * N = N * f
  BY <1>1, <1>3
<1>6. g \in Nat /\ F * g <= f * N /\ f * N < F * g + F
  BY <1>1, <1>5 DEF FromFraction
<1> HIDE DEF g, N, F
<1>7. g <= x
  <2>1. F * g <= F * x
    BY <1>1, <1>3, <1>5, <1>6
  <2> QED BY <1>1, <1>6, <2>1
<1>8. x <= g + 1
  <2>1. F * x < F * (g + 2)
    BY <1>1, <1>3, <1>5, <1>6
  <2>2. x < g + 2
    BY <1>1, <1>6, <2>1
  <2> QED BY <1>1, <1>6, <2>2
<1>9. g \in {x - 1, x} \cap Nat
  BY <1>1, <1>6, <1>7, <1>8
<1> QED BY <1>1, <1>3, <1>4, <1>9 DEF f, g, F

(* Nothing is lost of a whole second, and the fractions of two times that   *)
(* are a whole number of seconds apart are the same.                        *)
Truncated(ns) == (ns \div Nanoseconds) * Nanoseconds + FromFraction(Fraction(ns % Nanoseconds))

LEMMA TruncatedLosesOne ==
    ASSUME NEW ns \in Nat
    PROVE  Truncated(ns) \in {ns - 1, ns} \cap Nat
<1> DEFINE q == ns \div Nanoseconds
           r == ns % Nanoseconds
           g == FromFraction(Fraction(r))
<1>1. q \in Nat /\ r \in 0..Nanoseconds - 1 /\ ns = Nanoseconds * q + r
  <2>1. Nanoseconds \in Nat \ {0} /\ ns \in Int
    BY Scale
  <2>2. q \in Nat
    BY <2>1, QuotientBounds, Zenon
  <2>3. r \in 0..Nanoseconds - 1 /\ ns = Nanoseconds * q + r
    BY <2>1, Division, Zenon
  <2> QED BY <2>2, <2>3
<1>2. g \in {r - 1, r} \cap Nat
  BY <1>1, FractionLosesOne
<1> HIDE DEF q, r, g
<1>3. q * Nanoseconds \in Nat /\ Nanoseconds * q = q * Nanoseconds
  BY <1>1, Scale
<1>4. q * Nanoseconds + g \in {ns - 1, ns} \cap Nat
  BY <1>1, <1>2, <1>3
<1> QED BY <1>4, Zenon DEF Truncated, q, r, g

LEMMA TruncatedShift ==
    ASSUME NEW ns \in Nat, NEW k \in Nat
    PROVE  Truncated(ns + k * Nanoseconds) = Truncated(ns) + k * Nanoseconds
<1> DEFINE q == ns \div Nanoseconds
           g == FromFraction(Fraction(ns % Nanoseconds))
<1>1. /\ (ns + k * Nanoseconds) \div Nanoseconds = q + k
      /\ (ns + k * Nanoseconds) % Nanoseconds = ns % Nanoseconds
  <2>1. Nanoseconds \in Nat \ {0} /\ ns \in Int /\ k \in Int
    BY Scale
  <2> QED BY <2>1, ShiftedDivision, Zenon
<1>2. Truncated(ns + k * Nanoseconds) = (q + k) * Nanoseconds + g /\ Truncated(ns) = q * Nanoseconds + g
  BY <1>1, Zenon DEF Truncated
<1>3. q \in Int /\ g \in Nat
  BY Scale, Division, FractionLosesOne
<1> HIDE DEF q, g
<1> QED BY <1>2, <1>3, Scale

-----------------------------------------------------------------------------
(* NTP timestamps                                                           *)

(* The seconds of an era survive the change of epoch in uint32_t, although  *)
(* the sum with the offset may wrap.                                        *)
LEMMA EpochRoundTrip ==
    ASSUME NEW sec \in 0..Fractions - 1
    PROVE  (((sec + EpochOffset) % Fractions) - EpochOffset) % Fractions = sec
<1> DEFINE sum == sec + EpochOffset
<1>1. /\ Fractions \in Nat \ {0} /\ EpochOffset \in Nat /\ EpochOffset < Fractions
      /\ sec \in Nat /\ sec < Fractions /\ sum \in Nat /\ sum < 2 * Fractions
      /\ sum - EpochOffset = sec /\ sum - Fractions - EpochOffset = sec - Fractions
  BY Scale
<1> HIDE DEF sum
<1>2. CASE sum < Fractions
  <2>1. sum % Fractions = sum
    BY <1>1, <1>2, Remainder
  <2>2. sec % Fractions = sec
    BY <1>1, Remainder
  <2> QED BY <1>1, <2>1, <2>2, Zenon DEF sum
<1>3. CASE Fractions <= sum
  <2>1. sum % Fractions = sum - Fractions
    BY <1>1, <1>3, Remainder
  <2>2. (sec - Fractions) % Fractions = sec
    BY <1>1, Remainder
  <2> QED BY <1>1, <2>1, <2>2, Zenon DEF sum
<1> QED BY <1>1, <1>2, <1>3

(* A reading of the clock, sent as an NTP timestamp and converted back, is  *)
(* the reading rounded down to a value that has an exact fraction.          *)
LEMMA WireTruncates ==
    ASSUME NEW ns \in Era
    PROVE  Wire(ns) = Truncated(ns)
<1> DEFINE q == ns \div Nanoseconds
           r == ns % Nanoseconds
           g == FromFraction(Fraction(r))
<1>1. ns \in Nat /\ ns < Fractions * Nanoseconds
  BY Scale DEF Era
<1>2. q \in Nat /\ q < Fractions
  BY <1>1, Scale, QuotientBounds
<1>3. (((q + EpochOffset) % Fractions) - EpochOffset) % Fractions = q
  <2>1. q \in 0..Fractions - 1
    BY <1>2, Scale
  <2> QED BY <2>1, EpochRoundTrip
<1>4. Truncated(ns) = q * Nanoseconds + g /\ Truncated(ns) \in {ns - 1, ns} \cap Nat
  BY <1>1, TruncatedLosesOne DEF Truncated
<1>5. Truncated(ns) % Word = Truncated(ns)
  <2>1. Truncated(ns) \in Int /\ 0 <= Truncated(ns) /\ Truncated(ns) < Word
    BY <1>1, <1>4, Scale
  <2> QED BY <2>1, Scale, Remainder
<1>6. Wire(ns) = (q * Nanoseconds + g) % Word
  BY <1>3, Zenon DEF Wire, timestamp_to_nsec, timestamp_to_timespec, timespec_to_timestamp,
                     nanosecondsToTimespec
<1> QED BY <1>4, <1>5, <1>6, Zenon

(* What a time read back from a packet is: at most a nanosecond early, and  *)
(* never later than a later time.  An interval of whole seconds is exact.   *)
THEOREM WireLosesOne ==
    /\ \A ns \in Era : Wire(ns) \in {ns - 1, ns} \cap Nat
    /\ \A a, b \in Era : a <= b => Wire(a) <= Wire(b)
    /\ \A a \in Era, k \in Nat :
          a + k * Nanoseconds \in Era => Wire(a + k * Nanoseconds) = Wire(a) + k * Nanoseconds
<1>1. \A ns \in Era : ns \in Nat
  BY Scale DEF Era
<1>2. ASSUME NEW ns \in Era PROVE Wire(ns) \in {ns - 1, ns} \cap Nat
  BY <1>1, WireTruncates, TruncatedLosesOne
<1>3. ASSUME NEW a \in Era, NEW b \in Era, a <= b PROVE Wire(a) <= Wire(b)
  <2>1. CASE a = b
    BY <1>2, <2>1
  <2>2. CASE a < b
    BY <1>1, <1>2, <2>2
  <2> QED BY <1>1, <1>3, <2>1, <2>2
<1>4. ASSUME NEW a \in Era, NEW k \in Nat, a + k * Nanoseconds \in Era
      PROVE  Wire(a + k * Nanoseconds) = Wire(a) + k * Nanoseconds
  BY <1>1, <1>4, WireTruncates, TruncatedShift, Zenon
<1> QED BY <1>2, <1>3, <1>4

-----------------------------------------------------------------------------
(* Delays                                                                   *)

(* The difference of two times of the era, in a uint64_t: exact if it is    *)
(* not negative, and otherwise wrapped to more than any real delay.         *)
LEMMA MinusWraps ==
    ASSUME NEW a \in Era, NEW b \in Era
    PROVE  /\ Minus(a, b) \in Nat
           /\ Minus(a, b) = IF b <= a THEN a - b ELSE a - b + Word
<1>1. /\ a \in Nat /\ b \in Nat /\ a - b \in Int /\ a - b < Word /\ -Word <= a - b
      /\ Word \in Nat \ {0} /\ a - b + Word \in Nat
  BY Scale DEF Era
<1>2. /\ 0 <= a - b => (a - b) % Word = a - b
      /\ a - b < 0 => (a - b) % Word = a - b + Word
  BY <1>1, Remainder
<1> QED BY <1>1, <1>2 DEF Minus

(* A time of the clock, kept as it is or sent as an NTP timestamp.          *)
AsKept(x) == {x, Wire(x)}

(* A time span from a time that went through a timestamp to one that may    *)
(* have: not negative, and off by at most a nanosecond.                     *)
LEMMA SpanExact ==
    ASSUME NEW a \in Era, NEW x \in Era, a <= x, NEW y \in AsKept(x)
    PROVE  Wire(a) <= y /\ Minus(y, Wire(a)) - (x - a) \in -1..1
<1>1. /\ a \in Nat /\ x \in Nat /\ Wire(a) \in {a - 1, a} \cap Nat
      /\ Wire(x) \in {x - 1, x} \cap Nat /\ Wire(a) <= Wire(x)
  BY Scale, WireLosesOne DEF Era
<1>2. y \in {x - 1, x} \cap Nat /\ Wire(a) <= y
  BY <1>1 DEF AsKept
<1>3. Wire(a) \in Era /\ y \in Era
  BY <1>1, <1>2, Scale DEF Era
<1>4. Minus(y, Wire(a)) = y - Wire(a)
  BY <1>2, <1>3, MinusWraps
<1> HIDE DEF AsKept
<1> QED BY <1>1, <1>2, <1>4

(* An age that exceeds a number of seconds once both times went through     *)
(* timestamps really does: the rounding does not make entries expire early. *)
LEMMA NoEarlyAge ==
    ASSUME NEW a \in Era, NEW b \in Era, a <= b, NEW k \in Nat,
           Minus(Wire(b), Wire(a)) > k * Nanoseconds
    PROVE  b - a > k * Nanoseconds
<1> DEFINE limit == k * Nanoseconds
<1>1. a \in Nat /\ b \in Nat /\ limit \in Nat
  BY Scale DEF Era
<1>2. Wire(a) \in {a - 1, a} \cap Nat /\ Wire(b) \in {b - 1, b} \cap Nat /\ Wire(a) <= Wire(b)
  BY WireLosesOne
<1>3. Wire(a) \in Era /\ Wire(b) \in Era
  BY <1>1, <1>2, Scale DEF Era
<1>4. Minus(Wire(b), Wire(a)) = Wire(b) - Wire(a)
  BY <1>2, <1>3, MinusWraps
<1>5. Wire(b) - Wire(a) > limit
  BY <1>4
<1>6. Truncated(a + limit) = Wire(a) + limit /\ Truncated(a + limit) \in {a + limit - 1, a + limit} \cap Nat
  BY <1>1, TruncatedShift, TruncatedLosesOne, WireTruncates
<1>7. b # a + limit
  BY <1>1, <1>2, <1>5, <1>6, WireTruncates
<1> HIDE DEF limit
<1>8. b - a > limit
  BY <1>1, <1>2, <1>5, <1>6, <1>7
<1> QED BY <1>8 DEF limit

(* Earlier times of an era are in it.                                       *)
LEMMA EraBegins == ASSUME NEW b \in Era, NEW a \in Nat, a <= b PROVE a \in Era
BY Scale DEF Era

(* Two clocks that run at the same rate see the same span.                  *)
LEMMA SameSpan ==
    ASSUME NEW a \in Nat, NEW b \in Nat, NEW c \in Nat, NEW d \in Nat, a - b = c - d, d <= b
    PROVE  c <= a /\ a - c = b - d
OBVIOUS

(* A timespec made of nanoseconds has as many.                              *)
LEMMA InNanosecondsExact ==
    ASSUME NEW x \in Nat
    PROVE  InNanoseconds(nanosecondsToTimespec(x)) = x
<1>1. Nanoseconds \in Nat \ {0} /\ x \in Int
  BY Scale
<1>2. x = Nanoseconds * (x \div Nanoseconds) + (x % Nanoseconds) /\ x \div Nanoseconds \in Int
  BY <1>1, Division
<1>3. Nanoseconds * (x \div Nanoseconds) = (x \div Nanoseconds) * Nanoseconds
  BY <1>1, <1>2
<1> QED BY <1>2, <1>3, Zenon DEF InNanoseconds, nanosecondsToTimespec

(* safe_tspecplus adds.                                                     *)
LEMMA SumExact ==
    ASSUME NEW x \in Nat, NEW y \in Nat
    PROVE  InNanoseconds(safe_tspecplus(nanosecondsToTimespec(x), nanosecondsToTimespec(y))) = x + y
<1> DEFINE a == nanosecondsToTimespec(x)
           b == nanosecondsToTimespec(y)
           nsec == a.tv_nsec + b.tv_nsec
           carry == nsec \div Nanoseconds
           rest == nsec % Nanoseconds
<1>1. /\ a.tv_sec \in Int /\ b.tv_sec \in Int /\ a.tv_nsec \in Int /\ b.tv_nsec \in Int
      /\ Nanoseconds \in Nat \ {0}
  BY Scale, Division DEF nanosecondsToTimespec
<1>2. a.tv_sec * Nanoseconds + a.tv_nsec = x /\ b.tv_sec * Nanoseconds + b.tv_nsec = y
  BY InNanosecondsExact DEF InNanoseconds
<1> HIDE DEF a, b
<1>3. nsec \in Int /\ carry \in Int /\ rest \in Int /\ nsec = Nanoseconds * carry + rest
  <2>1. nsec \in Int
    BY <1>1
  <2>2. carry \in Int /\ rest \in 0..Nanoseconds - 1 /\ nsec = Nanoseconds * carry + rest
    BY <1>1, <2>1, Division, Zenon
  <2> HIDE DEF nsec, carry, rest
  <2> QED BY <1>1, <2>1, <2>2
<1>4. InNanoseconds(safe_tspecplus(a, b)) = (a.tv_sec + b.tv_sec + carry) * Nanoseconds + rest
  BY DEF InNanoseconds, safe_tspecplus
<1> HIDE DEF carry, rest
<1>5. (a.tv_sec + b.tv_sec + carry) * Nanoseconds + rest
        = a.tv_sec * Nanoseconds + b.tv_sec * Nanoseconds + nsec
  BY <1>1, <1>3
<1>6. InNanoseconds(safe_tspecplus(a, b)) = x + y
  BY <1>1, <1>2, <1>4, <1>5
<1> QED BY <1>6 DEF a, b

(* A packet is marked as in sync if neither of its two delays is negative:  *)
(* the RTT and the sum of the three delays are the same number.             *)
LEMMA SyncIsSign ==
    ASSUME NEW cs \in Int, NEW sc \in Int, NEW int \in Int, NEW rtt \in Nat,
           rtt = (cs + sc + int) % Word
    PROVE  Sync([internal_delay |-> int, client_server_delay |-> cs, server_client_delay |-> sc,
                 rtt |-> rtt])
             <=> 0 <= cs /\ 0 <= sc
<1>1. isWithinEpsilon(rtt, rtt)
  BY DEF isWithinEpsilon
<1>2. isWithinEpsilon(rtt, (cs + sc + int) % Word)
  BY <1>1, Zenon
<1> QED BY <1>2 DEF Sync

(* The statement of SyncMeansNoWrap for the times of one packet.            *)
LEMMA SyncExact ==
    ASSUME NEW t \in [client_send : Era, server_receive : Era, server_send : Era,
                      client_receive : Era],
           t.server_receive <= t.server_send
    PROVE  LET d == computeTimeData(t)
               s == Samples(t) IN
           Sync(d) <=> /\ InNanoseconds(s.client_server) = d.client_server_delay
                       /\ InNanoseconds(s.server_client) = d.server_client_delay
                       /\ InNanoseconds(s.rtt) + InNanoseconds(s.internal) = d.rtt
<1> DEFINE a == t.client_send
           b == t.server_receive
           c == t.server_send
           e == t.client_receive
<1>1. a \in Era /\ b \in Era /\ c \in Era /\ e \in Era /\ b <= c
  OBVIOUS
<1> DEFINE d == computeTimeData(t)
           s == Samples(t)
<1>2. d = [internal_delay |-> c - b, client_server_delay |-> b - a,
           server_client_delay |-> e - c, rtt |-> Minus(e, a)]
  BY Zenon DEF computeTimeData
<1>3. /\ Minus(b, a) \in Nat /\ Minus(e, c) \in Nat /\ Minus(c, b) \in Nat /\ Minus(e, a) \in Nat
      /\ Minus(b, a) = IF a <= b THEN b - a ELSE b - a + Word
      /\ Minus(e, c) = IF c <= e THEN e - c ELSE e - c + Word
      /\ Minus(c, b) = c - b
      /\ Minus(e, a) = IF a <= e THEN e - a ELSE e - a + Word
  BY <1>1, MinusWraps
<1>4. /\ InNanoseconds(s.client_server) = Minus(b, a)
      /\ InNanoseconds(s.server_client) = Minus(e, c)
      /\ InNanoseconds(s.internal) = Minus(c, b)
      /\ InNanoseconds(s.rtt) = Minus(b, a) + Minus(e, c)
  <2>1. /\ s.client_server = nanosecondsToTimespec(Minus(b, a))
        /\ s.server_client = nanosecondsToTimespec(Minus(e, c))
        /\ s.internal = nanosecondsToTimespec(Minus(c, b))
        /\ s.rtt = safe_tspecplus(nanosecondsToTimespec(Minus(b, a)),
                                  nanosecondsToTimespec(Minus(e, c)))
    BY DEF Samples
  <2> QED BY <1>3, <2>1, InNanosecondsExact, SumExact, Zenon
<1>5. /\ a \in Nat /\ b \in Nat /\ c \in Nat /\ e \in Nat
      /\ Word \in Nat \ {0}
  BY <1>1, Scale DEF Era
<1> HIDE DEF a, b, c, e, s
<1>6. Sync(d) <=> 0 <= b - a /\ 0 <= e - c
  <2>1. (b - a) + (e - c) + (c - b) = e - a
    BY <1>5
  <2>2. Minus(e, a) = ((b - a) + (e - c) + (c - b)) % Word
    BY <2>1, Zenon DEF Minus
  <2>3. b - a \in Int /\ e - c \in Int /\ c - b \in Int
    BY <1>5
  <2> QED BY <1>2, <1>3, <2>2, <2>3, SyncIsSign
<1>7. /\ d.client_server_delay = b - a /\ d.server_client_delay = e - c /\ d.rtt = Minus(e, a)
  BY <1>2
<1> HIDE DEF d
<1>8. Sync(d) <=> /\ Minus(b, a) = b - a /\ Minus(e, c) = e - c
                  /\ Minus(b, a) + Minus(e, c) + Minus(c, b) = Minus(e, a)
  BY <1>1, <1>3, <1>5, <1>6
<1> QED BY <1>4, <1>7, <1>8 DEF d, s
=============================================================================
