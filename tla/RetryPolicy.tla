----------------------------- MODULE RetryPolicy -----------------------------
(***************************************************************************)
(* Retry strategies and their delays (src/retry/strategy.rs,               *)
(* src/retry/presets.rs, src/types/duration.rs).  A delay in f64 is the    *)
(* fraction n / d; the randomness of jitter is a set of delays.  The       *)
(* widths of u32 and i32 are parameters.                                   *)
(***************************************************************************)
EXTENDS Integers, Sequences

CONSTANTS
  MaxU32,      \* u32::MAX
  MaxI32       \* i32::MAX

ASSUME WidthAssumption ==
  /\ MaxI32 \in Nat /\ MaxU32 \in Nat
  /\ 60 <= MaxI32 /\ MaxI32 <= MaxU32

AtMost(a, b) == IF a <= b THEN a ELSE b
AtLeast(a, b) == IF a >= b THEN a ELSE b

-----------------------------------------------------------------------------
(***************************************************************************)
(* Duration                                                                *)
(***************************************************************************)
U32 == 0..MaxU32
Duration == [days : U32, hours : U32, minutes : U32, seconds : U32]

Seconds(s) == [days |-> 0, hours |-> 0, minutes |-> 0, seconds |-> s]
Minutes(m) == [days |-> 0, hours |-> 0, minutes |-> m, seconds |-> 0]
Hours(h) == [days |-> 0, hours |-> h, minutes |-> 0, seconds |-> 0]
Days(d) == [days |-> d, hours |-> 0, minutes |-> 0, seconds |-> 0]

\* DurationBuilder: the units that were set, the others 0; nothing is carried.
Built(set) ==
  [unit \in {"days", "hours", "minutes", "seconds"} |->
     IF unit \in DOMAIN set THEN set[unit] ELSE 0]

IsZero(d) == d = Seconds(0)

\* to_seconds: a u64, in which the sum cannot overflow.
ToSeconds(d) == d.seconds + 60 * d.minutes + 3600 * d.hours + 86400 * d.days

\* to_millis: saturates at u64::MAX, which the longest duration does not reach.
ToMillis(d) == 1000 * ToSeconds(d)

\* to_seconds_i32_saturating
ToSecondsI32(d) == AtMost(ToSeconds(d), MaxI32)

\* MAX_TOTAL_SECONDS
MaxTotalSeconds == MaxU32 * 86400 + 23 * 3600 + 59 * 60 + 59

\* From<StdDuration>
FromSeconds(total) ==
  LET s == AtMost(total, MaxTotalSeconds)
  IN  [days |-> s \div 86400, hours |-> (s % 86400) \div 3600,
       minutes |-> (s % 3600) \div 60, seconds |-> s % 60]

\* Add
Plus(a, b) == FromSeconds(ToSeconds(a) + ToSeconds(b))

\* to_iso8601: the parts that are not zero, or zero seconds.
Parts(d) ==
  LET all == <<[unit |-> "D", number |-> d.days], [unit |-> "H", number |-> d.hours],
               [unit |-> "M", number |-> d.minutes], [unit |-> "S", number |-> d.seconds]>>
      IsSome(part) == part.number > 0
      some == SelectSeq(all, IsSome)
  IN  IF some = <<>> THEN <<[unit |-> "S", number |-> 0]>> ELSE some

\* parse_iso8601: parts in any order, the last of each unit.
Parsed(parts) ==
  LET Number(unit) ==
        LET at == {i \in DOMAIN parts : parts[i].unit = unit}
        IN  IF at = {} THEN 0 ELSE parts[CHOOSE i \in at : \A j \in at : j <= i].number
  IN  [days |-> Number("D"), hours |-> Number("H"), minutes |-> Number("M"),
       seconds |-> Number("S")]

-----------------------------------------------------------------------------
(***************************************************************************)
(* Strategies.  A rate is num / den; an error is the set of the patterns   *)
(* its message contains.                                                   *)
(***************************************************************************)
Jitters == {"None", "Full", "Half", "Equal"}

\* round() of n / d
Rounded(x) == (2 * x.n + x.d) \div (2 * x.d)

\* base_delay_secs: initial_delay * backoff_rate ^ (attempts_made - 1)
BaseDelay(s, attempts) ==
  [n |-> ToSeconds(s.initialDelay) * s.rate.num ^ (attempts - 1),
   d |-> s.rate.den ^ (attempts - 1)]

\* capped_delay_secs
Capped(x, max) == IF x.n < max * x.d THEN x ELSE [n |-> max, d |-> 1]

\* The ends of the range from which the jitter takes final_delay_secs.
Longest(x, jitter) == x
Shortest(x, jitter) ==
  CASE jitter = "None" -> x
    [] jitter = "Full" -> [n |-> 0, d |-> 1]
    [] jitter \in {"Half", "Equal"} -> [n |-> x.n, d |-> 2 * x.d]

\* final_delay_secs.max(1.0).round() as u32, for a delay rounded to r
WholeSeconds(r) == Seconds(AtMost(AtLeast(r, 1), MaxU32))

Jittered(x, jitter) ==
  {WholeSeconds(r) : r \in Rounded(Shortest(x, jitter))..Rounded(Longest(x, jitter))}

\* calculate_delay
CalculateDelay(s, attempts) ==
  Jittered(Capped(BaseDelay(s, attempts), ToSeconds(s.maxDelay)), s.jitter)

\* is_error_retryable
IsErrorRetryable(s, error) == s.patterns = {} \/ s.patterns \cap error # {}

Exponential(max, initial, cap, rate, jitter, patterns) ==
  [kind |-> "Exponential", maxAttempts |-> max, initialDelay |-> initial,
   maxDelay |-> cap, rate |-> rate, jitter |-> jitter, patterns |-> patterns]
Fixed(max) == [kind |-> "Fixed", maxAttempts |-> max]
Constant(max, delay) == [kind |-> "Constant", maxAttempts |-> max, delay |-> delay]
Never == [kind |-> "Never"]

\* should_retry
ShouldRetry(s, error, attempts) ==
  CASE s.kind = "Exponential" -> attempts < s.maxAttempts /\ IsErrorRetryable(s, error)
    [] s.kind \in {"Fixed", "Constant"} -> attempts < s.maxAttempts
    [] s.kind = "Never" -> FALSE

\* The delay of the decision, a second if it has none, as the seconds that RETRY
\* asks the service to wait.
RetryDelays(s, attempts) ==
  LET delays == CASE s.kind = "Exponential" -> CalculateDelay(s, attempts)
                  [] s.kind = "Constant" -> {s.delay}
                  [] s.kind = "Fixed" -> {Seconds(1)}
  IN  {ToSecondsI32(d) : d \in delays}

-----------------------------------------------------------------------------
Rate(num, den) == [num |-> num, den |-> den]

\* ExponentialBackoffBuilder::default
Builder == Exponential(3, Seconds(1), Minutes(5), Rate(2, 1), "Full", {})

\* presets.rs
Presets ==
  [default |-> Exponential(6, Seconds(5), Seconds(60), Rate(2, 1), "Full", {}),
   aggressive |-> Exponential(6, Seconds(1), Seconds(30), Rate(3, 2), "Full", {}),
   conservative |-> Exponential(10, Seconds(5), Minutes(5), Rate(2, 1), "Half", {}),
   network |-> Exponential(5, Seconds(2), Minutes(1), Rate(2, 1), "Full",
                           {"timeout", "connection", "network", "reset", "refused"}),
   database |-> Exponential(4, Seconds(1), Seconds(30), Rate(2, 1), "Equal",
                            {"lock", "deadlock", "conflict", "busy",
                             "too many connections"}),
   rateLimited |-> Exponential(8, Seconds(5), Minutes(2), Rate(2, 1), "Full",
                               {"rate limit", "throttle", "429", "too many requests"}),
   single |-> [Builder EXCEPT !.maxAttempts = 2, !.jitter = "None"],
   none |-> Never]
=============================================================================
