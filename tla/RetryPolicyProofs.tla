-------------------------- MODULE RetryPolicyProofs --------------------------
(***************************************************************************)
(* Bounds on the delays of RetryPolicy, the addition of durations, and the *)
(* updates that carry them.                                                *)
(***************************************************************************)
EXTENDS OperationUpdates, TLAPS

\* A duration is a number of seconds.
LEMMA SecondsType ==
  ASSUME NEW d \in Duration
  PROVE  ToSeconds(d) \in Nat
<1>1. /\ d.days \in Nat /\ d.hours \in Nat
      /\ d.minutes \in Nat /\ d.seconds \in Nat
  BY WidthAssumption DEF Duration, U32
<1> QED
  BY <1>1 DEF ToSeconds

\* Splitting a number of seconds into a Duration loses nothing up to the largest
\* Duration there is, and the parts are those of a clock.
LEMMA SplitExact ==
  ASSUME NEW t \in Nat
  PROVE  /\ FromSeconds(t) \in Duration
         /\ FromSeconds(t).hours < 24
         /\ FromSeconds(t).minutes < 60
         /\ FromSeconds(t).seconds < 60
         /\ ToSeconds(FromSeconds(t)) = AtMost(t, MaxTotalSeconds)
<1> DEFINE s == AtMost(t, MaxTotalSeconds)
<1>1. MaxU32 \in Nat /\ MaxU32 >= 60
  BY WidthAssumption
<1>2. s \in Nat /\ s <= 86400 * MaxU32 + 86399
  BY <1>1 DEF AtMost, MaxTotalSeconds
<1> HIDE DEF s
<1> DEFINE days == s \div 86400
           hours == (s % 86400) \div 3600
           minutes == (s % 3600) \div 60
           seconds == s % 60
<1>3. days \in U32 /\ hours \in 0..23 /\ minutes \in 0..59 /\ seconds \in 0..59
  BY <1>1, <1>2 DEF U32
<1>4. s = seconds + 60 * minutes + 3600 * hours + 86400 * days
  BY <1>1, <1>2
<1>5. FromSeconds(t) = [days |-> days, hours |-> hours, minutes |-> minutes,
                        seconds |-> seconds]
  BY DEF FromSeconds, s
<1>6. FromSeconds(t) \in Duration
  BY <1>1, <1>3, <1>5 DEF Duration, U32
<1>7. ToSeconds(FromSeconds(t)) = s
  BY <1>4, <1>5 DEF ToSeconds
<1> QED
  BY <1>3, <1>5, <1>6, <1>7 DEF s

\* The sum of two durations is exact unless it exceeds the largest Duration, and
\* the carry of every part goes to the next (types/duration.rs, Add).
THEOREM PlusIsExact ==
  ASSUME NEW a \in Duration, NEW b \in Duration
  PROVE  /\ Plus(a, b) \in Duration
         /\ ToSeconds(Plus(a, b)) = AtMost(ToSeconds(a) + ToSeconds(b), MaxTotalSeconds)
<1>1. ToSeconds(a) + ToSeconds(b) \in Nat
  BY SecondsType
<1> QED
  BY <1>1, SplitExact DEF Plus

\* Rounding a fraction that is at most a whole number does not exceed it.
LEMMA RoundedWithin ==
  ASSUME NEW n \in Nat, NEW d \in Nat \ {0}, NEW max \in Nat, n <= max * d
  PROVE  Rounded([n |-> n, d |-> d]) \in 0..max
<1> DEFINE p == max * d
           q == (2 * n + d) \div (2 * d)
<1>1. p \in Nat /\ n <= p
  OBVIOUS
<1>2. q \in Nat /\ q * (2 * d) <= 2 * n + d
  OBVIOUS
<1>3. ASSUME q >= max + 1 PROVE FALSE
  <2>1. q * (2 * d) >= (max + 1) * (2 * d)
    BY <1>2, <1>3
  <2>2. (max + 1) * (2 * d) = 2 * p + 2 * d
    OBVIOUS
  <2> QED
    BY <1>1, <1>2, <2>1, <2>2
<1>4. Rounded([n |-> n, d |-> d]) = q
  BY DEF Rounded
<1> QED
  BY <1>2, <1>3, <1>4

\* Whatever the rate, the attempt and the jitter, a retry is asked for after at
\* least a second and at most max_delay (or a second, if that is shorter), in an
\* i32 that does not wrap (retry/strategy.rs, step/execute.rs).
THEOREM DelaysAreBounded ==
  ASSUME NEW s, s.kind = "Exponential", s.jitter \in Jitters, s.maxDelay \in Duration,
         NEW attempts, NEW n \in Nat, NEW d \in Nat \ {0},
         BaseDelay(s, attempts) = [n |-> n, d |-> d]
  PROVE  \A t \in RetryDelays(s, attempts) :
           /\ 1 <= t /\ t <= AtLeast(ToSeconds(s.maxDelay), 1)
           /\ t <= MaxI32
<1> DEFINE max == ToSeconds(s.maxDelay)
           x == Capped([n |-> n, d |-> d], max)
<1>1. max \in Nat
  BY SecondsType
<1>2. PICK xn \in Nat, xd \in Nat \ {0} :
        x = [n |-> xn, d |-> xd] /\ xn <= max * xd
  <2> HIDE DEF max
  <2>1. CASE n < max * d
    BY <1>1, <2>1 DEF Capped
  <2>2. CASE ~(n < max * d)
    BY <1>1, <2>2 DEF Capped
  <2> QED
    BY <2>1, <2>2
<1> HIDE DEF max, x
<1>3. Rounded(Longest(x, s.jitter)) \in 0..max
  BY <1>1, <1>2, RoundedWithin DEF Longest
<1>4. \A r \in Rounded(Shortest(x, s.jitter))..Rounded(Longest(x, s.jitter)) :
        r \in Int /\ r <= max
  BY <1>1, <1>3
<1>5. ASSUME NEW r \in Int, r <= max
      PROVE  LET t == ToSecondsI32(WholeSeconds(r))
             IN  1 <= t /\ t <= AtLeast(max, 1) /\ t <= MaxI32
  BY <1>1, <1>5, WidthAssumption
     DEF ToSecondsI32, WholeSeconds, Seconds, ToSeconds, AtMost, AtLeast
<1>6. RetryDelays(s, attempts)
        = {ToSecondsI32(w) : w \in Jittered(x, s.jitter)}
  BY DEF RetryDelays, CalculateDelay, x, max
<1> QED
  BY <1>4, <1>5, <1>6 DEF Jittered, max

\* No operation's update is refused before it is sent, whatever its durations: a
\* wait, a callback's timeouts and a retry's delay saturate instead of going
\* negative; only an invoke without a name is refused (types/invocation.rs, build).
THEOREM UpdatesAreBuilt ==
  /\ \A d \in Duration : IsBuilt(WaitUpdate(d)) /\ IsBuilt(ContinueUpdate(d))
  /\ \A d \in Duration : \A error : IsBuilt(RetryUpdate(d, error))
  /\ \A timeout, heartbeat \in SUBSET Duration : IsBuilt(CallbackUpdate(timeout, heartbeat))
  /\ \A name : IsBuilt(InvokeUpdate(name)) <=> name # "blank"
<1>1. \A d \in Duration : ToSecondsI32(d) >= 0
  BY SecondsType, WidthAssumption DEF ToSecondsI32, AtMost
<1>2. \A d \in Duration : IsBuilt(WaitUpdate(d))
  BY <1>1 DEF IsBuilt, WaitUpdate, NewUpdate
<1>3. \A d \in Duration : IsBuilt(ContinueUpdate(d))
  BY <1>1 DEF IsBuilt, ContinueUpdate, NewUpdate
<1>4. \A d \in Duration : \A error : IsBuilt(RetryUpdate(d, error))
  BY <1>1 DEF IsBuilt, RetryUpdate, NewUpdate
<1>5. \A timeout, heartbeat \in SUBSET Duration : IsBuilt(CallbackUpdate(timeout, heartbeat))
  BY <1>1 DEF IsBuilt, CallbackUpdate, NewUpdate
<1>6. \A name : IsBuilt(InvokeUpdate(name)) <=> name # "blank"
  BY DEF IsBuilt, InvokeUpdate, NewUpdate
<1> QED
  BY <1>2, <1>3, <1>4, <1>5, <1>6
=============================================================================
