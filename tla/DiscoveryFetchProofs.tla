-------------------------- MODULE DiscoveryFetchProofs --------------------------
(***************************************************************************)
(* What a discovery fetch promises, for every page size, limit, number of  *)
(* attempts and timeout: the SERP1 polling ends in time and times out for  *)
(* a reason, the AGG-1 paging skips nothing, and a run that succeeds with  *)
(* nothing met an empty source.                                            *)
(***************************************************************************)
EXTENDS DiscoveryFetch, TLAPS, SequenceTheorems, FiniteSetTheorems

--------------------------------------------------------------------------------
(* SERP1: the polling.                                                     *)

\* What the time of the polling never exceeds.
PollingTime == Serp1!Timeout + MaxRequestTime + Serp1!Interval

\* The polling is within its bounds, and has not begun before the task is posted.
InBounds ==
  /\ asked \in Serp1!Params
  /\ attempt \in 1..Serp1!MaxAttempts
  /\ now \in Nat /\ now <= PollingTime
  /\ phase \in {"idle", "submitting"} => attempt = 1 /\ now = 0

\* A fetch fails once, and a poll that saw the task ready is the last.
FailsOnce ==
  /\ phase # "done" => failure = "none"
  /\ phase \in {"idle", "submitting", "polling"} => lastPoll # "ready"
  /\ TimeoutIsReal

\* The strengthening.
Serp1Inv == InBounds /\ FailsOnce

\* The bounds of a fetch are positive whatever was asked for.
LEMMA BoundsPositive ==
  ASSUME NEW a \in PollNumbers \cup {Absent}, NEW low \in Nat \ {0},
         NEW default \in Nat \ {0}
  PROVE  /\ Serp1!AtLeast(low, a, default) \in Nat \ {0}
         /\ Serp1!AtLeast(low, a, default) >= low
BY DiscoveryAssumption DEF Serp1!AtLeast, Serp1!Coerce, Serp1!Serp1Constants

\* The three bounds of the polling, before and after a step.
LEMMA PollingLimits ==
  /\ asked \in Serp1!Params => /\ Serp1!MaxAttempts \in Nat \ {0}
                               /\ Serp1!Timeout \in Nat /\ Serp1!Interval \in Nat
                               /\ PollingTime \in Nat
  /\ asked' \in Serp1!Params => /\ Serp1!MaxAttempts' \in Nat \ {0}
                                /\ PollingTime' \in Nat
  /\ MaxRequestTime \in Nat
  <1>1. /\ {DefaultAttempts, DefaultInterval, DefaultTimeout, MinInterval, MinTimeout}
             \subseteq Nat \ {0}
        /\ MaxRequestTime \in Nat
    BY DiscoveryAssumption DEF Serp1!Serp1Constants
  <1>2. ASSUME NEW a \in Serp1!Params
        PROVE  /\ a.attempts \in PollNumbers \cup {Absent}
               /\ a.interval \in PollNumbers \cup {Absent}
               /\ a.timeout \in PollNumbers \cup {Absent}
    BY <1>2 DEF Serp1!Params
  <1>3. 1 \in Nat \ {0}
    OBVIOUS
  <1>4. ASSUME NEW a \in Serp1!Params
        PROVE  /\ Serp1!AtLeast(1, a.attempts, DefaultAttempts) \in Nat \ {0}
               /\ Serp1!AtLeast(MinInterval, a.interval, DefaultInterval) \in Nat
               /\ Serp1!AtLeast(MinTimeout, a.timeout, DefaultTimeout) \in Nat
               /\ Serp1!AtLeast(MinTimeout, a.timeout, DefaultTimeout) + MaxRequestTime
                    + Serp1!AtLeast(MinInterval, a.interval, DefaultInterval) \in Nat
    <2>1. Serp1!AtLeast(1, a.attempts, DefaultAttempts) \in Nat \ {0}
      BY <1>1, <1>2, <1>3, <1>4, BoundsPositive
    <2>2. Serp1!AtLeast(MinInterval, a.interval, DefaultInterval) \in Nat
      BY <1>1, <1>2, <1>4, BoundsPositive
    <2>3. Serp1!AtLeast(MinTimeout, a.timeout, DefaultTimeout) \in Nat
      BY <1>1, <1>2, <1>4, BoundsPositive
    <2>4. \A x, y, z \in Nat : x + y + z \in Nat
      OBVIOUS
    <2>5. QED
      BY <1>1, <2>1, <2>2, <2>3, <2>4
  <1>5. QED
    BY <1>1, <1>4 DEF Serp1!MaxAttempts, Serp1!Timeout, Serp1!Interval, PollingTime

\* A parameter found missing has a refusal of its own, which is no timeout.
LEMMA RefusalIsNoTimeout ==
  ASSUME NEW a, Serp1!Missing(a) # {}
  PROVE  /\ Serp1!Min(Serp1!Missing(a)) \in {1, 2, 3, 4}
         /\ Serp1!Refusal[Serp1!Min(Serp1!Missing(a))] # "readiness timeout"
  <1> DEFINE S == Serp1!Missing(a)
  <1>1. S \subseteq {1, 2, 3, 4} /\ S # {}
    BY DEF Serp1!Missing, Serp1!Required
  <1> HIDE DEF S
  <1>2. \E x \in S : \A y \in S : x <= y
    <2>1. CASE 1 \in S
      BY <1>1, <2>1
    <2>2. CASE 1 \notin S /\ 2 \in S
      BY <1>1, <2>2
    <2>3. CASE 1 \notin S /\ 2 \notin S /\ 3 \in S
      BY <1>1, <2>3
    <2>4. CASE S = {4}
      BY <2>4
    <2>5. QED
      BY <1>1, <2>1, <2>2, <2>3, <2>4
  <1>3. Serp1!Min(S) \in {1, 2, 3, 4}
    BY <1>1, <1>2 DEF Serp1!Min
  <1>4. ASSUME NEW n \in {1, 2, 3, 4}
        PROVE  Serp1!Refusal[n] # "readiness timeout"
    <2>1. /\ Serp1!Refusal[1] = "requires login" /\ Serp1!Refusal[2] = "requires query"
          /\ Serp1!Refusal[3] = "requires location"
          /\ Serp1!Refusal[4] = "requires language"
      BY DEF Serp1!Refusal
    <2>2. QED
      BY <2>1
  <1>5. QED
    BY <1>3, <1>4 DEF S

\* A poll begun in time ends within the bound, and so does the pause after it.
LEMMA PollInTime ==
  ASSUME NEW limit \in Nat, NEW pause \in Nat, NEW slowest \in Nat, NEW n \in Nat,
         n <= limit, NEW t \in 0..slowest
  PROVE  /\ n + t \in Nat /\ n + t <= limit + slowest + pause
         /\ n + t + pause \in Nat /\ n + t + pause <= limit + slowest + pause
OBVIOUS

\* A step that asks for nothing new keeps the bounds.
LEMMA SameLimits ==
  ASSUME asked' = asked
  PROVE  /\ Serp1!MaxAttempts' = Serp1!MaxAttempts
         /\ Serp1!Timeout' = Serp1!Timeout
         /\ PollingTime' = PollingTime
BY DEF Serp1!MaxAttempts, Serp1!Timeout, Serp1!Interval, PollingTime

\* The bounds hold after each step of the connector.
LEMMA InBoundsStep ==
  ASSUME InBounds, Serp1!Next
  PROVE  InBounds'
  <1>1. CASE Serp1!FetchRawJobs
    <2>1. /\ asked' \in Serp1!Params /\ attempt' = 1 /\ now' = 0
      BY <1>1 DEF Serp1!FetchRawJobs, InBounds
    <2>2. Serp1!MaxAttempts' \in Nat \ {0} /\ PollingTime' \in Nat
      BY <2>1, PollingLimits
    <2>3. \A m \in Nat \ {0}, n \in Nat : 1 \in 1..m /\ 0 \in Nat /\ 0 <= n
      OBVIOUS
    <2>4. attempt' \in 1..Serp1!MaxAttempts' /\ now' \in Nat /\ now' <= PollingTime'
      BY <2>1, <2>2, <2>3
    <2>5. QED
      BY <2>1, <2>4 DEF InBounds
  <1>2. ASSUME UNCHANGED <<asked, attempt, now>>,
               phase' \in {"idle", "submitting"} => phase \in {"idle", "submitting"}
        PROVE  InBounds'
    <2>1. Serp1!MaxAttempts' = Serp1!MaxAttempts /\ PollingTime' = PollingTime
      BY <1>2, SameLimits
    <2>2. attempt' \in 1..Serp1!MaxAttempts' /\ now' \in Nat /\ now' <= PollingTime'
      BY <1>2, <2>1 DEF InBounds
    <2>3. QED
      BY <1>2, <2>2 DEF InBounds
  <1>3. CASE \/ Serp1!TaskTaken \/ Serp1!TaskRefused \/ Serp1!TaskPostLost
             \/ Serp1!ProviderFinishes \/ Serp1!RequestBroken \/ Serp1!ReadRefused
             \/ Serp1!ReadResult \/ Serp1!ReadNoList \/ Serp1!PollOutOfTime
             \/ Serp1!PollRefused
    BY <1>2, <1>3 DEF Serp1!TaskTaken, Serp1!TaskRefused, Serp1!TaskPostLost,
       Serp1!ProviderFinishes, Serp1!RequestBroken, Serp1!ReadRefused, Serp1!ReadResult,
       Serp1!ReadNoList, Serp1!PollOutOfTime, Serp1!PollRefused, Serp1!Fail
  <1>4. CASE Serp1!PollSeesReady \/ Serp1!PollSeesNothing
    <2>1. /\ asked' = asked /\ phase' \in {"polling", "reading", "done"}
          /\ now <= Serp1!Timeout
          /\ \/ attempt' = attempt
             \/ attempt < Serp1!MaxAttempts /\ attempt' = attempt + 1
      BY <1>4 DEF Serp1!PollSeesReady, Serp1!PollSeesNothing, Serp1!Polling, Serp1!Fail
    <2>2. PICK t \in 0..MaxRequestTime : now' = now + t \/ now' = now + t + Serp1!Interval
      BY <1>4 DEF Serp1!PollSeesReady, Serp1!PollSeesNothing, Serp1!Polling
    <2>3. /\ Serp1!MaxAttempts \in Nat \ {0} /\ Serp1!Timeout \in Nat
          /\ Serp1!Interval \in Nat /\ MaxRequestTime \in Nat
          /\ now \in Nat /\ attempt \in 1..Serp1!MaxAttempts
      BY PollingLimits DEF InBounds
    <2>4. now' \in Nat /\ now' <= PollingTime
      BY <2>1, <2>2, <2>3, PollInTime DEF PollingTime
    <2>5. \A m \in Nat : \A a \in 1..m : a < m => a + 1 \in 1..m
      OBVIOUS
    <2>6. attempt' \in 1..Serp1!MaxAttempts
      BY <2>1, <2>3, <2>5
    <2>7. Serp1!MaxAttempts' = Serp1!MaxAttempts /\ PollingTime' = PollingTime
      BY <2>1, SameLimits
    <2>8. attempt' \in 1..Serp1!MaxAttempts' /\ now' <= PollingTime'
      BY <2>4, <2>6, <2>7
    <2>9. QED
      BY <2>1, <2>4, <2>8 DEF InBounds
  <1>5. QED
    BY <1>1, <1>3, <1>4 DEF Serp1!Next

\* So do the rules of failure.
LEMMA FailsOnceStep ==
  ASSUME InBounds, FailsOnce, Serp1!Next
  PROVE  FailsOnce'
  <1>1. CASE Serp1!FetchRawJobs
    <2>1. /\ phase' \in {"submitting", "done"} /\ lastPoll' = lastPoll
          /\ phase' = "submitting" => failure' = "none"
          /\ lastPoll # "ready"
      BY <1>1 DEF Serp1!FetchRawJobs, FailsOnce
    <2>2. failure' # "readiness timeout"
      <3>1. CASE Serp1!Missing(asked') = {}
        BY <1>1, <3>1 DEF Serp1!FetchRawJobs, FailsOnce
      <3>2. CASE Serp1!Missing(asked') # {}
        <4>1. failure' = Serp1!Refusal[Serp1!Min(Serp1!Missing(asked'))]
          BY <1>1, <3>2 DEF Serp1!FetchRawJobs
        <4>2. QED
          BY <3>2, <4>1, RefusalIsNoTimeout
      <3>3. QED
        BY <3>1, <3>2
    <2>3. QED
      BY <2>1, <2>2 DEF FailsOnce, TimeoutIsReal, Serp1!TimeoutIsReal
  <1>2. CASE Serp1!TaskTaken \/ Serp1!TaskRefused \/ Serp1!TaskPostLost
    BY <1>2 DEF Serp1!TaskTaken, Serp1!TaskRefused, Serp1!TaskPostLost, Serp1!Fail,
       FailsOnce, TimeoutIsReal, Serp1!TimeoutIsReal
  <1>3. CASE Serp1!ProviderFinishes
    BY <1>3 DEF Serp1!ProviderFinishes, FailsOnce, TimeoutIsReal, Serp1!TimeoutIsReal
  <1>4. CASE \/ Serp1!RequestBroken \/ Serp1!ReadRefused
             \/ Serp1!ReadResult \/ Serp1!ReadNoList
    BY <1>4 DEF Serp1!RequestBroken, Serp1!ReadRefused, Serp1!ReadResult,
       Serp1!ReadNoList, Serp1!Fail, Serp1!Polling,
       FailsOnce, TimeoutIsReal, Serp1!TimeoutIsReal
  <1>5. CASE Serp1!PollOutOfTime
    <2>1. Serp1!Timeout' = Serp1!Timeout /\ Serp1!MaxAttempts' = Serp1!MaxAttempts
      BY <1>5, SameLimits DEF Serp1!PollOutOfTime, Serp1!Fail
    <2>2. (now > Serp1!Timeout)' <=> now > Serp1!Timeout
      BY <1>5, <2>1 DEF Serp1!PollOutOfTime
    <2>3. QED
      BY <1>5, <2>2 DEF Serp1!PollOutOfTime, Serp1!Fail, FailsOnce, TimeoutIsReal,
         Serp1!TimeoutIsReal
  <1>6. CASE Serp1!PollSeesReady
    BY <1>6 DEF Serp1!PollSeesReady, Serp1!Polling, FailsOnce, TimeoutIsReal,
       Serp1!TimeoutIsReal
  <1>7. CASE Serp1!PollRefused
    BY <1>7 DEF Serp1!PollRefused, Serp1!Polling, Serp1!Fail, FailsOnce, TimeoutIsReal,
       Serp1!TimeoutIsReal
  <1>8. CASE Serp1!PollSeesNothing
    <2>1. /\ phase = "polling" /\ task # "ready" /\ lastPoll' = task
          /\ \/ phase' = phase /\ failure' = failure
             \/ /\ phase' = "done" /\ ~(attempt < Serp1!MaxAttempts)
                /\ attempt' = attempt /\ asked' = asked
      BY <1>8 DEF Serp1!PollSeesNothing, Serp1!Polling, Serp1!Fail
    <2>2. \A m \in Nat : \A a \in 1..m : ~(a < m) => a = m
      OBVIOUS
    <2>3. attempt \in 1..Serp1!MaxAttempts /\ Serp1!MaxAttempts \in Nat
      BY PollingLimits DEF InBounds
    <2>4. CASE phase' = phase /\ failure' = failure
      BY <2>1, <2>4 DEF FailsOnce, TimeoutIsReal, Serp1!TimeoutIsReal
    <2>5. CASE /\ phase' = "done" /\ ~(attempt < Serp1!MaxAttempts)
               /\ attempt' = attempt /\ asked' = asked
      <3>1. attempt' = Serp1!MaxAttempts'
        BY <2>2, <2>3, <2>5, SameLimits
      <3>2. QED
        BY <2>1, <2>5, <3>1 DEF FailsOnce, TimeoutIsReal, Serp1!TimeoutIsReal
    <2>6. QED
      BY <2>1, <2>4, <2>5
  <1>9. QED
    BY <1>1, <1>2, <1>3, <1>4, <1>5, <1>6, <1>7, <1>8 DEF Serp1!Next

\* The strengthening is an invariant of run_discovery.
LEMMA Serp1Invariance == Spec => []Serp1Inv
  <1>1. Init => Serp1Inv
    <2>1. SUFFICES ASSUME Init
                   PROVE  Serp1Inv
      OBVIOUS
    <2>2. /\ asked = Serp1!NoParams /\ attempt = 1 /\ now = 0 /\ phase = "idle"
          /\ failure = "none" /\ lastPoll = "none"
      BY <2>1 DEF Init, Serp1!Init
    <2>3. asked \in Serp1!Params
      BY <2>2 DEF Serp1!NoParams, Serp1!Params
    <2>4. InBounds
      <3>1. Serp1!MaxAttempts \in Nat \ {0} /\ PollingTime \in Nat
        BY <2>3, PollingLimits
      <3>2. attempt \in 1..Serp1!MaxAttempts /\ now \in Nat /\ now <= PollingTime
        BY <2>2, <3>1
      <3>3. QED
        BY <2>2, <2>3, <3>2 DEF InBounds
    <2>5. FailsOnce
      BY <2>2 DEF FailsOnce, TimeoutIsReal, Serp1!TimeoutIsReal
    <2>6. QED
      BY <2>4, <2>5 DEF Serp1Inv
  <1>2. Serp1Inv /\ [Next]_vars => Serp1Inv'
    <2>1. SUFFICES ASSUME Serp1Inv, [Next]_vars
                   PROVE  Serp1Inv'
      OBVIOUS
    <2>2. CASE Serp1Step
      BY <2>1, <2>2, InBoundsStep, FailsOnceStep DEF Serp1Step, Serp1Inv
    <2>3. CASE UNCHANGED serp1
      <3>1. /\ UNCHANGED <<asked, attempt, now, phase, failure, lastPoll>>
            /\ Serp1!MaxAttempts' = Serp1!MaxAttempts
            /\ Serp1!Timeout' = Serp1!Timeout /\ PollingTime' = PollingTime
        BY <2>3, SameLimits DEF serp1
      <3>2. InBounds'
        BY <2>1, <3>1 DEF Serp1Inv, InBounds
      <3>3. FailsOnce'
        BY <2>1, <3>1 DEF Serp1Inv, FailsOnce, TimeoutIsReal, Serp1!TimeoutIsReal
      <3>4. QED
        BY <3>2, <3>3 DEF Serp1Inv
    <2>4. QED
      BY <2>1, <2>2, <2>3 DEF Next, NotDispatched, Agg1Step, Persist, vars
  <1>3. QED
    BY <1>1, <1>2, PTL DEF Spec

\* Whatever attempts, interval and timeout are asked for, the polling of a SERP1
\* task ends within them, one request and one pause.
THEOREM PollingIsBounded == Spec => []PollingBounded
  <1>1. Serp1Inv => PollingBounded
    <2>1. SUFFICES ASSUME InBounds
                   PROVE  PollingBounded
      BY DEF Serp1Inv
    <2>2. \A m \in Nat : \A a \in 1..m : a <= m
      OBVIOUS
    <2>3. attempt <= Serp1!MaxAttempts
      BY <2>1, <2>2, PollingLimits DEF InBounds
    <2>4. QED
      BY <2>1, <2>3 DEF InBounds, PollingTime, PollingBounded, Serp1!PollingBounded
  <1>2. QED
    BY <1>1, Serp1Invariance, PTL

\* SERP1 reports a readiness timeout only out of attempts or time, or when refused,
\* and never after a poll that saw the task ready.
THEOREM TimeoutsAreReal == Spec => []TimeoutIsReal
  <1>1. Serp1Inv => TimeoutIsReal
    BY DEF Serp1Inv, FailsOnce
  <1>2. QED
    BY <1>1, Serp1Invariance, PTL

--------------------------------------------------------------------------------
(* Sequences.                                                              *)

\* The elements of a sequence.
LEMMA Elements ==
  ASSUME NEW S, NEW s \in Seq(S)
  PROVE  /\ Len(s) \in Nat
         /\ \A i \in 1..Len(s) : s[i] \in S
         /\ \A x : x \in Agg1!ToSet(s) <=> \E i \in 1..Len(s) : x = s[i]
  BY LenProperties DEF Agg1!ToSet

\* What a sequence holds after its first k elements, up to the e-th.
LEMMA Slice ==
  ASSUME NEW S, NEW s \in Seq(S), NEW k \in Nat, NEW e \in Nat, e <= Len(s)
  PROVE  /\ SubSeq(s, k + 1, e) \in Seq(S)
         /\ Len(SubSeq(s, k + 1, e)) = IF e > k THEN e - k ELSE 0
         /\ \A m \in 1..Len(SubSeq(s, k + 1, e)) : SubSeq(s, k + 1, e)[m] = s[k + m]
  <1>1. Len(s) \in Nat /\ \A i \in (k + 1)..e : s[i] \in S
    BY Elements
  <1> DEFINE u == SubSeq(s, k + 1, e)
  <1>2. /\ u \in Seq(S)
        /\ Len(u) = IF k + 1 <= e THEN e - (k + 1) + 1 ELSE 0
        /\ \A i \in 1..(e - (k + 1) + 1) : u[i] = s[(k + 1) + i - 1]
    <2>1. k + 1 \in Int /\ e \in Int
      OBVIOUS
    <2>2. QED
      BY <1>1, <2>1, SubSeqProperties
  <1> HIDE DEF u
  <1>3. /\ k + 1 <= e <=> e > k
        /\ e - (k + 1) + 1 = e - k
        /\ \A i \in Nat : (k + 1) + i - 1 = k + i
    OBVIOUS
  <1>4. Len(u) = IF e > k THEN e - k ELSE 0
    BY <1>2, <1>3
  <1>5. \A m \in 1..Len(u) : u[m] = s[k + m]
    <2>1. ASSUME NEW m \in 1..Len(u)
          PROVE  m \in 1..(e - (k + 1) + 1) /\ m \in Nat
      BY <1>4
    <2>2. QED
      BY <1>2, <1>3, <2>1
  <1>6. QED
    BY <1>2, <1>4, <1>5 DEF u

\* The first d elements of a sequence.
LEMMA Prefix ==
  ASSUME NEW S, NEW s \in Seq(S), NEW d \in Nat, d <= Len(s)
  PROVE  /\ SubSeq(s, 1, d) \in Seq(S) /\ Len(SubSeq(s, 1, d)) = d
         /\ \A m \in 1..d : SubSeq(s, 1, d)[m] = s[m]
  <1>1. \A i \in 1..d : s[i] \in S
    BY Elements
  <1> DEFINE u == SubSeq(s, 1, d)
  <1>2. /\ u \in Seq(S) /\ Len(u) = IF 1 <= d THEN d - 1 + 1 ELSE 0
        /\ \A i \in 1..(d - 1 + 1) : u[i] = s[1 + i - 1]
    BY <1>1, SubSeqProperties
  <1> HIDE DEF u
  <1>3. /\ d - 1 + 1 = d /\ (~(1 <= d) => d = 0)
        /\ \A i \in 1..d : 1 + i - 1 = i
    OBVIOUS
  <1>4. QED
    BY <1>2, <1>3 DEF u

\* A list that loses one entry keeps the others in place or one place up.
LEMMA Removed ==
  ASSUME NEW S, NEW l \in Seq(S), NEW n \in 1..Len(l),
         NEW u, u = Agg1!RemoveAt(l, n),
         \A i, j \in 1..Len(l) : i # j => l[i] # l[j]
  PROVE  /\ u \in Seq(S) /\ \A i, j \in 1..Len(u) : i # j => u[i] # u[j]
         /\ \A i \in 1..Len(l) : i # n => \E m \in 1..Len(u) : u[m] = l[i]
  <1>1. /\ Len(l) \in Nat /\ n \in Nat /\ n - 1 \in Nat
        /\ n - 1 <= Len(l) /\ n <= Len(l) /\ Len(l) <= Len(l)
    BY Elements
  <1> DEFINE a == SubSeq(l, 1, n - 1)
  <1> DEFINE b == SubSeq(l, n + 1, Len(l))
  <1>2. /\ a \in Seq(S) /\ Len(a) = n - 1
        /\ \A m \in 1..(n - 1) : a[m] = l[m]
    BY <1>1, Prefix
  <1>3. /\ b \in Seq(S) /\ Len(b) = Len(l) - n
        /\ \A m \in 1..Len(b) : b[m] = l[n + m]
    <2>1. Len(b) = IF Len(l) > n THEN Len(l) - n ELSE 0
      BY <1>1, Slice
    <2>2. QED
      BY <1>1, <2>1, Slice
  <1> HIDE DEF a, b
  <1>4. /\ u \in Seq(S) /\ Len(u) = Len(l) - 1
        /\ \A i \in 1..(Len(l) - 1) : u[i] = l[IF i < n THEN i ELSE i + 1]
    <2>1. a \in Seq(S) /\ b \in Seq(S) /\ u = a \o b
      BY <1>2, <1>3 DEF Agg1!RemoveAt, a, b
    <2>2. /\ u \in Seq(S) /\ Len(u) = Len(a) + Len(b)
          /\ \A i \in 1..(Len(a) + Len(b)) :
               u[i] = IF i <= Len(a) THEN a[i] ELSE b[i - Len(a)]
      BY ONLY <2>1, ConcatProperties
    <2>3. Len(a) + Len(b) = Len(l) - 1
      BY <1>1, <1>2, <1>3
    <2>4. ASSUME NEW i \in 1..(Len(l) - 1)
          PROVE  u[i] = l[IF i < n THEN i ELSE i + 1]
      <3>1. CASE i < n
        <4>1. i <= Len(a) /\ i \in 1..(n - 1) /\ i \in 1..(Len(a) + Len(b))
          BY <1>1, <1>2, <2>3, <3>1
        <4>2. QED
          BY <1>2, <2>2, <3>1, <4>1
      <3>2. CASE ~(i < n)
        <4>1. /\ ~(i <= Len(a)) /\ i - Len(a) \in 1..Len(b)
              /\ n + (i - Len(a)) = i + 1 /\ i \in 1..(Len(a) + Len(b))
          BY <1>1, <1>2, <1>3, <2>3, <3>2
        <4>2. QED
          BY <1>3, <2>2, <3>2, <4>1
      <3>3. QED
        BY <3>1, <3>2
    <2>5. QED
      BY <2>2, <2>3, <2>4
  <1>5. ASSUME NEW i \in 1..Len(u), NEW j \in 1..Len(u), i # j
        PROVE  u[i] # u[j]
    <2>1. PICK p, q : p = (IF i < n THEN i ELSE i + 1) /\ q = (IF j < n THEN j ELSE j + 1)
      OBVIOUS
    <2>2. p \in 1..Len(l) /\ q \in 1..Len(l) /\ p # q
      BY <1>1, <1>4, <1>5, <2>1
    <2>3. u[i] = l[p] /\ u[j] = l[q]
      BY <1>4, <2>1
    <2>4. QED
      BY <2>2, <2>3
  <1>6. ASSUME NEW i \in 1..Len(l), i # n
        PROVE  \E m \in 1..Len(u) : u[m] = l[i]
    <2>1. CASE i < n
      <3>1. i \in 1..Len(u) /\ u[i] = l[i]
        BY <1>1, <1>4, <2>1
      <3>2. QED
        BY <3>1
    <2>2. CASE i > n
      <3>1. i - 1 \in 1..Len(u) /\ ~(i - 1 < n) /\ (i - 1) + 1 = i
        BY <1>1, <1>4, <2>2
      <3>2. u[i - 1] = l[i]
        BY <1>4, <3>1
      <3>3. QED
        BY <3>1, <3>2
    <2>3. QED
      BY <1>1, <1>6, <2>1, <2>2
  <1>7. QED
    BY <1>4, <1>5, <1>6

\* A list that gains an entry at its head.
LEMMA Pushed ==
  ASSUME NEW S, NEW l \in Seq(S), NEW p \in S, p \notin Agg1!ToSet(l),
         \A i, j \in 1..Len(l) : i # j => l[i] # l[j]
  PROVE  /\ <<p>> \o l \in Seq(S) /\ Len(<<p>> \o l) = Len(l) + 1
         /\ \A i \in 1..Len(l) : (<<p>> \o l)[i + 1] = l[i]
         /\ \A i, j \in 1..Len(<<p>> \o l) : i # j => (<<p>> \o l)[i] # (<<p>> \o l)[j]
  <1> DEFINE u == <<p>> \o l
  <1>1. Len(l) \in Nat /\ <<p>> \in Seq(S) /\ Len(<<p>>) = 1 /\ <<p>>[1] = p
    BY Elements
  <1>2. /\ u \in Seq(S) /\ Len(u) = Len(l) + 1
        /\ \A i \in 1..(1 + Len(l)) : u[i] = IF i <= 1 THEN p ELSE l[i - 1]
    <2>1. /\ u \in Seq(S) /\ Len(u) = Len(<<p>>) + Len(l)
          /\ \A i \in 1..(Len(<<p>>) + Len(l)) :
               u[i] = IF i <= Len(<<p>>) THEN <<p>>[i] ELSE l[i - Len(<<p>>)]
      BY <1>1, ConcatProperties
    <2>2. QED
      BY <1>1, <2>1
  <1> HIDE DEF u
  <1>3. ASSUME NEW i \in 1..Len(l)
        PROVE  u[i + 1] = l[i] /\ l[i] # p
    <2>1. i + 1 \in 1..(1 + Len(l)) /\ ~(i + 1 <= 1) /\ (i + 1) - 1 = i
      BY <1>1
    <2>2. QED
      BY <1>2, <2>1, Elements
  <1>4. ASSUME NEW i \in 1..Len(u)
        PROVE  \/ i = 1 /\ u[i] = p
               \/ \E m \in 1..Len(l) : i = m + 1 /\ u[i] = l[m]
    <2>1. i = 1 \/ (i - 1 \in 1..Len(l) /\ i = (i - 1) + 1)
      BY <1>1, <1>2
    <2>2. CASE i = 1
      BY <1>1, <1>2, <2>2
    <2>3. CASE i - 1 \in 1..Len(l) /\ i = (i - 1) + 1
      BY <1>3, <2>3
    <2>4. QED
      BY <2>1, <2>2, <2>3
  <1>5. QED
    BY <1>2, <1>3, <1>4 DEF u

--------------------------------------------------------------------------------
(* AGG-1: the pages.                                                       *)

\* How far the postings listed at the start have moved down the list.
Shift == Len(listing) - Len(atStart)

\* The list holds a posting once; as long as nothing is withdrawn, what was listed
\* at the start is its end.
Listed ==
  /\ listing \in Seq(Postings) /\ atStart \in Seq(Postings)
  /\ \A i, j \in 1..Len(listing) : i # j => listing[i] # listing[j]
  /\ withdrawn = {} => /\ Shift \in Nat
                       /\ \A i \in 1..Len(atStart) : listing[i + Shift] = atStart[i]

\* All pages so far were full, and the limit is not reached.
Paged ==
  /\ request \in Agg1!Request /\ page \in Nat \ {0} /\ raw \in Seq(Postings)
  /\ state = "idle" => Len(raw) = 0 /\ page = 1 /\ error = "none"
  /\ state = "fetching" => /\ Len(raw) = (page - 1) * Agg1!PerPage
                           /\ Len(raw) < Agg1!ResultLimit
                           /\ error = "none"

\* What was listed at the start and is now at a position already read is collected.
Collected ==
  withdrawn = {} =>
    \A i \in 1..Len(atStart) : i + Shift <= Len(raw) => atStart[i] \in Agg1!ToSet(raw)

\* The strengthening.
Agg1Inv == Listed /\ Paged /\ Collected /\ NoPostingSkipped /\ CompleteBelowLimits

\* The limits of a fetch are positive whatever was asked for.
LEMMA PageLimits ==
  /\ request \in Agg1!Request => /\ Agg1!PerPage \in Nat \ {0}
                                 /\ Agg1!PerPage <= MaxPerPage
                                 /\ Agg1!PageLimit \in Nat \ {0}
                                 /\ Agg1!ResultLimit \in Nat \ {0}
  /\ request' \in Agg1!Request => /\ Agg1!PerPage' \in Nat \ {0}
                                  /\ Agg1!ResultLimit' \in Nat \ {0}
  /\ MaxPerPage \in Nat \ {0}
  <1>1. /\ {MaxPerPage, DefaultPerPage, DefaultMaxPages, DefaultMaxResults}
             \subseteq Nat \ {0}
        /\ PageNumbers \subseteq Int
    BY DiscoveryAssumption DEF Agg1!Agg1Constants
  <1>2. ASSUME NEW v \in PageNumbers \cup {Absent}, NEW d \in Nat \ {0}
        PROVE  /\ Agg1!AtLeast(1, Agg1!CoerceInt(v, d)) \in Nat \ {0}
               /\ Agg1!AtLeast(1, Agg1!AtMost(MaxPerPage, Agg1!CoerceInt(v, d)))
                    \in Nat \ {0}
               /\ Agg1!AtLeast(1, Agg1!AtMost(MaxPerPage, Agg1!CoerceInt(v, d)))
                    <= MaxPerPage
    BY <1>1 DEF Agg1!AtLeast, Agg1!AtMost, Agg1!CoerceInt
  <1>3. ASSUME NEW q \in Agg1!Request
        PROVE  /\ q.results_per_page \in PageNumbers \cup {Absent}
               /\ q.max_pages \in PageNumbers \cup {Absent}
               /\ q.max_results \in PageNumbers \cup {Absent}
    BY DEF Agg1!Request
  <1>4. QED
    BY <1>1, <1>2, <1>3 DEF Agg1!PerPage, Agg1!PageLimit, Agg1!ResultLimit

\* An answered page adds c results, the next ones of the list, up to the result
\* limit, and the end of the list when there were fewer than a page.
PageAdded(c) ==
  /\ raw' \in Seq(Postings) /\ Len(raw') = Len(raw) + c
  /\ Len(raw) \in Nat /\ Len(raw) + c \in Nat
  /\ \A i \in 1..Len(raw) : raw'[i] = raw[i]
  /\ \A m \in 1..c : raw'[Len(raw) + m] = listing[Len(raw) + m]
  /\ Len(raw) + c <= Agg1!ResultLimit
  /\ \/ state' = "done"
     \/ /\ state' = "fetching" /\ page' = page + 1
        /\ Len(raw) + c = page * Agg1!PerPage
        /\ Len(raw) + c < Agg1!ResultLimit
  /\ \/ Len(raw) + c = Agg1!ResultLimit
     \/ Len(raw) + c >= Len(listing)
     \/ Len(raw) + c = page * Agg1!PerPage /\ state' = "fetching"
     \/ Len(raw) + c = Agg1!PageLimit * Agg1!PerPage

LEMMA PageAdds ==
  ASSUME Agg1Inv, Agg1!PageAnswered
  PROVE  \E c \in Nat : PageAdded(c)
  <1> DEFINE P == Agg1!PerPage
  <1> DEFINE L == Agg1!ResultLimit
  <1> DEFINE full == page * P
  <1> DEFINE e == Agg1!AtMost(Len(listing), full)
  <1> DEFINE res == SubSeq(listing, (page - 1) * P + 1, e)
  <1> DEFINE c == IF Len(res) > L - Len(raw) THEN L - Len(raw) ELSE Len(res)
  <1>1. /\ listing \in Seq(Postings) /\ raw \in Seq(Postings)
        /\ state = "fetching" /\ Len(raw) = (page - 1) * P /\ Len(raw) < L
        /\ page \in Nat \ {0} /\ request \in Agg1!Request
    BY DEF Agg1Inv, Listed, Paged, Agg1!PageAnswered
  <1>2. /\ P \in Nat \ {0} /\ L \in Nat \ {0} /\ P <= MaxPerPage /\ MaxPerPage \in Nat
        /\ Len(listing) \in Nat /\ Len(raw) \in Nat
    BY <1>1, PageLimits, Elements
  <1>3. Agg1!AtMost(MaxPerPage, P) = P
    BY <1>2 DEF Agg1!AtMost
  <1>4. /\ full \in Nat /\ full = Len(raw) + P
        /\ e \in Nat /\ e <= Len(listing) /\ e <= full
        /\ e = Len(listing) \/ e = full
    <2>1. \A m \in Nat \ {0}, n \in Nat : m * n \in Nat /\ m * n = (m - 1) * n + n
      OBVIOUS
    <2>2. full \in Nat /\ full = Len(raw) + P
      BY <1>1, <1>2, <2>1
    <2>3. \A n \in Nat : /\ Agg1!AtMost(Len(listing), n) \in Nat
                         /\ Agg1!AtMost(Len(listing), n) <= Len(listing)
                         /\ Agg1!AtMost(Len(listing), n) <= n
                         /\ \/ Agg1!AtMost(Len(listing), n) = Len(listing)
                            \/ Agg1!AtMost(Len(listing), n) = n
      BY <1>2 DEF Agg1!AtMost
    <2>4. QED
      BY <2>2, <2>3
  <1>5. /\ Agg1!ProviderPage(page, P) = res
        /\ res = SubSeq(listing, Len(raw) + 1, e)
    BY <1>1, <1>3 DEF Agg1!ProviderPage
  <1>6. raw' = SubSeq(raw \o res, 1, Agg1!AtMost(L, Len(raw \o res)))
    BY <1>5 DEF Agg1!PageAnswered, Agg1!Truncated
  <1> HIDE DEF full, e, res, c
  <1>7. /\ res \in Seq(Postings) /\ Len(res) = IF e > Len(raw) THEN e - Len(raw) ELSE 0
        /\ c \in Nat /\ c <= Len(res) /\ Len(raw \o res) = Len(raw) + Len(res)
        /\ raw' \in Seq(Postings) /\ Len(raw') = Len(raw) + c
        /\ \A i \in 1..Len(raw) : raw'[i] = raw[i]
        /\ \A m \in 1..c : raw'[Len(raw) + m] = listing[Len(raw) + m]
    <2>1. Len(raw) \in Nat /\ Len(listing) \in Nat
      BY <1>2
    <2>2. /\ res \in Seq(Postings) /\ Len(res) = IF e > Len(raw) THEN e - Len(raw) ELSE 0
          /\ \A m \in 1..Len(res) : res[m] = listing[Len(raw) + m]
      <3>1. /\ listing \in Seq(Postings) /\ Len(raw) \in Nat /\ e \in Nat
            /\ e <= Len(listing) /\ res = SubSeq(listing, Len(raw) + 1, e)
        BY <1>1, <1>4, <1>5, <2>1
      <3>2. QED
        BY ONLY <3>1, Slice
    <2> DEFINE both == raw \o res
    <2>3. /\ both \in Seq(Postings) /\ Len(both) = Len(raw) + Len(res)
          /\ \A i \in 1..(Len(raw) + Len(res)) :
               both[i] = IF i <= Len(raw) THEN raw[i] ELSE res[i - Len(raw)]
      BY <1>1, <2>2, ConcatProperties
    <2> HIDE DEF both
    <2>4. Len(res) \in Nat /\ c \in Nat /\ c <= Len(res) /\ Len(raw) + c \in Nat
      BY <1>1, <1>2, <2>1, <2>2 DEF c
    <2>5. Agg1!AtMost(L, Len(both)) = Len(raw) + c /\ Len(raw) + c <= Len(both)
      <3>1. /\ L \in Nat /\ Len(raw) < L /\ c \in Int
            /\ c = IF Len(res) > L - Len(raw) THEN L - Len(raw) ELSE Len(res)
        BY <1>1, <1>2, <2>4 DEF c
      <3>2. /\ Agg1!AtMost(L, Len(raw) + Len(res)) = Len(raw) + c
            /\ Len(raw) + c <= Len(raw) + Len(res)
        BY ONLY <2>1, <2>4, <3>1 DEF Agg1!AtMost
      <3>3. QED
        BY <2>3, <3>2
    <2>6. /\ raw' \in Seq(Postings) /\ Len(raw') = Len(raw) + c
          /\ \A m \in 1..Len(raw') : raw'[m] = both[m]
      <3>1. raw' = SubSeq(both, 1, Len(raw) + c)
        BY <1>6, <2>5 DEF both
      <3>2. both \in Seq(Postings) /\ Len(raw) + c <= Len(both)
        BY <2>3, <2>5
      <3>3. QED
        BY ONLY <2>4, <3>1, <3>2, Prefix
    <2>7. ASSUME NEW i \in 1..Len(raw)
          PROVE  raw'[i] = raw[i]
      <3>1. i \in 1..Len(raw') /\ i \in 1..(Len(raw) + Len(res)) /\ i <= Len(raw)
        BY <2>1, <2>4, <2>6
      <3>2. QED
        BY <2>3, <2>6, <3>1
    <2>8. ASSUME NEW m \in 1..c
          PROVE  raw'[Len(raw) + m] = listing[Len(raw) + m]
      <3>1. /\ Len(raw) + m \in 1..Len(raw') /\ Len(raw) + m \in 1..(Len(raw) + Len(res))
            /\ ~(Len(raw) + m <= Len(raw)) /\ (Len(raw) + m) - Len(raw) = m
            /\ m \in 1..Len(res)
        BY <2>1, <2>4, <2>6
      <3>2. raw'[Len(raw) + m] = both[Len(raw) + m] /\ both[Len(raw) + m] = res[m]
        BY <2>3, <2>6, <3>1
      <3>3. QED
        BY <2>2, <3>1, <3>2
    <2>9. QED
      BY <2>2, <2>3, <2>4, <2>6, <2>7, <2>8 DEF both
  <1>8. /\ Len(raw) + c \in Nat /\ Len(raw) + c <= L
        /\ Len(res) \in Nat /\ Len(res) <= P
        /\ c = Len(res) \/ Len(raw) + c = L
        /\ Len(res) = P => Len(raw) + Len(res) = full
        /\ Len(res) < P => Len(raw) + Len(res) >= Len(listing)
    BY <1>1, <1>2, <1>4, <1>7 DEF c
  <1>9. CASE Agg1!LastPage(res, raw \o res)
    <2>1. state' = "done"
      BY <1>5, <1>9 DEF Agg1!PageAnswered
    <2>2. \/ res = << >> \/ Len(raw) + Len(res) >= L \/ Len(res) < P
          \/ page = Agg1!PageLimit
      BY <1>7, <1>9 DEF Agg1!LastPage
    <2>3. res = << >> => Len(res) = 0
      BY <1>7, EmptySeq
    <2>4. \/ Len(raw) + c = L \/ Len(raw) + c >= Len(listing)
          \/ Len(raw) + c = full /\ page = Agg1!PageLimit
      BY <1>2, <1>8, <2>2, <2>3
    <2>5. QED
      BY <1>2, <1>7, <1>8, <2>1, <2>4 DEF full, PageAdded
  <1>10. CASE ~Agg1!LastPage(res, raw \o res)
    <2>1. state' = "fetching" /\ page' = page + 1
      BY <1>5, <1>10 DEF Agg1!PageAnswered
    <2>2. ~(Len(raw) + Len(res) >= L) /\ ~(Len(res) < P)
      BY <1>7, <1>10 DEF Agg1!LastPage
    <2>3. \A i, m, n, k, p \in Nat :
            m <= n /\ (m = n \/ i + m = k) /\ ~(i + n >= k) /\ n <= p /\ ~(n < p)
            => m = n /\ n = p /\ i + m < k
      OBVIOUS
    <2>4. c = Len(res) /\ Len(res) = P /\ Len(raw) + c < L
      BY ONLY <1>2, <1>7, <1>8, <2>2, <2>3
    <2>5. Len(raw) + c = full
      BY <1>8, <2>4
    <2>6. QED
      BY <1>2, <1>7, <1>8, <2>1, <2>4, <2>5 DEF full, PageAdded
  <1>11. QED
    BY <1>9, <1>10

\* Collecting a page leaves no gap.
LEMMA PageAnsweredStep ==
  ASSUME Agg1Inv, Agg1!PageAnswered
  PROVE  Agg1Inv'
  <1>0. PICK c \in Nat : PageAdded(c)
    BY PageAdds
  <1>1. /\ raw' \in Seq(Postings) /\ Len(raw') = Len(raw) + c
        /\ Len(raw) \in Nat /\ Len(raw) + c \in Nat
        /\ \A i \in 1..Len(raw) : raw'[i] = raw[i]
        /\ \A m \in 1..c : raw'[Len(raw) + m] = listing[Len(raw) + m]
        /\ Len(raw) + c <= Agg1!ResultLimit
        /\ \/ state' = "done"
           \/ /\ state' = "fetching" /\ page' = page + 1
              /\ Len(raw) + c = page * Agg1!PerPage
              /\ Len(raw) + c < Agg1!ResultLimit
        /\ \/ Len(raw) + c = Agg1!ResultLimit
           \/ Len(raw) + c >= Len(listing)
           \/ Len(raw) + c = page * Agg1!PerPage /\ state' = "fetching"
           \/ Len(raw) + c = Agg1!PageLimit * Agg1!PerPage
    BY <1>0 DEF PageAdded
  <1>2. UNCHANGED <<request, listing, atStart, changes, withdrawn, error>>
    BY DEF Agg1!PageAnswered
  <1>3. /\ Agg1!PerPage' = Agg1!PerPage /\ Agg1!ResultLimit' = Agg1!ResultLimit
        /\ Agg1!PageLimit' = Agg1!PageLimit /\ Shift' = Shift
    BY <1>2 DEF Agg1!PerPage, Agg1!ResultLimit, Agg1!PageLimit, Shift
  <1>4. /\ raw \in Seq(Postings) /\ request \in Agg1!Request /\ page \in Nat \ {0}
        /\ state = "fetching" /\ error = "none"
        /\ listing \in Seq(Postings) /\ atStart \in Seq(Postings)
    BY DEF Agg1Inv, Paged, Listed, Agg1!PageAnswered
  <1>5. Len(atStart) \in Nat /\ Len(listing) \in Nat /\ DOMAIN atStart = 1..Len(atStart)
    BY <1>4, Elements, LenProperties
  <1>6. ASSUME NEW x
        PROVE  /\ x \in Agg1!ToSet(raw)' <=> \E i \in 1..(Len(raw) + c) : x = raw'[i]
               /\ x \in Agg1!ToSet(raw) <=> \E i \in 1..Len(raw) : x = raw[i]
    <2>1. x \in Agg1!ToSet(raw)' <=> \E i \in 1..Len(raw') : x = raw'[i]
      BY <1>1, LenProperties DEF Agg1!ToSet
    <2>2. x \in Agg1!ToSet(raw) <=> \E i \in 1..Len(raw) : x = raw[i]
      BY <1>4, Elements
    <2>3. Len(raw') = Len(raw) + c
      BY <1>1
    <2>4. QED
      BY ONLY <2>1, <2>2, <2>3
  <1>7. ASSUME NEW x
        PROVE  x \in Agg1!ToSet(raw)' <=>
                 x \in Agg1!ToSet(raw) \/ \E m \in 1..c : x = listing[Len(raw) + m]
    <2>1. ASSUME NEW i \in 1..(Len(raw) + c), x = raw'[i]
          PROVE  x \in Agg1!ToSet(raw) \/ \E m \in 1..c : x = listing[Len(raw) + m]
      <3>1. CASE i <= Len(raw)
        BY <1>1, <1>6, <2>1, <3>1
      <3>2. CASE ~(i <= Len(raw))
        <4>1. i - Len(raw) \in 1..c /\ Len(raw) + (i - Len(raw)) = i
          BY <1>1, <3>2
        <4>2. x = listing[Len(raw) + (i - Len(raw))]
          BY <1>1, <2>1, <4>1
        <4>3. QED
          BY <4>1, <4>2
      <3>3. QED
        BY <3>1, <3>2
    <2>2. ASSUME NEW i \in 1..Len(raw), x = raw[i]
          PROVE  x \in Agg1!ToSet(raw)'
      <3>1. i \in 1..(Len(raw) + c) /\ raw'[i] = x
        BY <1>1, <2>2
      <3>2. QED
        BY <1>6, <3>1
    <2>3. ASSUME NEW m \in 1..c, x = listing[Len(raw) + m]
          PROVE  x \in Agg1!ToSet(raw)'
      <3>1. Len(raw) + m \in 1..(Len(raw) + c)
        BY <1>1
      <3>2. raw'[Len(raw) + m] = x
        BY <1>1, <2>3
      <3>3. QED
        BY <1>6, <3>1, <3>2
    <2>4. QED
      BY <1>6, <2>1, <2>2, <2>3
  <1>8. Listed'
    BY <1>2, <1>3 DEF Agg1Inv, Listed
  <1>9. Paged'
    <2>1. page' \in Nat \ {0}
      BY <1>4 DEF Agg1!PageAnswered
    <2>2. state' # "idle"
      BY <1>1
    <2>3. state' = "fetching" => /\ Len(raw') = (page' - 1) * Agg1!PerPage
                                 /\ Len(raw') < Agg1!ResultLimit
      <3>1. ASSUME state' = "fetching"
            PROVE  /\ page' = page + 1 /\ Len(raw') = page * Agg1!PerPage
                   /\ Len(raw') < Agg1!ResultLimit
        BY <1>1, <3>1
      <3>2. \A m \in Nat \ {0} : (m + 1) - 1 = m
        OBVIOUS
      <3>3. QED
        BY <1>4, <3>1, <3>2
    <2>4. QED
      BY <1>1, <1>2, <1>3, <1>4, <2>1, <2>2, <2>3 DEF Paged
  <1>10. Collected'
    <2>1. SUFFICES ASSUME withdrawn = {}, NEW i \in 1..Len(atStart),
                          i + Shift <= Len(raw) + c
                   PROVE  atStart[i] \in Agg1!ToSet(raw)'
      BY <1>1, <1>2, <1>3 DEF Collected
    <2>2. Shift \in Nat /\ listing[i + Shift] = atStart[i]
      BY <2>1 DEF Agg1Inv, Listed
    <2>3. CASE i + Shift <= Len(raw)
      BY <1>7, <2>1, <2>3 DEF Agg1Inv, Collected
    <2>4. CASE ~(i + Shift <= Len(raw))
      <3>1. /\ (i + Shift) - Len(raw) \in 1..c
            /\ Len(raw) + ((i + Shift) - Len(raw)) = i + Shift
        BY <1>1, <1>5, <2>1, <2>2, <2>4
      <3>2. atStart[i] = listing[Len(raw) + ((i + Shift) - Len(raw))]
        BY <2>2, <3>1
      <3>3. QED
        BY <1>7, <3>1, <3>2
    <2>5. QED
      BY <2>3, <2>4
  <1>11. NoPostingSkipped'
    <2>1. SUFFICES ASSUME withdrawn = {},
                          NEW i \in 1..Len(atStart), NEW j \in 1..Len(atStart), i < j,
                          atStart[j] \in Agg1!ToSet(raw)'
                   PROVE  atStart[i] \in Agg1!ToSet(raw)'
      BY <1>2, <1>5 DEF NoPostingSkipped, Agg1!NoPostingSkipped
    <2>2. CASE atStart[j] \in Agg1!ToSet(raw)
      <3>1. atStart[i] \in Agg1!ToSet(raw)
        BY <1>5, <2>1, <2>2 DEF Agg1Inv, NoPostingSkipped, Agg1!NoPostingSkipped
      <3>2. QED
        BY <1>7, <3>1
    <2>3. CASE atStart[j] \notin Agg1!ToSet(raw)
      <3>1. PICK m \in 1..c : atStart[j] = listing[Len(raw) + m]
        BY <1>7, <2>1, <2>3
      <3>2. Shift \in Nat /\ atStart[j] = listing[j + Shift]
        BY <2>1 DEF Agg1Inv, Listed
      <3>3. j + Shift \in 1..Len(listing) /\ Len(raw) + m >= 1
        BY <1>1, <1>5, <3>2 DEF Shift
      <3>4. CASE Len(raw) + m > Len(listing)
        <4>1. j + Shift <= Len(raw) + c
          BY <1>1, <1>5, <3>2, <3>3, <3>4
        <4>2. i + Shift <= Len(raw) + c
          BY <1>1, <1>5, <2>1, <3>2, <4>1
        <4>3. QED
          BY <1>1, <1>2, <1>3, <1>10, <2>1, <4>2 DEF Collected
      <3>5. CASE ~(Len(raw) + m > Len(listing))
        <4>1. Len(raw) + m \in 1..Len(listing)
          BY <1>1, <1>5, <3>3, <3>5
        <4>2. Len(raw) + m = j + Shift
          BY <3>1, <3>2, <3>3, <4>1 DEF Agg1Inv, Listed
        <4>3. i + Shift <= Len(raw) + c
          BY <1>1, <1>5, <2>1, <3>2, <4>2
        <4>4. QED
          BY <1>1, <1>2, <1>3, <1>10, <2>1, <4>3 DEF Collected
      <3>6. QED
        BY <3>4, <3>5
    <2>4. QED
      BY <2>2, <2>3
  <1>12. CompleteBelowLimits'
    <2>1. SUFFICES ASSUME state' = "done", withdrawn = {},
                          Len(raw) + c < Agg1!ResultLimit,
                          Len(raw) + c < Agg1!PageLimit * Agg1!PerPage,
                          NEW i \in 1..Len(atStart)
                   PROVE  atStart[i] \in Agg1!ToSet(raw)'
      <3>1. Agg1!ToSet(atStart) = {atStart[i] : i \in 1..Len(atStart)}
        BY <1>5 DEF Agg1!ToSet
      <3>2. Agg1!ToSet(atStart)' = Agg1!ToSet(atStart)
        BY <1>2 DEF Agg1!ToSet
      <3>3. (Agg1!PageLimit * Agg1!PerPage)' = Agg1!PageLimit * Agg1!PerPage
        BY <1>3
      <3>4. QED
        BY <1>1, <1>2, <1>3, <3>1, <3>2, <3>3
           DEF CompleteBelowLimits, Agg1!CompleteBelowLimits
    <2>2. Agg1!ResultLimit \in Nat /\ Agg1!PageLimit \in Nat /\ Agg1!PerPage \in Nat
      BY <1>4, PageLimits
    <2>3. Agg1!PageLimit * Agg1!PerPage \in Nat
      BY <2>2
    <2>4. Len(raw) + c >= Len(listing)
      <3>1. state' # "fetching"
        BY <2>1
      <3>2. /\ Len(raw) + c # Agg1!ResultLimit
            /\ Len(raw) + c # Agg1!PageLimit * Agg1!PerPage
        BY <1>1, <2>1, <2>2, <2>3
      <3>3. QED
        BY <1>1, <3>1, <3>2
    <2>5. i + Shift <= Len(raw) + c
      BY <1>1, <1>5, <2>4 DEF Shift
    <2>6. QED
      BY <1>1, <1>2, <1>3, <1>10, <2>1, <2>5 DEF Collected
  <1>13. QED
    BY <1>8, <1>9, <1>10, <1>11, <1>12 DEF Agg1Inv

\* A step that changes neither the request nor the list keeps the derived values.
LEMMA SameRequest ==
  ASSUME request' = request
  PROVE  /\ Agg1!PerPage' = Agg1!PerPage /\ Agg1!ResultLimit' = Agg1!ResultLimit
         /\ Agg1!PageLimit' = Agg1!PageLimit
BY DEF Agg1!PerPage, Agg1!ResultLimit, Agg1!PageLimit

\* A fetch begins with the first page and nothing collected.
LEMMA FetchBegins ==
  ASSUME Agg1Inv, Agg1!FetchRawJobs
  PROVE  Agg1Inv'
  <1>1. /\ request' \in Agg1!Request /\ state' \in {"fetching", "done"}
        /\ state' = "fetching" => error' = error
        /\ state' = "done" => error' = "credentials"
        /\ UNCHANGED <<listing, atStart, changes, withdrawn, page, raw>>
        /\ Len(raw) = 0 /\ page = 1 /\ error = "none"
    BY DEF Agg1!FetchRawJobs, Agg1Inv, Paged
  <1>2. Agg1!PerPage' \in Nat /\ Agg1!ResultLimit' \in Nat \ {0}
    BY <1>1, PageLimits
  <1>3. Listed'
    BY <1>1 DEF Agg1Inv, Listed, Shift
  <1>4. Paged'
    <2>1. \A m, n \in Nat : m = 1 => (m - 1) * n = 0
      OBVIOUS
    <2>2. page' \in Nat /\ page' = 1 /\ Len(raw') = 0
      BY <1>1
    <2>3. (page' - 1) * Agg1!PerPage' = 0
      BY ONLY <1>2, <2>1, <2>2
    <2>4. Len(raw') < Agg1!ResultLimit'
      BY <1>2, <2>2
    <2>5. Len(raw') = (page' - 1) * Agg1!PerPage'
      BY <2>2, <2>3
    <2>6. QED
      BY <1>1, <2>2, <2>4, <2>5 DEF Agg1Inv, Paged
  <1>5. Collected'
    BY <1>1 DEF Agg1Inv, Collected, Shift, Agg1!ToSet
  <1>6. NoPostingSkipped'
    BY <1>1 DEF Agg1Inv, NoPostingSkipped, Agg1!NoPostingSkipped, Agg1!ToSet
  <1>7. CompleteBelowLimits'
    BY <1>1 DEF CompleteBelowLimits, Agg1!CompleteBelowLimits
  <1>8. QED
    BY <1>3, <1>4, <1>5, <1>6, <1>7 DEF Agg1Inv

\* A failed request leaves nothing collected.
LEMMA RequestFailedStep ==
  ASSUME Agg1Inv, Agg1!RequestFailed
  PROVE  Agg1Inv'
  <1>1. /\ state' = "done" /\ raw' = << >> /\ error' # "none"
        /\ UNCHANGED <<request, listing, atStart, withdrawn, page>>
    BY DEF Agg1!RequestFailed, Agg1!Errors
  <1>2. Len(raw') = 0 /\ raw' \in Seq(Postings) /\ Agg1!ToSet(raw)' = {}
    BY <1>1 DEF Agg1!ToSet
  <1>3. Listed'
    BY <1>1 DEF Agg1Inv, Listed, Shift
  <1>4. Paged'
    BY <1>1, <1>2 DEF Agg1Inv, Paged
  <1>5. Collected'
    <2>1. SUFFICES ASSUME withdrawn' = {}, NEW i \in 1..Len(atStart),
                          i + Shift <= 0
                   PROVE  FALSE
      BY <1>1, <1>2 DEF Collected, Shift
    <2>2. Shift \in Nat
      BY <1>1, <2>1 DEF Agg1Inv, Listed
    <2>3. QED
      BY <2>1, <2>2
  <1>6. NoPostingSkipped' /\ CompleteBelowLimits'
    BY <1>1, <1>2 DEF NoPostingSkipped, Agg1!NoPostingSkipped,
       CompleteBelowLimits, Agg1!CompleteBelowLimits
  <1>7. QED
    BY <1>3, <1>4, <1>5, <1>6 DEF Agg1Inv

\* A change of the list leaves what was collected.
LEMMA ListChangesStep ==
  ASSUME Agg1Inv, NEW l, Agg1!ListChanges(l)
  PROVE  Paged' /\ CompleteBelowLimits' /\ (withdrawn' = withdrawn => NoPostingSkipped')
  <1>1. /\ listing' = l /\ state = "fetching"
        /\ UNCHANGED <<request, atStart, state, page, raw, error>>
    BY DEF Agg1!ListChanges
  <1>2. Paged'
    BY <1>1, SameRequest DEF Agg1Inv, Paged
  <1>3. CompleteBelowLimits'
    BY <1>1 DEF CompleteBelowLimits, Agg1!CompleteBelowLimits
  <1>4. withdrawn' = withdrawn => NoPostingSkipped'
    BY <1>1 DEF Agg1Inv, NoPostingSkipped, Agg1!NoPostingSkipped, Agg1!ToSet
  <1>5. QED
    BY <1>2, <1>3, <1>4

\* A new posting pushes the others down, away from what was read.
LEMMA PublishStep ==
  ASSUME Agg1Inv, Agg1!Publish
  PROVE  Agg1Inv'
  <1>1. PICK p \in Postings \ (Agg1!ToSet(listing) \cup withdrawn) :
          Agg1!ListChanges(<<p>> \o listing) /\ withdrawn' = withdrawn
    BY DEF Agg1!Publish
  <1>2. /\ listing' = <<p>> \o listing
        /\ UNCHANGED <<atStart, raw, withdrawn>>
    BY <1>1 DEF Agg1!ListChanges
  <1>3. /\ listing \in Seq(Postings) /\ atStart \in Seq(Postings)
        /\ \A i, j \in 1..Len(listing) : i # j => listing[i] # listing[j]
        /\ Len(listing) \in Nat /\ Len(atStart) \in Nat
        /\ raw \in Seq(Postings) /\ Len(raw) \in Nat
    BY Elements DEF Agg1Inv, Listed, Paged
  <1>4. /\ listing' \in Seq(Postings) /\ Len(listing') = Len(listing) + 1
        /\ \A i \in 1..Len(listing) : listing'[i + 1] = listing[i]
        /\ \A i, j \in 1..Len(listing') : i # j => listing'[i] # listing'[j]
    <2>1. /\ listing \in Seq(Postings) /\ p \in Postings /\ p \notin Agg1!ToSet(listing)
          /\ \A i, j \in 1..Len(listing) : i # j => listing[i] # listing[j]
      BY <1>1, <1>3
    <2>2. QED
      BY ONLY <1>2, <2>1, Pushed
  <1>5. Shift' = Shift + 1 /\ Shift \in Int
    BY <1>2, <1>3, <1>4 DEF Shift
  <1>6. Listed'
    <2>1. ASSUME withdrawn = {}
          PROVE  /\ Shift' \in Nat
                 /\ \A i \in 1..Len(atStart) : listing'[i + Shift'] = atStart[i]
      <3>1. Shift \in Nat /\ \A i \in 1..Len(atStart) : listing[i + Shift] = atStart[i]
        BY <2>1 DEF Agg1Inv, Listed
      <3>2. ASSUME NEW i \in 1..Len(atStart)
            PROVE  listing'[i + Shift'] = atStart[i]
        <4>1. i + Shift \in 1..Len(listing)
          BY <1>3, <3>1 DEF Shift
        <4>2. listing'[(i + Shift) + 1] = atStart[i]
          BY <1>4, <3>1, <4>1
        <4>3. i + Shift' = (i + Shift) + 1
          BY ONLY <1>5, <3>1
        <4>4. QED
          BY <4>2, <4>3
      <3>3. QED
        BY <1>5, <3>1, <3>2
    <2>2. QED
      BY <1>2, <1>3, <1>4, <2>1 DEF Listed
  <1>7. Collected'
    <2>1. SUFFICES ASSUME withdrawn = {}, NEW i \in 1..Len(atStart),
                          i + (Shift + 1) <= Len(raw)
                   PROVE  atStart[i] \in Agg1!ToSet(raw)
      BY <1>2, <1>5 DEF Collected, Agg1!ToSet
    <2>2. i + Shift <= Len(raw)
      BY <1>3, <1>5, <2>1
    <2>3. QED
      BY <2>1, <2>2 DEF Agg1Inv, Collected
  <1>8. QED
    BY <1>1, <1>6, <1>7, ListChangesStep DEF Agg1Inv

\* After a withdrawal nothing is promised but the list itself.
LEMMA WithdrawStep ==
  ASSUME Agg1Inv, Agg1!Withdraw
  PROVE  Agg1Inv'
  <1>1. PICK i \in DOMAIN listing :
          /\ Agg1!ListChanges(Agg1!RemoveAt(listing, i))
          /\ withdrawn' = withdrawn \cup {listing[i]}
    BY DEF Agg1!Withdraw
  <1>2. withdrawn' # {}
    BY <1>1
  <1>3. /\ listing' = Agg1!RemoveAt(listing, i) /\ atStart' = atStart
        /\ i \in 1..Len(listing)
        /\ listing \in Seq(Postings) /\ atStart \in Seq(Postings)
        /\ \A m, n \in 1..Len(listing) : m # n => listing[m] # listing[n]
    BY <1>1, LenProperties DEF Agg1!ListChanges, Agg1Inv, Listed
  <1>4. /\ listing' \in Seq(Postings)
        /\ \A m, n \in 1..Len(listing') : m # n => listing'[m] # listing'[n]
    BY <1>3, Removed
  <1>5. Listed'
    BY <1>2, <1>3, <1>4 DEF Listed
  <1>6. Collected' /\ NoPostingSkipped'
    BY <1>2 DEF Collected, NoPostingSkipped, Agg1!NoPostingSkipped
  <1>7. QED
    BY <1>1, <1>5, <1>6, ListChangesStep DEF Agg1Inv

\* The strengthening is an invariant of run_discovery.
LEMMA Agg1Invariance == Spec => []Agg1Inv
  <1>1. Init => Agg1Inv
    <2>1. SUFFICES ASSUME Init
                   PROVE  Agg1Inv
      OBVIOUS
    <2>2. PICK S \in SUBSET Postings : listing \in Agg1!SetToSeqs(S)
      BY <2>1 DEF Init, Agg1!Init
    <2>3. /\ request = Agg1!NoRequest /\ atStart = listing /\ state = "idle"
          /\ page = 1 /\ raw = << >> /\ error = "none"
      BY <2>1 DEF Init, Agg1!Init
    <2>4. Agg1!Cardinality(S) \in Nat
      <3>1. IsFiniteSet(Postings)
        BY DiscoveryAssumption DEF Agg1!Agg1Constants, Agg1!IsFiniteSet, IsFiniteSet
      <3>2. Cardinality(S) \in Nat
        BY <3>1, FS_Subset, FS_CardinalityType
      <3>3. Agg1!Cardinality(S) = Cardinality(S)
        BY DEF Agg1!Cardinality, Cardinality
      <3>4. QED
        BY <3>2, <3>3
    <2>5. /\ listing \in Seq(S) /\ Len(listing) = Agg1!Cardinality(S)
          /\ \A i, j \in 1..Len(listing) : i # j => listing[i] # listing[j]
      BY <2>2, <2>4 DEF Agg1!SetToSeqs
    <2>6. listing \in Seq(Postings) /\ Len(listing) \in Nat
      BY <2>4, <2>5
    <2>7. Listed
      BY <2>3, <2>5, <2>6 DEF Listed, Shift
    <2>8. Paged
      BY <2>3 DEF Paged, Agg1!NoRequest, Agg1!Request
    <2>9. Collected
      BY <2>3, <2>6 DEF Collected, Shift
    <2>10. NoPostingSkipped /\ CompleteBelowLimits
      BY <2>3 DEF NoPostingSkipped, Agg1!NoPostingSkipped, Agg1!ToSet,
         CompleteBelowLimits, Agg1!CompleteBelowLimits
    <2>11. QED
      BY <2>7, <2>8, <2>9, <2>10 DEF Agg1Inv
  <1>2. Agg1Inv /\ [Next]_vars => Agg1Inv'
    <2>1. SUFFICES ASSUME Agg1Inv, [Next]_vars
                   PROVE  Agg1Inv'
      OBVIOUS
    <2>2. CASE Agg1Step
      BY <2>1, <2>2, FetchBegins, PageAnsweredStep, RequestFailedStep, PublishStep,
         WithdrawStep DEF Agg1Step, Agg1!Next
    <2>3. CASE UNCHANGED agg1
      <3>1. /\ UNCHANGED <<request, listing, atStart, withdrawn, state, page, raw, error>>
            /\ Shift' = Shift /\ Agg1!ToSet(raw)' = Agg1!ToSet(raw)
            /\ Agg1!ToSet(atStart)' = Agg1!ToSet(atStart)
        BY <2>3 DEF agg1, Shift, Agg1!ToSet
      <3>2. Listed' /\ Collected'
        BY <2>1, <3>1 DEF Agg1Inv, Listed, Collected
      <3>3. Paged'
        BY <2>1, <3>1, SameRequest DEF Agg1Inv, Paged
      <3>4. NoPostingSkipped'
        BY <2>1, <3>1 DEF Agg1Inv, NoPostingSkipped, Agg1!NoPostingSkipped
      <3>5. CompleteBelowLimits'
        BY <2>1, <3>1, SameRequest
           DEF Agg1Inv, CompleteBelowLimits, Agg1!CompleteBelowLimits
      <3>6. QED
        BY <3>2, <3>3, <3>4, <3>5 DEF Agg1Inv
    <2>4. QED
      BY <2>1, <2>2, <2>3 DEF Next, NotDispatched, Serp1Step, Persist, vars
  <1>3. QED
    BY <1>1, <1>2, PTL DEF Spec

\* Whatever page size and limits are asked for and however often postings arrive
\* between two requests, AGG-1 skips a posting only when one was withdrawn.
THEOREM NothingIsSkipped == Spec => []NoPostingSkipped
  <1>1. Agg1Inv => NoPostingSkipped
    BY DEF Agg1Inv
  <1>2. QED
    BY <1>1, Agg1Invariance, PTL

\* An AGG-1 fetch that ends below both of its limits collected the whole list.
THEOREM ShortFetchesAreComplete == Spec => []CompleteBelowLimits
  <1>1. Agg1Inv => CompleteBelowLimits
    BY DEF Agg1Inv
  <1>2. QED
    BY <1>1, Agg1Invariance, PTL
--------------------------------------------------------------------------------
(* Both connectors: the types, and what a run ends with.                   *)

\* AGG-1's variables beside those the paging is about.
Agg1Typed ==
  /\ changes \in 0..MaxChanges /\ withdrawn \subseteq Postings
  /\ state \in {"idle", "fetching", "done"} /\ page \in 1..Agg1!PageLimit
  /\ error \in Agg1!Errors \cup {"none"}

\* What was listed at the start is still listed or was withdrawn, and a fetch that
\* ends with nothing found the list empty.
Kept ==
  /\ Agg1!ToSet(atStart) \subseteq Agg1!ToSet(listing) \cup withdrawn
  /\ state = "done" /\ error = "none" /\ raw = << >> => listing = << >>

\* SERP1's variables beside those the polling is about.
Serp1Typed ==
  /\ task \in {"none", "queued", "ready", "failed"}
  /\ answer \in {<< >>} \cup {<<i, Junk>> : i \in Items}
  /\ items \in {<< >>} \cup {<<i>> : i \in Items}
  /\ phase \in {"idle", "submitting", "polling", "reading", "done"}
  /\ lastPoll \in {"none", "refused", "queued", "ready", "failed"}
  /\ failure \in Serp1!Failures \cup {"none"}

\* A result is read of the task that was seen finished.
Finished ==
  phase = "reading" \/ (phase = "done" /\ failure = "none") =>
    /\ lastPoll = task /\ task \in {"ready", "failed"}
    /\ phase = "done" => items = Serp1!ResultItems

\* A SUCCESS run has what its connector returned without an error.
Outcome ==
  /\ run = "SUCCESS" =>
       \/ connector = "agg1" /\ state = "done" /\ error = "none" /\ fetched = raw
       \/ connector = "serp1" /\ phase = "done" /\ failure = "none" /\ fetched = items
  /\ connector \in Connectors /\ enabled \subseteq {"agg1", "serp1"}
  /\ run \in {"RUNNING", "SKIPPED", "FAILED", "SUCCESS"}
  /\ fetched \in Seq(Postings \cup Items)

\* The strengthening for what a run ends with.
FetchInv == Agg1Inv /\ Serp1Inv /\ Agg1Typed /\ Kept /\ Serp1Typed /\ Finished /\ Outcome

\* The objects of a result.
LEMMA ObjectsOf ==
  ASSUME NEW s, s \in {<< >>} \cup {<<i, Junk>> : i \in Items}
  PROVE  /\ Serp1!Selected(s, {n \in DOMAIN s : s[n] # Junk})
              \in {<< >>} \cup {<<i>> : i \in Items}
         /\ \A i \in Items :
              (\E k \in DOMAIN Serp1!Selected(s, {n \in DOMAIN s : s[n] # Junk}) :
                 Serp1!Selected(s, {n \in DOMAIN s : s[n] # Junk})[k] = i)
              <=> \E k \in DOMAIN s : s[k] = i
         /\ Serp1!Selected(s, {n \in DOMAIN s : s[n] # Junk}) = << >> => s = << >>
  <1> DEFINE P == {n \in DOMAIN s : s[n] # Junk}
             Fits(f) == f = [n \in 0..Len(s) |->
                               IF n = 0 THEN << >>
                               ELSE IF n \in P THEN Append(f[n - 1], s[n]) ELSE f[n - 1]]
             f0 == CHOOSE f : Fits(f)
  <1>1. Junk \notin Items
    BY DiscoveryAssumption DEF Serp1!Serp1Constants
  <1>2. Serp1!Selected(s, P) = f0[Len(s)]
    BY DEF Serp1!Selected
  <1>3. CASE s = << >>
    <2>1. Len(s) = 0
      BY <1>3
    <2>2. Fits([n \in 0..0 |-> << >>])
      BY <2>1
    <2>3. Fits(f0)
      BY <2>2
    <2>4. f0[0] = << >>
      BY <2>1, <2>3
    <2> HIDE DEF f0, P
    <2>5. Serp1!Selected(s, P) = << >>
      BY <1>2, <2>1, <2>4
    <2>6. QED
      BY <1>3, <2>5 DEF P
  <1>4. ASSUME NEW i \in Items, s = <<i, Junk>>
        PROVE  Serp1!Selected(s, P) = <<i>>
    <2>1. /\ Len(s) = 2 /\ s[1] = i /\ s[2] = Junk /\ DOMAIN s = 1..2
          /\ 1 \in P /\ 2 \notin P
      BY <1>1, <1>4
    <2> DEFINE g == [n \in 0..2 |-> IF n = 0 THEN << >> ELSE <<i>>]
    <2> HIDE DEF P
    <2>2. g[0] = << >> /\ g[1] = <<i>> /\ g[2] = <<i>>
      OBVIOUS
    <2>3. Append(<< >>, i) = <<i>>
      OBVIOUS
    <2>4. \A n \in 0..2 : n = 0 \/ n = 1 \/ n = 2
      OBVIOUS
    <2>5. ASSUME NEW n \in 0..2
          PROVE  g[n] = IF n = 0 THEN << >>
                        ELSE IF n \in P THEN Append(g[n - 1], s[n]) ELSE g[n - 1]
      <3>1. CASE n = 0
        BY <2>2, <3>1
      <3>2. CASE n = 1
        <4>1. n # 0 /\ n - 1 = 0 /\ n \in P
          BY <2>1, <3>2
        <4>2. QED
          BY <2>1, <2>2, <2>3, <3>2, <4>1
      <3>3. CASE n = 2
        <4>1. n # 0 /\ n - 1 = 1 /\ n \notin P
          BY <2>1, <3>3
        <4>2. QED
          BY <2>2, <3>3, <4>1
      <3>4. QED
        BY <2>4, <3>1, <3>2, <3>3
    <2>6. Fits(g)
      BY <2>1, <2>5
    <2>7. Fits(f0)
      BY <2>6
    <2> HIDE DEF f0, g
    <2>8. f0[0] = << >>
      BY <2>1, <2>7
    <2>9. f0[1] = Append(f0[0], s[1])
      <3>1. 1 \in 0..Len(s) /\ 1 # 0 /\ 1 - 1 = 0
        BY <2>1
      <3>2. f0[1] = IF 1 = 0 THEN << >>
                    ELSE IF 1 \in P THEN Append(f0[1 - 1], s[1]) ELSE f0[1 - 1]
        BY <2>7, <3>1
      <3>3. QED
        BY <2>1, <3>1, <3>2
    <2>10. f0[2] = f0[1]
      <3>1. 2 \in 0..Len(s) /\ 2 # 0 /\ 2 - 1 = 1
        BY <2>1
      <3>2. f0[2] = IF 2 = 0 THEN << >>
                    ELSE IF 2 \in P THEN Append(f0[2 - 1], s[2]) ELSE f0[2 - 1]
        BY <2>7, <3>1
      <3>3. QED
        BY <2>1, <3>1, <3>2
    <2>11. QED
      BY <1>2, <2>1, <2>3, <2>8, <2>9, <2>10
  <1>5. ASSUME NEW i \in Items, s = <<i, Junk>>
        PROVE  /\ <<i>> # << >> /\ DOMAIN <<i>> = 1..1 /\ <<i>>[1] = i
               /\ DOMAIN s = 1..2 /\ s[1] = i /\ s[2] = Junk
    BY <1>5
  <1> HIDE DEF P
  <1>6. CASE \E i \in Items : s = <<i, Junk>>
    <2>1. PICK i \in Items : s = <<i, Junk>>
      BY <1>6
    <2>2. Serp1!Selected(s, P) = <<i>>
      BY <1>4, <2>1
    <2>3. /\ <<i>> # << >> /\ DOMAIN <<i>> = 1..1 /\ <<i>>[1] = i
          /\ DOMAIN s = 1..2 /\ s[1] = i /\ s[2] = Junk
      BY <1>5, <2>1
    <2>4. ASSUME NEW j \in Items
          PROVE  (\E n \in 1..1 : <<i>>[n] = j) <=> \E n \in 1..2 : s[n] = j
      <3>1. (\E n \in 1..1 : <<i>>[n] = j) <=> i = j
        BY <2>3
      <3>2. (\E n \in 1..2 : s[n] = j) <=> i = j
        BY <1>1, <2>3
      <3>3. QED
        BY <3>1, <3>2
    <2>5. QED
      BY <2>2, <2>3, <2>4 DEF P
  <1>7. QED
    BY <1>3, <1>6
\* AGG-1's other variables keep their types.
LEMMA Agg1TypedStep ==
  ASSUME Agg1Inv, Agg1Typed, Agg1!Next
  PROVE  Agg1Typed'
  <1>1. CASE Agg1!FetchRawJobs
    <2>1. /\ request' \in Agg1!Request /\ page' = 1 /\ state' \in {"fetching", "done"}
          /\ error' \in {error, "credentials"} /\ UNCHANGED <<changes, withdrawn>>
      BY <1>1 DEF Agg1!FetchRawJobs, Agg1Inv, Paged
    <2>2. Agg1!PageLimit' \in Nat \ {0}
      <3>1. /\ PageNumbers \subseteq Int /\ DefaultMaxPages \in Nat \ {0}
        BY DiscoveryAssumption DEF Agg1!Agg1Constants
      <3>2. request'.max_pages \in PageNumbers \cup {Absent}
        BY <2>1 DEF Agg1!Request
      <3>3. \A v \in PageNumbers \cup {Absent} :
              Agg1!AtLeast(1, Agg1!CoerceInt(v, DefaultMaxPages)) \in Nat \ {0}
        BY <3>1 DEF Agg1!AtLeast, Agg1!CoerceInt
      <3>4. QED
        BY <3>2, <3>3 DEF Agg1!PageLimit
    <2>3. page' \in 1..Agg1!PageLimit'
      BY <2>1, <2>2
    <2>4. QED
      BY <2>1, <2>3 DEF Agg1Typed, Agg1!Errors
  <1>2. CASE Agg1!PageAnswered
    <2>1. /\ Agg1!PageLimit' = Agg1!PageLimit /\ Agg1!PageLimit \in Nat
          /\ page \in 1..Agg1!PageLimit
      BY <1>2, PageLimits DEF Agg1!PageAnswered, Agg1!PageLimit, Agg1Inv, Paged, Agg1Typed
    <2>2. \/ state' = "done" /\ page' = page
          \/ state' = "fetching" /\ page' = page + 1 /\ page # Agg1!PageLimit
      BY <1>2 DEF Agg1!PageAnswered, Agg1!LastPage
    <2>3. page' \in 1..Agg1!PageLimit'
      BY <2>1, <2>2
    <2>4. QED
      BY <1>2, <2>2, <2>3 DEF Agg1!PageAnswered, Agg1Typed
  <1>3. CASE Agg1!RequestFailed
    BY <1>3 DEF Agg1!RequestFailed, Agg1Typed, Agg1!PageLimit
  <1>4. ASSUME NEW l, Agg1!ListChanges(l), withdrawn' \subseteq Postings
        PROVE  Agg1Typed'
    <2>1. changes' \in 0..MaxChanges
      BY <1>4, DiscoveryAssumption DEF Agg1!ListChanges, Agg1Typed, Agg1!Agg1Constants
    <2>2. QED
      BY <1>4, <2>1 DEF Agg1!ListChanges, Agg1Typed, Agg1!PageLimit
  <1>5. CASE Agg1!Publish
    BY <1>4, <1>5 DEF Agg1!Publish, Agg1Typed
  <1>6. CASE Agg1!Withdraw
    <2>1. PICK i \in DOMAIN listing :
            /\ Agg1!ListChanges(Agg1!RemoveAt(listing, i))
            /\ withdrawn' = withdrawn \cup {listing[i]}
      BY <1>6 DEF Agg1!Withdraw
    <2>2. listing[i] \in Postings
      BY <2>1, Elements, LenProperties DEF Agg1Inv, Listed
    <2>3. QED
      BY <1>4, <2>1, <2>2 DEF Agg1Typed
  <1>7. QED
    BY <1>1, <1>2, <1>3, <1>5, <1>6 DEF Agg1!Next

\* What was listed at the start is kept in sight.
LEMMA KeptStep ==
  ASSUME Agg1Inv, Kept, Agg1!Next
  PROVE  Kept'
  <1>1. /\ listing \in Seq(Postings) /\ atStart \in Seq(Postings) /\ raw \in Seq(Postings)
        /\ \A i, j \in 1..Len(listing) : i # j => listing[i] # listing[j]
    BY DEF Agg1Inv, Listed, Paged
  <1>2. CASE Agg1!FetchRawJobs
    <2>1. /\ UNCHANGED <<atStart, listing, withdrawn>>
          /\ state' = "done" => error' = "credentials"
      BY <1>2 DEF Agg1!FetchRawJobs
    <2>2. QED
      BY <2>1 DEF Kept, Agg1!ToSet
  <1>3. CASE Agg1!PageAnswered
    <2>1. PICK c \in Nat : PageAdded(c)
      BY <1>3, PageAdds
    <2>2. UNCHANGED <<atStart, listing, withdrawn>> /\ request \in Agg1!Request
      BY <1>3 DEF Agg1!PageAnswered, Agg1Inv, Paged
    <2>3. ASSUME state' = "done", raw' = << >>
          PROVE  listing' = << >>
      <3>1. Len(raw') = 0 /\ Len(raw) + c = 0
        BY <2>1, <2>3 DEF PageAdded
      <3>2. /\ Agg1!ResultLimit \in Nat \ {0} /\ Agg1!PageLimit \in Nat \ {0}
            /\ Agg1!PerPage \in Nat \ {0}
        BY <2>2, PageLimits
      <3>3. Agg1!PageLimit * Agg1!PerPage # 0
        <4>1. \A m, n \in Nat \ {0} : m * n # 0
          OBVIOUS
        <4>2. QED
          BY ONLY <3>2, <4>1
      <3>4. 0 >= Len(listing)
        BY <2>1, <2>3, <3>1, <3>2, <3>3 DEF PageAdded
      <3>5. Len(listing) = 0
        BY <1>1, <3>4, Elements
      <3>6. QED
        BY <1>1, <2>2, <3>5, EmptySeq
    <2>4. QED
      BY <2>2, <2>3 DEF Kept, Agg1!ToSet
  <1>4. CASE Agg1!RequestFailed
    BY <1>4 DEF Agg1!RequestFailed, Kept, Agg1!ToSet, Agg1!Errors
  <1>5. CASE Agg1!Publish
    <2>1. PICK p \in Postings \ (Agg1!ToSet(listing) \cup withdrawn) :
            Agg1!ListChanges(<<p>> \o listing) /\ withdrawn' = withdrawn
      BY <1>5 DEF Agg1!Publish
    <2>2. /\ listing' = <<p>> \o listing /\ atStart' = atStart /\ state' = "fetching"
      BY <2>1 DEF Agg1!ListChanges
    <2>3. /\ listing' \in Seq(Postings) /\ Len(listing') = Len(listing) + 1
          /\ \A i \in 1..Len(listing) : listing'[i + 1] = listing[i]
      BY <1>1, <2>1, <2>2, Pushed
    <2>4. ASSUME NEW x \in Agg1!ToSet(listing)
          PROVE  x \in Agg1!ToSet(listing)'
      <3>1. PICK i \in 1..Len(listing) : x = listing[i]
        BY <1>1, Elements
      <3>2. i + 1 \in 1..Len(listing') /\ listing'[i + 1] = x
        BY <1>1, <2>3, <3>1, Elements
      <3>3. QED
        BY <2>3, <3>2, LenProperties DEF Agg1!ToSet
    <2>5. QED
      BY <2>1, <2>2, <2>4 DEF Kept, Agg1!ToSet
  <1>6. CASE Agg1!Withdraw
    <2>1. PICK i \in DOMAIN listing :
            /\ Agg1!ListChanges(Agg1!RemoveAt(listing, i))
            /\ withdrawn' = withdrawn \cup {listing[i]}
      BY <1>6 DEF Agg1!Withdraw
    <2>2. /\ listing' = Agg1!RemoveAt(listing, i) /\ atStart' = atStart
          /\ state' = "fetching" /\ i \in 1..Len(listing)
      BY <1>1, <2>1, LenProperties DEF Agg1!ListChanges
    <2>3. /\ listing' \in Seq(Postings)
          /\ \A k \in 1..Len(listing) :
               k # i => \E m \in 1..Len(listing') : listing'[m] = listing[k]
      <3> DEFINE u == listing'
      <3>1. u = Agg1!RemoveAt(listing, i)
        BY <2>2
      <3> HIDE DEF u
      <3>2. /\ u \in Seq(Postings)
            /\ \A k \in 1..Len(listing) : k # i => \E m \in 1..Len(u) : u[m] = listing[k]
        BY <1>1, <2>2, <3>1, Removed
      <3>3. QED
        BY <3>2 DEF u
    <2>4. ASSUME NEW x \in Agg1!ToSet(listing), x # listing[i]
          PROVE  x \in Agg1!ToSet(listing)'
      <3>1. PICK k \in 1..Len(listing) : x = listing[k]
        BY <1>1, Elements
      <3>2. PICK m \in 1..Len(listing') : listing'[m] = x
        BY <2>3, <2>4, <3>1
      <3>3. QED
        BY <2>3, <3>2, LenProperties DEF Agg1!ToSet
    <2>5. QED
      BY <2>1, <2>2, <2>4 DEF Kept, Agg1!ToSet
  <1>7. QED
    BY <1>2, <1>3, <1>4, <1>5, <1>6 DEF Agg1!Next

\* The refusals are among the failures.
LEMMA RefusalIsAFailure ==
  ASSUME NEW a, Serp1!Missing(a) # {}
  PROVE  Serp1!Refusal[Serp1!Min(Serp1!Missing(a))] \in Serp1!Failures
  <1>1. Serp1!Min(Serp1!Missing(a)) \in {1, 2, 3, 4}
    BY RefusalIsNoTimeout
  <1>2. \A n \in {1, 2, 3, 4} : n \in DOMAIN Serp1!Refusal
    BY DEF Serp1!Refusal
  <1>3. \A n \in DOMAIN Serp1!Refusal : Serp1!Refusal[n] \in Serp1!Failures
    BY DEF Serp1!Failures
  <1>4. QED
    BY <1>1, <1>2, <1>3

\* SERP1's other variables keep their types, and a result is read of a finished task.
LEMMA Serp1TypedStep ==
  ASSUME Serp1Inv, Serp1Typed, Finished, Serp1!Next
  PROVE  Serp1Typed' /\ Finished'
  <1>1. Serp1!ResultItems \in {<< >>} \cup {<<i>> : i \in Items}
    BY ObjectsOf DEF Serp1!ResultItems, Serp1Typed
  <1>2. phase # "done" => failure = "none"
    BY DEF Serp1Inv, FailsOnce
  <1>3. /\ {"http", "task_post failed", "readiness timeout", "advanced-get failed",
            "expected items"} \subseteq Serp1!Failures
        /\ "none" \notin Serp1!Failures
    <2>1. DOMAIN Serp1!Refusal = 1..4
      BY DEF Serp1!Refusal
    <2>2. \A n \in 1..4 : Serp1!Refusal[n] # "none"
      <3>1. /\ Serp1!Refusal[1] = "requires login" /\ Serp1!Refusal[2] = "requires query"
            /\ Serp1!Refusal[3] = "requires location"
            /\ Serp1!Refusal[4] = "requires language"
        BY DEF Serp1!Refusal
      <3>2. \A n \in 1..4 : n = 1 \/ n = 2 \/ n = 3 \/ n = 4
        OBVIOUS
      <3>3. QED
        BY <3>1, <3>2
    <2>3. QED
      BY <2>1, <2>2 DEF Serp1!Failures
  <1>4. CASE Serp1!FetchRawJobs
    BY <1>3, <1>4, RefusalIsAFailure DEF Serp1!FetchRawJobs, Serp1Typed, Finished
  <1>5. CASE Serp1!TaskTaken
    BY <1>5 DEF Serp1!TaskTaken, Serp1Typed, Finished
  <1>6. CASE Serp1!TaskRefused
    BY <1>3, <1>6 DEF Serp1!TaskRefused, Serp1!Fail, Serp1Typed, Finished
  <1>7. CASE Serp1!TaskPostLost
    BY <1>3, <1>7 DEF Serp1!TaskPostLost, Serp1!Fail, Serp1Typed, Finished
  <1>8. CASE Serp1!ProviderFinishes
    BY <1>8 DEF Serp1!ProviderFinishes, Serp1Typed, Finished
  <1>9. CASE Serp1!PollOutOfTime
    BY <1>3, <1>9 DEF Serp1!PollOutOfTime, Serp1!Fail, Serp1Typed, Finished
  <1>10. CASE Serp1!PollSeesReady
    BY <1>10 DEF Serp1!PollSeesReady, Serp1Typed, Finished
  <1>11. CASE Serp1!PollSeesNothing
    <2>1. /\ lastPoll' = task /\ UNCHANGED <<task, answer, items>> /\ phase = "polling"
          /\ \/ phase' = phase /\ failure' = failure
             \/ phase' = "done" /\ failure' = "readiness timeout"
      BY <1>11 DEF Serp1!PollSeesNothing, Serp1!Fail, Serp1!Polling
    <2>2. QED
      BY <1>3, <2>1 DEF Serp1Typed, Finished
  <1>12. CASE Serp1!PollRefused
    BY <1>3, <1>12 DEF Serp1!PollRefused, Serp1!Fail, Serp1Typed, Finished
  <1>13. CASE Serp1!RequestBroken
    BY <1>3, <1>13 DEF Serp1!RequestBroken, Serp1!Fail, Serp1Typed, Finished
  <1>14. CASE Serp1!ReadRefused
    BY <1>3, <1>14 DEF Serp1!ReadRefused, Serp1!Fail, Serp1Typed, Finished
  <1>15. CASE Serp1!ReadResult
    <2>1. /\ phase = "reading" /\ phase' = "done" /\ items' = Serp1!ResultItems
          /\ UNCHANGED <<task, answer, lastPoll, failure>>
      BY <1>15 DEF Serp1!ReadResult
    <2>2. Serp1!ResultItems' = Serp1!ResultItems
      BY <2>1 DEF Serp1!ResultItems
    <2>3. QED
      BY <1>1, <2>1, <2>2 DEF Serp1Typed, Finished
  <1>16. CASE Serp1!ReadNoList
    BY <1>3, <1>16 DEF Serp1!ReadNoList, Serp1!Fail, Serp1Typed, Finished
  <1>17. QED
    BY <1>4, <1>5, <1>6, <1>7, <1>8, <1>9, <1>10, <1>11, <1>12, <1>13, <1>14, <1>15, <1>16
       DEF Serp1!Next

\* A run takes over what its connector returned.
LEMMA OutcomeStep ==
  ASSUME Agg1Inv, Serp1Typed, Outcome, Next
  PROVE  Outcome'
  <1>1. CASE NotDispatched
    BY <1>1 DEF NotDispatched, Outcome
  <1>2. CASE Agg1Step \/ Serp1Step
    BY <1>2 DEF Agg1Step, Serp1Step, Dispatched, Outcome
  <1>3. CASE Persist
    <2>1. /\ connector \in {"agg1", "serp1"}
          /\ connector = "agg1" => state = "done" /\ connector # "serp1"
          /\ connector = "serp1" => phase = "done"
      BY <1>3 DEF Persist, Returned, Dispatched
    <2>2. raw \in Seq(Postings \cup Items)
      BY Elements DEF Agg1Inv, Paged
    <2>3. items \in Seq(Postings \cup Items) /\ << >> \in Seq(Postings \cup Items)
      <3>1. << >> \in Seq(Postings \cup Items)
        OBVIOUS
      <3>2. \A i \in Items : <<i>> \in Seq(Postings \cup Items)
        OBVIOUS
      <3>3. QED
        BY <3>1, <3>2 DEF Serp1Typed
    <2>4. CASE connector = "agg1"
      <3>1. /\ UNCHANGED <<connector, enabled, raw, error, state>>
            /\ error = "none" => run' = "SUCCESS" /\ fetched' = raw
            /\ error # "none" => run' = "FAILED" /\ fetched' = << >>
        <4>1. UNCHANGED <<connector, enabled, raw, error, state>>
          BY <1>3 DEF Persist, agg1
        <4>2. error = "none" => run' = "SUCCESS" /\ fetched' = raw
          BY <1>3, <2>4 DEF Persist
        <4>3. error # "none" => run' = "FAILED" /\ fetched' = << >>
          BY <1>3, <2>4 DEF Persist
        <4>4. QED
          BY <4>1, <4>2, <4>3
      <3>2. QED
        BY <2>1, <2>2, <2>3, <2>4, <3>1 DEF Outcome
    <2>5. CASE connector = "serp1"
      <3>1. /\ UNCHANGED <<connector, enabled, items, failure, phase>>
            /\ failure = "none" => run' = "SUCCESS" /\ fetched' = items
            /\ failure # "none" => run' = "FAILED" /\ fetched' = << >>
        BY <1>3, <2>5 DEF Persist, serp1
      <3>2. QED
        BY <2>1, <2>3, <2>5, <3>1 DEF Outcome
    <2>6. QED
      BY <2>1, <2>4, <2>5
  <1>4. QED
    BY <1>1, <1>2, <1>3 DEF Next
\* The invariant holds at first.
LEMMA FetchInit == Init => Agg1Typed /\ Kept /\ Serp1Typed /\ Finished /\ Outcome
  <1>1. SUFFICES ASSUME Init
                 PROVE  Agg1Typed /\ Kept /\ Serp1Typed /\ Finished /\ Outcome
    OBVIOUS
  <1>2. /\ request = Agg1!NoRequest /\ atStart = listing /\ changes = 0 /\ withdrawn = {}
        /\ state = "idle" /\ page = 1 /\ error = "none"
        /\ task = "none" /\ answer = << >> /\ phase = "idle" /\ lastPoll = "none"
        /\ items = << >> /\ failure = "none"
        /\ run = "RUNNING" /\ fetched = << >> /\ connector \in Connectors
        /\ enabled \subseteq {"agg1", "serp1"}
    BY <1>1 DEF Init, Agg1!Init, Serp1!Init
  <1>3. Agg1Typed
    <2>1. request \in Agg1!Request
      BY <1>2 DEF Agg1!NoRequest, Agg1!Request
    <2>2. Agg1!PageLimit \in Nat \ {0}
      BY <2>1, PageLimits
    <2>3. page \in 1..Agg1!PageLimit /\ changes \in 0..MaxChanges
      BY <1>2, <2>2, DiscoveryAssumption DEF Agg1!Agg1Constants
    <2>4. QED
      BY <1>2, <2>3 DEF Agg1Typed
  <1>4. Kept
    BY <1>2 DEF Kept
  <1>5. Serp1Typed /\ Finished
    BY <1>2 DEF Serp1Typed, Finished
  <1>6. Outcome
    <2>1. << >> \in Seq(Postings \cup Items)
      OBVIOUS
    <2>2. QED
      BY <1>2, <2>1 DEF Outcome
  <1>7. QED
    BY <1>3, <1>4, <1>5, <1>6

\* Every step keeps it.
LEMMA FetchStep ==
  ASSUME FetchInv, [Next]_vars
  PROVE  Agg1Typed' /\ Kept' /\ Serp1Typed' /\ Finished' /\ Outcome'
  <1>1. Agg1Typed' /\ Kept'
    <2>1. CASE Agg1Step
      BY <2>1, Agg1TypedStep, KeptStep DEF Agg1Step, FetchInv
    <2>2. CASE UNCHANGED agg1
      BY <2>2 DEF FetchInv, agg1, Agg1Typed, Kept, Agg1!PageLimit, Agg1!ToSet
    <2>3. QED
      BY <2>1, <2>2 DEF Next, NotDispatched, Serp1Step, Persist, vars
  <1>2. Serp1Typed' /\ Finished'
    <2>1. CASE Serp1Step
      BY <2>1, Serp1TypedStep DEF Serp1Step, FetchInv
    <2>2. CASE UNCHANGED serp1
      BY <2>2 DEF FetchInv, serp1, Serp1Typed, Finished, Serp1!ResultItems
    <2>3. QED
      BY <2>1, <2>2 DEF Next, NotDispatched, Agg1Step, Persist, vars
  <1>3. Outcome'
    <2>1. CASE Next
      BY <2>1, OutcomeStep DEF FetchInv
    <2>2. CASE UNCHANGED vars
      BY <2>2 DEF FetchInv, vars, agg1, serp1, Outcome
    <2>3. QED
      BY <2>1, <2>2
  <1>4. QED
    BY <1>1, <1>2, <1>3

\* The strengthening is an invariant of run_discovery.
LEMMA FetchInvariance == Spec => []FetchInv
  <1> DEFINE Rest == Agg1Typed /\ Kept /\ Serp1Typed /\ Finished /\ Outcome
  <1>1. Init => Rest
    BY FetchInit
  <1>2. Agg1Inv /\ Serp1Inv /\ Rest /\ [Next]_vars => Rest'
    BY FetchStep DEF FetchInv
  <1> HIDE DEF Rest
  <1>3. Spec => []Rest
    BY <1>1, <1>2, Agg1Invariance, Serp1Invariance, PTL DEF Spec
  <1>4. Agg1Inv /\ Serp1Inv /\ Rest => FetchInv
    BY DEF Rest, FetchInv
  <1>5. QED
    BY <1>3, <1>4, Agg1Invariance, Serp1Invariance, PTL

\* Every variable of both connectors and of the run has its type.
THEOREM FetchTypes == Spec => []TypeOK
  <1>1. FetchInv => TypeOK
    <2>1. SUFFICES ASSUME FetchInv
                   PROVE  TypeOK
      OBVIOUS
    <2>2. Agg1!TypeOK
      BY <2>1 DEF FetchInv, Agg1Inv, Listed, Paged, Agg1Typed, Agg1!TypeOK
    <2>3. Serp1!TypeOK
      <3>1. /\ answer \in Seq(Items \cup {Junk}) /\ items \in Seq(Items)
        <4>1. /\ << >> \in Seq(Items) /\ << >> \in Seq(Items \cup {Junk})
              /\ \A i \in Items : /\ <<i>> \in Seq(Items)
                                  /\ <<i, Junk>> \in Seq(Items \cup {Junk})
          OBVIOUS
        <4>2. QED
          BY <2>1, <4>1 DEF FetchInv, Serp1Typed
      <3>2. QED
        BY <2>1, <3>1 DEF FetchInv, Serp1Inv, InBounds, Serp1Typed, Serp1!TypeOK
    <2>4. QED
      BY <2>1, <2>2, <2>3 DEF FetchInv, Outcome, TypeOK
  <1>2. QED
    BY <1>1, FetchInvariance, PTL

\* SERP1 succeeds only with what the task it posted found: the task was seen finished
\* and every object of its result is returned.
THEOREM SuccessesAreAnswers == Spec => []SuccessIsTheAnswer
  <1>1. FetchInv => SuccessIsTheAnswer
    <2>1. SUFFICES ASSUME FetchInv, phase = "done", failure = "none"
                   PROVE  /\ lastPoll = task /\ task \in {"ready", "failed"}
                          /\ task = "ready" => \A i \in Items :
                               (\E n \in DOMAIN items : items[n] = i)
                               <=> \E n \in DOMAIN answer : answer[n] = i
      BY DEF SuccessIsTheAnswer, Serp1!SuccessIsTheAnswer
    <2>2. /\ lastPoll = task /\ task \in {"ready", "failed"} /\ items = Serp1!ResultItems
          /\ answer \in {<< >>} \cup {<<i, Junk>> : i \in Items}
      BY <2>1 DEF FetchInv, Finished, Serp1Typed
    <2>3. ASSUME task = "ready"
          PROVE  items = Serp1!Selected(answer, {n \in DOMAIN answer : answer[n] # Junk})
      BY <2>2, <2>3 DEF Serp1!ResultItems
    <2>4. ASSUME task = "ready", NEW i \in Items
          PROVE  (\E n \in DOMAIN items : items[n] = i)
                 <=> \E n \in DOMAIN answer : answer[n] = i
      <3> DEFINE found == Serp1!Selected(answer, {n \in DOMAIN answer : answer[n] # Junk})
      <3>1. (\E n \in DOMAIN found : found[n] = i) <=> \E n \in DOMAIN answer :
                answer[n] = i
        BY <2>2, ObjectsOf
      <3> HIDE DEF found
      <3>2. items = found
        BY <2>3, <2>4 DEF found
      <3>3. QED
        BY <3>1, <3>2
    <2>5. QED
      BY <2>2, <2>4
  <1>2. QED
    BY <1>1, FetchInvariance, PTL

\* A SUCCESS run that fetched nothing met an empty source: a failed request on the
\* way never ends as one.
THEOREM EmptySuccessesAreEmpty == Spec => []EmptySuccess
  <1>1. FetchInv => EmptySuccess
    <2>1. SUFFICES ASSUME FetchInv, run = "SUCCESS", fetched = << >>
                   PROVE  IF connector = "agg1" THEN ToSet(atStart) \subseteq withdrawn
                          ELSE \/ task = "failed"
                               \/ task = "ready" /\ \A i \in ToSet(answer) : i = Junk
      BY DEF EmptySuccess
    <2>2. CASE /\ connector = "agg1" /\ state = "done" /\ error = "none"
               /\ fetched = raw
      <3>1. listing = << >>
            /\ Agg1!ToSet(atStart) \subseteq Agg1!ToSet(listing) \cup withdrawn
        BY <2>1, <2>2 DEF FetchInv, Kept
      <3>2. Agg1!ToSet(listing) = {}
        BY <3>1 DEF Agg1!ToSet
      <3>3. ToSet(atStart) = Agg1!ToSet(atStart)
        BY DEF ToSet, Agg1!ToSet
      <3>4. QED
        BY <2>2, <3>1, <3>2, <3>3
    <2>3. CASE /\ connector = "serp1" /\ phase = "done" /\ failure = "none"
               /\ fetched = items
      <3>1. /\ task \in {"ready", "failed"} /\ Serp1!ResultItems = << >>
            /\ answer \in {<< >>} \cup {<<i, Junk>> : i \in Items}
        BY <2>1, <2>3 DEF FetchInv, Finished, Serp1Typed
      <3>2. task = "ready" => answer = << >>
        BY <3>1, ObjectsOf DEF Serp1!ResultItems
      <3>3. task = "ready" => ToSet(answer) = {}
        BY <3>2 DEF ToSet
      <3>4. QED
        BY <2>3, <3>1, <3>3
    <2>4. QED
      BY <2>1, <2>2, <2>3 DEF FetchInv, Outcome
  <1>2. QED
    BY <1>1, FetchInvariance, PTL
================================================================================
