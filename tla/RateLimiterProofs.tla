------------------------- MODULE RateLimiterProofs -------------------------
(***************************************************************************)
(* The rate limiter keeps its bound, and its promise, for any number of    *)
(* clients, any limit, any window and any clock.                           *)
(***************************************************************************)
EXTENDS RateLimiter, TLAPS

\* A deque holds at most Limit times, in order, and none of the future.
DequeInv ==
  \A c \in Clients :
    /\ popped[c] <= Len(served[c])
    /\ Len(served[c]) - popped[c] <= Limit
    /\ \A i \in 1 .. Len(served[c]) : served[c][i] <= now
    /\ \A i, j \in 1 .. Len(served[c]) : i <= j => served[c][i] <= served[c][j]

\* What a client was told when it was refused outlasts the time by which its
\* deque was full, but for one second.
PromiseInv ==
  \A c \in Clients :
    refused[c] # NotRefused =>
      \E j \in 1 .. Len(served[c]) :
        /\ Len(served[c]) - j < Limit
        /\ served[c][j] + Window < refused[c].at + (refused[c].after + 1) * TicksASecond

LimiterInv == LimiterTypeOK /\ DequeInv /\ WindowBound /\ PromiseInv

-----------------------------------------------------------------------------
\* The quotient that int() leaves is less than a second short.
LEMMA DivisionBound ==
  ASSUME NEW x \in Int, NEW t \in Nat, t > 0
  PROVE  /\ x \div t \in Int
         /\ x < (x \div t + 1) * t
  OBVIOUS

\* Retry-After is a positive number of seconds, and no more than one second
\* less than the time that is left of the window.
LEMMA RetryAfterBound ==
  ASSUME now \in Nat, NEW oldest \in Nat
  PROVE  /\ RetryAfter(oldest) \in Nat
         /\ oldest + Window < now + (RetryAfter(oldest) + 1) * TicksASecond
<1> DEFINE left == Window - (now - oldest)
           rest == left \div TicksASecond
<1>1. TicksASecond \in Nat /\ TicksASecond > 0
  BY TicksAssumption
<1>2. Window \in Nat
  BY <1>1, SecondsAssumption DEF Window
<1>3. left \in Int
  BY <1>2
<1> HIDE DEF left
<1>4. rest \in Int /\ left < (rest + 1) * TicksASecond
  BY <1>1, <1>3, DivisionBound
<1> HIDE DEF rest
<1>5. RetryAfter(oldest) = IF rest < 1 THEN 1 ELSE rest
  BY DEF RetryAfter, rest, left
<1>6. RetryAfter(oldest) \in Nat /\ rest <= RetryAfter(oldest)
  BY <1>4, <1>5
<1>7. (rest + 1) * TicksASecond <= (RetryAfter(oldest) + 1) * TicksASecond
  BY <1>1, <1>4, <1>6
<1>8. left < (RetryAfter(oldest) + 1) * TicksASecond
  <2> DEFINE a == (rest + 1) * TicksASecond
             b == (RetryAfter(oldest) + 1) * TicksASecond
  <2>1. a \in Int /\ b \in Int
    BY <1>1, <1>4, <1>6
  <2>2. left < a /\ a <= b
    BY <1>4, <1>7
  <2> HIDE DEF a, b
  <2>3. left < b
    BY <2>1, <2>2, <1>3
  <2> QED
    BY <2>3 DEF b
<1>9. (RetryAfter(oldest) + 1) * TicksASecond \in Int
  BY <1>1, <1>6
<1> QED
  BY <1>2, <1>6, <1>8, <1>9 DEF left

\* What the constants give: the window is a number of ticks.
LEMMA WindowType == Window \in Nat /\ Limit \in Nat /\ Limit > 0
  BY SecondsAssumption, TicksAssumption, LimitAssumption DEF Window

-----------------------------------------------------------------------------
\* A limiter that has seen nobody satisfies the invariant.
LEMMA LimiterInitial == LimiterInit => LimiterInv
<1> SUFFICES ASSUME LimiterInit PROVE LimiterInv
  OBVIOUS
<1>1. LimiterTypeOK
  BY DEF LimiterInit, LimiterTypeOK, Refusal
<1>5. \A c \in Clients : Len(served[c]) = 0 /\ popped[c] = 0
  BY DEF LimiterInit
<1>2. DequeInv
  <2>1. ASSUME NEW c \in Clients
        PROVE  /\ popped[c] <= Len(served[c]) /\ Len(served[c]) - popped[c] <= Limit
               /\ 1 .. Len(served[c]) = {}
    BY <1>5, WindowType
  <2> QED
    BY <2>1 DEF DequeInv
<1>3. WindowBound
  BY <1>5 DEF WindowBound
<1>4. PromiseInv
  BY DEF LimiterInit, PromiseInv
<1> QED
  BY <1>1, <1>2, <1>3, <1>4 DEF LimiterInv

\* Time alone disturbs nothing.
LEMMA TickKeeps == LimiterInv /\ Tick => LimiterInv'
<1> SUFFICES ASSUME LimiterInv, Tick PROVE LimiterInv'
  OBVIOUS
<1> USE DEF LimiterInv, Tick
<1>1. LimiterTypeOK'
  BY DEF LimiterTypeOK
<1>2. DequeInv'
  BY DEF DequeInv, LimiterTypeOK
<1>3. WindowBound'
  BY DEF WindowBound, Window
<1>4. PromiseInv'
  BY DEF PromiseInv, Window
<1> QED
  BY <1>1, <1>2, <1>3, <1>4

\* A request that is served begins a new window only where one may begin.
LEMMA ServeKeeps ==
  ASSUME LimiterInv, NEW c \in Clients, Serve(c)
  PROVE  LimiterInv'
<1> USE DEF LimiterInv
<1>1. PICK n \in 0 .. Len(served[c]) :
        /\ Pops(c, n)
        /\ Len(served[c]) - n < Limit
        /\ served' = [served EXCEPT ![c] = Append(@, now)]
        /\ popped' = [popped EXCEPT ![c] = n]
        /\ refused' = [refused EXCEPT ![c] = NotRefused]
        /\ now' = now
  BY DEF Serve
<1>2. /\ now \in Nat /\ served[c] \in Seq(Nat) /\ Len(served[c]) \in Nat /\ n \in Nat
      /\ served \in [Clients -> Seq(Nat)] /\ popped \in [Clients -> Nat]
      /\ refused \in [Clients -> Refusal]
  BY DEF LimiterTypeOK
<1>3. /\ served'[c] = Append(served[c], now) /\ served'[c] \in Seq(Nat)
      /\ Len(served'[c]) = Len(served[c]) + 1
      /\ \A i \in 1 .. Len(served[c]) : served'[c][i] = served[c][i]
      /\ served'[c][Len(served[c]) + 1] = now
  BY <1>1, <1>2
<1>4. \A d \in Clients \ {c} : /\ served'[d] = served[d] /\ popped'[d] = popped[d]
                               /\ refused'[d] = refused[d]
  BY <1>1, <1>2
<1>5. popped'[c] = n /\ refused'[c] = NotRefused
  BY <1>1, <1>2
<1>6. LimiterTypeOK'
  BY <1>1, <1>2, <1>3 DEF LimiterTypeOK, Refusal
<1>7. DequeInv'
  <2> SUFFICES ASSUME NEW d \in Clients
               PROVE  /\ popped'[d] <= Len(served'[d])
                      /\ Len(served'[d]) - popped'[d] <= Limit
                      /\ \A i \in 1 .. Len(served'[d]) : served'[d][i] <= now
                      /\ \A i, j \in 1 .. Len(served'[d]) :
                           i <= j => served'[d][i] <= served'[d][j]
    BY <1>1 DEF DequeInv
  <2>1. CASE d # c
    BY <2>1, <1>4 DEF DequeInv
  <2>2. CASE d = c
    <3>1. popped'[c] <= Len(served'[c]) /\ Len(served'[c]) - popped'[c] <= Limit
      BY <1>1, <1>2, <1>3, <1>5, WindowType
    <3>2. ASSUME NEW i \in 1 .. Len(served'[c]) PROVE served'[c][i] <= now
      BY <1>2, <1>3, <3>2 DEF DequeInv
    <3>3. ASSUME NEW i \in 1 .. Len(served'[c]), NEW j \in 1 .. Len(served'[c]), i <= j
          PROVE  served'[c][i] <= served'[c][j]
      <4>1. CASE j = Len(served[c]) + 1
        <5>1. served'[c][j] = now /\ served'[c][i] <= now
          BY <4>1, <1>3, <3>2
        <5> QED
          BY <5>1
      <4>2. CASE j # Len(served[c]) + 1
        <5>1. i \in 1 .. Len(served[c]) /\ j \in 1 .. Len(served[c])
          BY <4>2, <1>2, <1>3, <3>3
        <5>2. served[c][i] <= served[c][j]
          BY <5>1, <3>3 DEF DequeInv
        <5> QED
          BY <5>1, <5>2, <1>3
      <4> QED
        BY <4>1, <4>2
    <3> QED
      BY <2>2, <3>1, <3>2, <3>3
  <2> QED
    BY <2>1, <2>2
<1>8. WindowBound'
  <2> SUFFICES ASSUME NEW d \in Clients, NEW i \in 1 .. Len(served'[d]),
                      i + Limit <= Len(served'[d])
               PROVE  served'[d][i + Limit] - served'[d][i] >= Window
    BY DEF WindowBound, Window
  <2>1. CASE d # c
    BY <2>1, <1>4 DEF WindowBound
  <2>2. CASE d = c /\ i + Limit <= Len(served[c])
    <3>1. i \in 1 .. Len(served[c]) /\ i + Limit \in 1 .. Len(served[c])
      BY <2>2, <1>2, <1>3, WindowType
    <3>2. served[c][i + Limit] - served[c][i] >= Window
      BY <2>2, <3>1 DEF WindowBound
    <3> QED
      BY <2>2, <3>1, <3>2, <1>3
  <2>3. CASE d = c /\ i + Limit = Len(served[c]) + 1
    <3>1. i \in 1 .. n /\ i <= Len(served[c])
      BY <2>3, <1>1, <1>2, WindowType
    <3>2. served[c][i] <= now - Window
      BY <3>1, <1>1 DEF Pops
    <3>3. served'[c][i + Limit] = now /\ served'[c][i] = served[c][i] /\ served[c][i] \in Nat
      BY <2>3, <3>1, <1>2, <1>3
    <3> DEFINE first == served[c][i]
    <3>4. first \in Nat /\ first <= now - Window /\ now - first >= Window
      BY <3>2, <3>3, <1>2, WindowType
    <3> QED
      BY <2>3, <3>3, <3>4
  <2>4. d = c => i + Limit <= Len(served[c]) \/ i + Limit = Len(served[c]) + 1
    BY <1>2, <1>3, WindowType
  <2> QED
    BY <2>1, <2>2, <2>3, <2>4
<1>9. PromiseInv'
  BY <1>4, <1>5 DEF PromiseInv, Window
<1> QED
  BY <1>6, <1>7, <1>8, <1>9

\* A refusal pops what has left the window and, when it is the first, makes a
\* promise; what was promised before still stands.
LEMMA RefuseKeeps ==
  ASSUME LimiterInv, NEW c \in Clients, Refuse(c)
  PROVE  LimiterInv'
<1> USE DEF LimiterInv
<1>1. PICK n \in 0 .. Len(served[c]) :
        /\ Pops(c, n)
        /\ Len(served[c]) - n >= Limit
        /\ popped' = [popped EXCEPT ![c] = n]
        /\ refused' = [refused EXCEPT ![c] = FirstRefusal(c, served[c][n + 1])]
        /\ now' = now /\ served' = served
  BY DEF Refuse
<1>2. /\ now \in Nat /\ served[c] \in Seq(Nat) /\ Len(served[c]) \in Nat /\ n \in Nat
      /\ popped[c] \in Nat /\ popped \in [Clients -> Nat]
      /\ refused \in [Clients -> Refusal]
  BY DEF LimiterTypeOK
<1>3. \A d \in Clients \ {c} : popped'[d] = popped[d] /\ refused'[d] = refused[d]
  BY <1>1, <1>2
<1>4. popped'[c] = n /\ refused'[c] = FirstRefusal(c, served[c][n + 1])
  BY <1>1, <1>2
<1>5. n >= popped[c]
  BY <1>1, <1>2 DEF Pops
<1>6. n + 1 \in 1 .. Len(served[c]) /\ served[c][n + 1] \in Nat
  BY <1>1, <1>2, WindowType
<1> DEFINE promise == RetryAfter(served[c][n + 1])
<1>7. /\ promise \in Nat
      /\ served[c][n + 1] + Window < now + (promise + 1) * TicksASecond
  BY <1>2, <1>6, RetryAfterBound
<1> HIDE DEF promise
<1>8. FirstRefusal(c, served[c][n + 1]) =
        IF refused[c] = NotRefused THEN [at |-> now, after |-> promise] ELSE refused[c]
  BY DEF FirstRefusal, promise
<1>9. LimiterTypeOK'
  BY <1>1, <1>2, <1>7, <1>8 DEF LimiterTypeOK, Refusal
<1>10. DequeInv'
  <2>1. ASSUME NEW d \in Clients
        PROVE  popped'[d] <= Len(served[d]) /\ Len(served[d]) - popped'[d] <= Limit
    <3>1. CASE d = c
      <4>1. Len(served[c]) - popped[c] <= Limit
        BY DEF DequeInv
      <4> QED
        BY <3>1, <4>1, <1>2, <1>4, <1>5, WindowType
    <3>2. CASE d # c
      BY <3>2, <1>3 DEF DequeInv
    <3> QED
      BY <3>1, <3>2
  <2> QED
    BY <2>1, <1>1 DEF DequeInv
<1>11. WindowBound'
  BY <1>1 DEF WindowBound, Window
<1>12. PromiseInv'
  <2> SUFFICES ASSUME NEW d \in Clients, refused'[d] # NotRefused
               PROVE  \E j \in 1 .. Len(served[d]) :
                        /\ Len(served[d]) - j < Limit
                        /\ served[d][j] + Window
                             < refused'[d].at + (refused'[d].after + 1) * TicksASecond
    BY <1>1 DEF PromiseInv, Window
  <2>1. CASE refused'[d] = refused[d]
    BY <2>1 DEF PromiseInv
  <2>2. CASE refused'[d] # refused[d]
    <3>1. d = c /\ refused'[d] = [at |-> now, after |-> promise]
      BY <2>2, <1>3, <1>4, <1>8
    <3>2. Len(served[c]) - (n + 1) < Limit
      BY <1>2, <1>5, WindowType DEF DequeInv
    <3> QED
      BY <3>1, <3>2, <1>6, <1>7
  <2> QED
    BY <2>1, <2>2
<1> QED
  BY <1>9, <1>10, <1>11, <1>12

\* The invariant is inductive.
LEMMA LimiterInductive == LimiterInv /\ [LimiterNext]_limiterVars => LimiterInv'
<1> SUFFICES ASSUME LimiterInv, [LimiterNext]_limiterVars PROVE LimiterInv'
  OBVIOUS
<1>1. CASE Tick
  BY <1>1, TickKeeps
<1>2. ASSUME NEW c \in Clients, Serve(c) PROVE LimiterInv'
  BY <1>2, ServeKeeps
<1>3. ASSUME NEW c \in Clients, Refuse(c) PROVE LimiterInv'
  BY <1>3, RefuseKeeps
<1>4. CASE UNCHANGED limiterVars
  BY <1>4 DEF limiterVars, LimiterInv, LimiterTypeOK, DequeInv, WindowBound, PromiseInv, Window
<1> QED
  BY <1>1, <1>2, <1>3, <1>4 DEF LimiterNext

\* Every reachable state satisfies the invariant.
LEMMA LimiterInvariant == LimiterSpec => []LimiterInv
<1> QED
  BY LimiterInitial, LimiterInductive, PTL DEF LimiterSpec

-----------------------------------------------------------------------------
\* RateLimiter.allow: whatever limit and window are configured, any Limit + 1
\* requests of a client that are served span at least a window.
THEOREM LimitHolds == LimiterSpec => []WindowBound
<1> QED
  BY LimiterInvariant, PTL DEF LimiterInv

\* A refusal after the promised time, and one more second, is impossible.
LEMMA PromiseKept ==
  ASSUME LimiterInv, NEW c \in Clients, Refuse(c), refused[c] # NotRefused
  PROVE  now < refused[c].at + (refused[c].after + 1) * TicksASecond
<1> USE DEF LimiterInv
<1>1. PICK n \in 0 .. Len(served[c]) : Pops(c, n) /\ Len(served[c]) - n >= Limit
  BY DEF Refuse
<1>2. now \in Nat /\ served[c] \in Seq(Nat) /\ Len(served[c]) \in Nat
  BY DEF LimiterTypeOK
<1>3. PICK j \in 1 .. Len(served[c]) :
        /\ Len(served[c]) - j < Limit
        /\ served[c][j] + Window < refused[c].at + (refused[c].after + 1) * TicksASecond
  BY DEF PromiseInv
<1>4. n + 1 \in 1 .. Len(served[c]) /\ n + 1 <= j
  BY <1>1, <1>2, <1>3, WindowType
<1>5. served[c][n + 1] > now - Window
  BY <1>1, <1>2, <1>4 DEF Pops
<1>6. served[c][n + 1] <= served[c][j]
  BY <1>4 DEF DequeInv
<1>7. served[c][j] \in Nat /\ served[c][n + 1] \in Nat /\ now < served[c][j] + Window
  <2> DEFINE first == served[c][n + 1]
             last  == served[c][j]
  <2>1. first \in Nat /\ last \in Nat
    BY <1>2, <1>4
  <2>2. first > now - Window /\ first <= last
    BY <1>5, <1>6
  <2> HIDE DEF first, last
  <2>3. now < last + Window
    BY <2>1, <2>2, <1>2, WindowType
  <2> QED
    BY <2>1, <2>3 DEF first, last
<1>8. refused[c] \in [at : Nat, after : Nat]
  BY DEF LimiterTypeOK, Refusal
<1> DEFINE deadline == refused[c].at + (refused[c].after + 1) * TicksASecond
<1>9. deadline \in Int
  BY <1>8, TicksAssumption
<1> HIDE DEF deadline
<1>10. served[c][j] + Window < deadline
  BY <1>3 DEF deadline
<1>11. now < deadline
  BY <1>2, <1>7, <1>9, <1>10, WindowType
<1> QED
  BY <1>11 DEF deadline

\* The middleware's Retry-After: a client that is refused, waits as long as it
\* is told and a second more, is not refused again, whatever it and others
\* asked in between.
THEOREM PatienceIsRewarded == LimiterSpec => PatientIsServed
<1>1. LimiterInv /\ [LimiterNext]_limiterVars =>
        [\A c \in Clients :
           Refuse(c) /\ refused[c] # NotRefused =>
             now < refused[c].at + (refused[c].after + 1) * TicksASecond]_limiterVars
  BY PromiseKept
<1> QED
  BY <1>1, LimiterInvariant, PTL DEF LimiterSpec, PatientIsServed
=============================================================================
