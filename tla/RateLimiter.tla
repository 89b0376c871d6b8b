---------------------------- MODULE RateLimiter ----------------------------
(***************************************************************************)
(* RateLimiter and the middleware that asks it: a client is served at most *)
(* Limit times in any window, and is told when to come back.               *)
(*                                                                         *)
(* The deque of a client is the times it was served, less those popped at  *)
(* the front: the whole list is kept here, with the number popped.         *)
(***************************************************************************)
EXTENDS Integers, Sequences

CONSTANTS
  Clients,
  Limit,        \* rate_limit_requests_per_minute
  Seconds,      \* window_seconds
  TicksASecond  \* how fine the clock is

ASSUME LimitAssumption == Limit \in Nat \ {0}
ASSUME SecondsAssumption == Seconds \in Nat \ {0}
ASSUME TicksAssumption == TicksASecond \in Nat \ {0}

VARIABLES
  now,      \* monotonic(), in ticks
  served,   \* served[c]: the times client c was served
  popped,   \* popped[c]: how many of them have left the deque
  refused   \* history: the first refusal of c since it was served

limiterVars == <<now, served, popped, refused>>

Window == Seconds * TicksASecond
NotRefused == [at |-> 0, after |-> -1]
Refusal == [at : Nat, after : Nat] \cup {NotRefused}

LimiterInit ==
  /\ now = 0
  /\ served = [c \in Clients |-> << >>]
  /\ popped = [c \in Clients |-> 0]
  /\ refused = [c \in Clients |-> NotRefused]

\* Mutant of Pops: the window is one tick short.
PopsEarly(c, n) ==
  /\ n \in popped[c] .. Len(served[c])
  /\ \A i \in 1 .. n : served[c][i] <= now - Window + 1
  /\ n < Len(served[c]) => served[c][n + 1] > now - Window + 1

\* The while loop leaves n popped: all up to the cutoff, and no more.
Pops(c, n) ==
  /\ n \in popped[c] .. Len(served[c])
  /\ \A i \in 1 .. n : served[c][i] <= now - Window
  /\ n < Len(served[c]) => served[c][n + 1] > now - Window

\* max(1, int(window - (now - oldest)))
RetryAfter(oldest) ==
  LET rest == (Window - (now - oldest)) \div TicksASecond
  IN  IF rest < 1 THEN 1 ELSE rest

FirstRefusal(c, oldest) ==
  IF refused[c] = NotRefused THEN [at |-> now, after |-> RetryAfter(oldest)] ELSE refused[c]

Serve(c) ==
  \E n \in 0 .. Len(served[c]) :
    /\ Pops(c, n)
    /\ Len(served[c]) - n < Limit
    /\ served' = [served EXCEPT ![c] = Append(@, now)]
    /\ popped' = [popped EXCEPT ![c] = n]
    /\ refused' = [refused EXCEPT ![c] = NotRefused]
    /\ UNCHANGED now

\* Mutant of Refuse: a refused request takes a place in the window.
RefuseAndLog(c) ==
  \E n \in 0 .. Len(served[c]) :
    /\ Pops(c, n)
    /\ Len(served[c]) - n >= Limit
    /\ served' = [served EXCEPT ![c] = Append(@, now)]
    /\ popped' = [popped EXCEPT ![c] = n]
    /\ refused' = [refused EXCEPT ![c] = FirstRefusal(c, served[c][n + 1])]
    /\ UNCHANGED now

\* 429, with Retry-After.
Refuse(c) ==
  \E n \in 0 .. Len(served[c]) :
    /\ Pops(c, n)
    /\ Len(served[c]) - n >= Limit
    /\ popped' = [popped EXCEPT ![c] = n]
    /\ refused' = [refused EXCEPT ![c] = FirstRefusal(c, served[c][n + 1])]
    /\ UNCHANGED <<now, served>>

Tick == now' = now + 1 /\ UNCHANGED <<served, popped, refused>>

LimiterNext == Tick \/ \E c \in Clients : Serve(c) \/ Refuse(c)
LimiterSpec == LimiterInit /\ [][LimiterNext]_limiterVars

-----------------------------------------------------------------------------
LimiterTypeOK ==
  /\ now \in Nat
  /\ served \in [Clients -> Seq(Nat)]
  /\ popped \in [Clients -> Nat]
  /\ refused \in [Clients -> Refusal]

\* Of any Limit + 1 times a client was served, the first and the last are a
\* window apart, wherever the window begins.
WindowBound ==
  \A c \in Clients : \A i \in 1 .. Len(served[c]) :
    i + Limit <= Len(served[c]) => served[c][i + Limit] - served[c][i] >= Window

\* Retry-After may be a second short, and no more: from that second on the
\* client is not refused again, however often it asked in between.
PatientIsServed ==
  [][\A c \in Clients :
       Refuse(c) /\ refused[c] # NotRefused =>
         now < refused[c].at + (refused[c].after + 1) * TicksASecond]_limiterVars

=============================================================================
