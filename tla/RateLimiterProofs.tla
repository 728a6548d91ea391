------------------------- MODULE RateLimiterProofs -------------------------
(***************************************************************************)
(* Theorems about RateLimiter, for every limit, window length, number of   *)
(* requests in flight and length of time.                                  *)
(*                                                                         *)
(* What the script weighs is the sum of two counters, each times a factor  *)
(* that depends on the time, so the proofs are about products: the lemmas  *)
(* of the first part say all that is used of windows and of products.      *)
(* Then one invariant per promise of the limiter: a counter lives as long  *)
(* as it is weighed (ExpiryOK), what it has promised is covered by the     *)
(* limit for every request it may still be asked about (PromiseOK), the    *)
(* requests let through in the last seconds are among the admissions of    *)
(* two windows (PromptOK, LateOK), and a refused client that waits leaves  *)
(* ever emptier windows behind (StreakOK).                                 *)
(***************************************************************************)
EXTENDS RateLimiter, TLAPS

\* Two abbreviations that every proof expands.
USE DEF history, InWindow

\* A request is counted within MaxLag seconds of its stamp.
StampOK == \A r \in InFlight : stamp[r] <= clock /\ clock <= stamp[r] + MaxLag

\* A counter that was created lives until the window after its own is over.
ExpiryOK == \A w \in Windows : hits[w] > 0 => (w + 2) * Window <= expires[w]

\* Nothing is counted in a window that has not begun.
FutureOK == \A w \in Windows : clock < w * Window => hits[w] = 0

\* The two counters as they weigh on a request stamped t, without this request.
Load(t) == Hits(WindowOf(t)) * Window + Hits(WindowOf(t) - 1) * (Window - Elapsed(t))

\* The limit covers what is promised on top of what weighs on a request that is in
\* flight or sent now.
PromiseOK == promise > 0 =>
    \A t \in {clock} \cup {stamp[r] : r \in InFlight} :
        Load(t) + promise * Window <= Limit * Window

\* A client that waits as it is told has one request in flight; nothing is counted
\* behind the window its wait ends in, then not in this window either, then at most
\* one request in the window before.
StreakOK ==
    /\ streak > 0 =>
          /\ \A r, s \in InFlight : r = s
          /\ \A r \in InFlight : notBefore <= stamp[r]
          /\ \A w \in Windows : notBefore < w * Window => hits[w] = 0
    /\ streak > 1 => \A w \in Windows : notBefore < (w + 1) * Window => hits[w] = 0
    /\ streak > 2 => \A w \in Windows : notBefore < (w + 2) * Window => hits[w] <= 1
    /\ ObedientClientIsAdmitted

\* The inductive invariant, in production and elsewhere.
IInv ==
    /\ TypeOK
    /\ StampOK
    /\ ExpiryOK
    /\ FutureOK
    /\ Limit > 1 => StreakOK

\* Of the requests let through in the last seconds, those of the current window are
\* among its admissions, and the others among those of the window before.
PromptOK ==
    LET w == WindowOf(clock)
        e == Elapsed(clock)
    IN  /\ clock >= Window
        /\ \A n \in 1 .. Window : \A m \in 1 .. n : prompt[m] <= prompt[n]
        /\ prompt[e + 1] <= admitted[w]
        /\ \A n \in e + 2 .. Window : prompt[n] - prompt[e + 1] <= admitted[w - 1]

\* Late or not, what n seconds and the lag before them let through is among the
\* admissions of the current window, or of this one and the one before.
LateOK ==
    LET w == WindowOf(clock)
        e == Elapsed(clock)
    IN  /\ \A n \in 1 .. Window : n + MaxLag <= e + 1 => prompt[n] + late[n] <= admitted[w]
        /\ \A n \in 1 .. Window :
               n + MaxLag <= Window => prompt[n] + late[n] <= admitted[w] + admitted[w - 1]

\* What is added in production, where nothing is let through uncounted.
ProductionInv ==
    /\ CountersCoverAdmissions
    /\ WindowCap
    /\ PromiseOK
    /\ PromptOK
    /\ LateOK
    /\ BurstBound

-----------------------------------------------------------------------------
(* Windows and products ****************************************************)

\* A second is a window and the seconds elapsed of it.
LEMMA WindowHolds ==
    ASSUME NEW t \in Nat
    PROVE  /\ WindowOf(t) \in Nat /\ Elapsed(t) \in 0 .. Window - 1
           /\ t = WindowOf(t) * Window + Elapsed(t)
           /\ WindowOf(t) * Window <= t /\ t < (WindowOf(t) + 1) * Window
  BY WindowAssumption DEF WindowOf, Elapsed

\* Products are ordered as their factors are.
LEMMA Products ==
    ASSUME NEW a \in Int, NEW b \in Int, NEW h \in Nat, a <= b
    PROVE  /\ a * h \in Int /\ b * h \in Int /\ h * a \in Int /\ h * b \in Int
           /\ a * h <= b * h /\ h * a <= h * b
  OBVIOUS

\* Windows are ordered as the seconds they begin at are.
LEMMA WindowsInOrder ==
    ASSUME NEW a \in Int, NEW b \in Int
    PROVE  /\ a * Window \in Int /\ b * Window \in Int
           /\ a < b <=> a * Window < b * Window
           /\ a < b <=> (a + 1) * Window <= b * Window
           /\ (a + 1) * Window = a * Window + Window
  BY WindowAssumption

\* No earlier second has a later window.
LEMMA WindowOfMonotone ==
    ASSUME NEW t \in Nat, NEW u \in Nat, t <= u
    PROVE  WindowOf(t) <= WindowOf(u)
<1>1. WindowOf(t) \in Nat /\ WindowOf(u) \in Nat
  BY WindowHolds
<1>2. WindowOf(t) * Window <= t /\ u < (WindowOf(u) + 1) * Window
  BY WindowHolds
<1>3. WindowOf(t) * Window \in Int /\ (WindowOf(u) + 1) * Window \in Int
  BY <1>1, WindowAssumption
<1>4. WindowOf(t) * Window < (WindowOf(u) + 1) * Window
  BY <1>2, <1>3
<1> QED
  BY <1>1, <1>4, WindowsInOrder

\* A second later it is the next second of the window, or the first of the next one.
LEMMA NextSecond ==
    ASSUME NEW t \in Nat
    PROVE  \/ WindowOf(t + 1) = WindowOf(t) /\ Elapsed(t + 1) = Elapsed(t) + 1
           \/ /\ WindowOf(t + 1) = WindowOf(t) + 1
              /\ Elapsed(t) = Window - 1 /\ Elapsed(t + 1) = 0
<1> DEFINE w == WindowOf(t)
           v == WindowOf(t + 1)
<1>1. /\ w \in Nat /\ v \in Nat /\ Elapsed(t) \in 0 .. Window - 1 /\ w <= v
      /\ t = w * Window + Elapsed(t)
      /\ t + 1 = v * Window + Elapsed(t + 1) /\ Elapsed(t + 1) \in 0 .. Window - 1
  BY WindowHolds, WindowOfMonotone
<1>2. Window \in Nat /\ Window > 0 /\ w * Window \in Nat /\ v * Window \in Nat
  BY <1>1, WindowAssumption
<1> HIDE DEF w, v
<1>3. CASE v = w
  BY <1>1, <1>2, <1>3 DEF w, v
<1>4. CASE v # w
  <2>1. (w + 1) * Window <= v * Window /\ (w + 1) * Window = w * Window + Window
    BY <1>1, <1>4, WindowsInOrder
  <2>2. v * Window = (w + 1) * Window /\ Elapsed(t) = Window - 1 /\ Elapsed(t + 1) = 0
    BY <1>1, <1>2, <2>1
  <2>3. ~ (w + 1 < v)
    BY <1>1, <2>2, WindowsInOrder
  <2> QED
    BY <1>1, <1>4, <2>2, <2>3 DEF w, v
<1> QED
  BY <1>3, <1>4

\* Every second of the model's clock is in one of its windows.
LEMMA InWindows ==
    ASSUME NEW t \in 0 .. MaxTime
    PROVE  t \in Nat /\ WindowOf(t) \in Windows
<1>1. t \in Nat /\ MaxTime \in Nat
  BY BoundAssumption
<1> QED
  BY <1>1, WindowOfMonotone, WindowHolds DEF Windows, WindowOf

\* Windows are numbers, and each begins Window seconds after the one before.
LEMMA WindowNumbers ==
    ASSUME NEW w \in Windows
    PROVE  /\ w \in Nat /\ w * Window \in Nat
           /\ (w + 1) * Window = w * Window + Window
           /\ (w + 2) * Window = w * Window + 2 * Window
           /\ Window \in Nat /\ Window > 0
<1>1. w \in Nat
  BY WindowHolds, BoundAssumption DEF Windows, WindowOf
<1> QED
  BY <1>1, WindowAssumption

\* What the script works with, and answers: the count includes the request itself.
LEMMA Weighed ==
    ASSUME TypeOK, NEW t \in 0 .. MaxTime
    PROVE  /\ Hits(WindowOf(t)) \in Nat /\ Hits(WindowOf(t) - 1) \in Nat
           /\ Load(t) \in Nat
           /\ Weighted(t) = Load(t) + Window
           /\ Remaining(t) \in 0 .. Limit
           /\ Allowed(t) => Load(t) + Window + Remaining(t) * Window <= Limit * Window
           /\ Reset(t) \in Nat /\ Window - Elapsed(t) <= Reset(t) /\ 1 <= Reset(t)
<1>1. t \in Nat /\ WindowOf(t) \in Windows
  BY InWindows
<1>2. Hits(WindowOf(t)) \in Nat /\ Hits(WindowOf(t) - 1) \in Nat
  BY <1>1 DEF TypeOK, Hits
<1>3. Elapsed(t) \in 0 .. Window - 1 /\ Window \in Nat
  BY <1>1, WindowHolds, WindowAssumption
<1> DEFINE h == Hits(WindowOf(t))
           g == Hits(WindowOf(t) - 1)
           e == Elapsed(t)
<1>4. h * Window \in Nat /\ g * (Window - e) \in Nat
      /\ (h + 1) * Window = h * Window + Window
  BY <1>2, <1>3
<1>5. Load(t) \in Nat /\ Weighted(t) = Load(t) + Window
  BY <1>3, <1>4 DEF Load, Weighted
<1>6. Remaining(t) \in 0 .. Limit
  <2>1. CASE ~ Allowed(t)
    BY <2>1, LimitAssumption DEF Remaining
  <2>2. CASE Allowed(t)
    <3>1. PICK x \in Nat : x = Limit * Window - Weighted(t) /\ x <= Limit * Window
      BY <1>3, <1>5, <2>2, LimitAssumption DEF Allowed
    <3>2. WindowOf(x) \in Nat /\ WindowOf(x) * Window <= x
      BY <3>1, WindowHolds
    <3>3. WindowOf(x) * Window <= Limit * Window
      BY <1>3, <3>1, <3>2, LimitAssumption
    <3>4. WindowOf(x) < Limit + 1
      BY <3>2, <3>3, WindowsInOrder, LimitAssumption
    <3> QED
      BY <2>2, <3>1, <3>2, <3>4, LimitAssumption DEF Remaining, WindowOf
  <2> QED
    BY <2>1, <2>2
<1>7. Allowed(t) => Load(t) + Window + Remaining(t) * Window <= Limit * Window
  <2>1. SUFFICES ASSUME Allowed(t)
                 PROVE  Load(t) + Window + Remaining(t) * Window <= Limit * Window
    OBVIOUS
  <2>2. PICK x \in Nat : x = Limit * Window - Weighted(t)
    BY <1>3, <1>5, <2>1, LimitAssumption DEF Allowed
  <2>3. Remaining(t) * Window <= x
    BY <2>1, <2>2, WindowHolds DEF WindowOf, Remaining
  <2> QED
    BY <1>3, <1>5, <1>6, <2>2, <2>3, LimitAssumption
<1>8. Reset(t) \in Nat /\ Window - Elapsed(t) <= Reset(t) /\ 1 <= Reset(t)
  BY <1>3 DEF Reset
<1> QED
  BY <1>2, <1>5, <1>6, <1>7, <1>8

\* The model's clock starts in window 1: there is always a window before.
LEMMA BeforeNow ==
    ASSUME TypeOK, clock >= Window
    PROVE  /\ clock \in Nat /\ WindowOf(clock) \in Windows /\ WindowOf(clock) - 1 \in Windows
           /\ Elapsed(clock) \in 0 .. Window - 1
           /\ (WindowOf(clock) + 1) * Window - clock = Window - Elapsed(clock)
           /\ clock + 1 < (WindowOf(clock) + 2) * Window
           /\ WindowOf(clock + 1) = WindowOf(clock) =>
                  clock + 1 < (WindowOf(clock) + 1) * Window
<1> DEFINE w == WindowOf(clock)
<1>1. /\ clock \in 0 .. MaxTime /\ clock \in Nat /\ w \in Windows /\ w \in Nat
      /\ clock = w * Window + Elapsed(clock) /\ Elapsed(clock) \in 0 .. Window - 1
  BY InWindows, WindowHolds DEF TypeOK
<1>2. /\ w * Window \in Nat /\ Window \in Nat
      /\ (w + 1) * Window = w * Window + Window
      /\ (w + 2) * Window = w * Window + 2 * Window
  BY <1>1, WindowNumbers
<1>3. clock + 1 < (WindowOf(clock + 1) + 1) * Window
  BY <1>1, WindowHolds
<1>4. w # 0
  BY <1>1, <1>2
<1>5. w - 1 \in Windows
  <2>1. MaxTime \div Window \in Nat
    BY BoundAssumption, WindowHolds DEF WindowOf
  <2> HIDE DEF w
  <2> QED
    BY <1>1, <1>4, <2>1 DEF Windows
<1> QED
  BY <1>1, <1>2, <1>3, <1>5

-----------------------------------------------------------------------------
(* The steps ***************************************************************)

\* The steps of RateLimiter, one by one.
LEMMA Steps ==
    ASSUME [Next]_vars
    PROVE  \/ \E r \in Request : Send(r) \/ Check(r)
           \/ \E r \in Request, executed \in BOOLEAN : RedisFails(r, executed)
           \/ Tick
           \/ UNCHANGED vars
  BY DEF Next, TimeUp

\* However the call of the script ends: it has counted the request or not, in the
\* window of its stamp, and the request is answered.
LEMMA Called ==
    ASSUME TypeOK, NEW r \in Request,
           Check(r) \/ \E executed \in BOOLEAN : RedisFails(r, executed)
    PROVE  LET w == WindowOf(stamp[r]) IN
           /\ r \in InFlight /\ stamp[r] \in 0 .. MaxTime /\ w \in Windows
           /\ UNCHANGED clock
           /\ stamp' \in [Request -> (0 .. MaxTime) \cup {None}]
           /\ InFlight' = InFlight \ {r}
           /\ \A s \in InFlight' : stamp'[s] = stamp[s]
           /\ Count(w) \/ UNCHANGED redis
           /\ hits' \in [Windows -> Nat] /\ expires' \in [Windows -> Nat]
           /\ hits'[w] = hits[w] \/ hits'[w] = hits[w] + 1
           /\ \A v \in Windows \ {w} : hits'[v] = hits[v]
           /\ Check(r) => hits'[w] = hits[w] + 1
<1> DEFINE w == WindowOf(stamp[r])
<1>1. stamp[r] # None /\ Answer(r) /\ (Count(w) \/ UNCHANGED redis) /\ UNCHANGED clock
  BY DEF Check, RedisFails
<1>2. stamp[r] \in 0 .. MaxTime /\ w \in Windows
  BY <1>1, InWindows DEF TypeOK
<1>3. /\ stamp' \in [Request -> (0 .. MaxTime) \cup {None}]
      /\ InFlight' = InFlight \ {r} /\ \A s \in InFlight' : stamp'[s] = stamp[s]
  BY <1>1 DEF TypeOK, Answer, InFlight
<1>4. clock + TimeToLive \in Nat
  BY WindowAssumption, BoundAssumption DEF TypeOK, TimeToLive
<1>5. /\ hits' \in [Windows -> Nat] /\ expires' \in [Windows -> Nat]
      /\ hits'[w] = hits[w] \/ hits'[w] = hits[w] + 1
      /\ \A v \in Windows \ {w} : hits'[v] = hits[v]
  <2>1. CASE UNCHANGED redis
    BY <1>2, <2>1 DEF TypeOK, redis
  <2>2. CASE Count(w)
    <3>1. hits' = [hits EXCEPT ![w] = hits[w] + 1]
      BY <1>2, <2>2 DEF Count, Hits
    <3>2. expires' \in [Windows -> Nat]
      BY <1>2, <1>4, <2>2 DEF TypeOK, Count
    <3>3. hits \in [Windows -> Nat] /\ hits[w] + 1 \in Nat
      BY <1>2 DEF TypeOK
    <3> QED
      BY <1>2, <3>1, <3>2, <3>3
  <2> QED
    BY <1>1, <2>1, <2>2
<1>6. Check(r) => hits'[w] = hits[w] + 1
  BY <1>2 DEF TypeOK, Check, Count, Hits
<1> QED
  BY <1>1, <1>2, <1>3, <1>5, <1>6 DEF InFlight

\* A second that passes drops counters and adds none.
LEMMA Passed ==
    ASSUME TypeOK, Tick
    PROVE  /\ clock' = clock + 1 /\ clock' \in 0 .. MaxTime
           /\ hits' \in [Windows -> Nat] /\ expires' \in [Windows -> Nat]
           /\ InFlight' = InFlight /\ UNCHANGED <<stamp, promise, notBefore, streak>>
           /\ \A w \in Windows :
                 /\ clock + 1 < expires[w] => hits'[w] = hits[w] /\ expires'[w] = expires[w]
                 /\ ~ (clock + 1 < expires[w]) => hits'[w] = 0
                 /\ hits'[w] <= hits[w]
  BY BoundAssumption DEF TypeOK, Tick, InFlight

\* Before the first request there are no counters, and the clock is inside its bound.
LEMMA InitOK == Init => IInv /\ ProductionInv
<1> SUFFICES ASSUME Init PROVE IInv /\ ProductionInv
  OBVIOUS
<1>1. TypeOK
  BY LimitAssumption, WindowAssumption, BoundAssumption DEF Init, TypeOK
<1>2. InFlight = {} /\ \A w \in Windows : hits[w] = 0 /\ admitted[w] = 0
  BY DEF Init, InFlight
<1>3. StampOK /\ ExpiryOK /\ FutureOK /\ StreakOK
  BY <1>2 DEF Init, StampOK, ExpiryOK, FutureOK, StreakOK, ObedientClientIsAdmitted
<1>4. CountersCoverAdmissions /\ WindowCap /\ PromiseOK
  BY <1>2, LimitAssumption DEF Init, CountersCoverAdmissions, WindowCap, PromiseOK, Hits
<1>5. PromptOK
  <2>1. clock = Window /\ Elapsed(clock) \in 0 .. Window - 1 /\ WindowOf(clock) \in Windows
    BY InWindows, WindowHolds, WindowAssumption, BoundAssumption DEF Init
  <2>2. \A n \in 1 .. Window : prompt[n] = 0
    BY DEF Init
  <2>3. clock >= Window /\ WindowOf(clock) - 1 \in Windows
    <3>1. clock >= Window
      BY <2>1, WindowAssumption
    <3> QED
      BY <1>1, <3>1, BeforeNow
  <2> QED
    BY <1>2, <2>1, <2>2, <2>3, WindowAssumption DEF PromptOK
<1>6. BurstBound
  BY LimitAssumption, WindowAssumption DEF Init, BurstBound
<1>7. LateOK
  <2>1. WindowOf(clock) \in Windows /\ WindowOf(clock) - 1 \in Windows
    BY <1>1, <1>5, BeforeNow DEF PromptOK
  <2>2. \A n \in 1 .. Window : prompt[n] = 0 /\ late[n] = 0
    BY DEF Init
  <2> QED
    BY <1>2, <2>1, <2>2 DEF LateOK
<1> QED
  BY <1>1, <1>3, <1>4, <1>5, <1>6, <1>7 DEF IInv, ProductionInv

\* No step takes a variable out of its type.
LEMMA TypeStep ==
    ASSUME TypeOK, [Next]_vars
    PROVE  TypeOK'
<1>1. ASSUME NEW r \in Request, Send(r) PROVE TypeOK'
  BY <1>1 DEF TypeOK, Send, redis
<1>2. ASSUME NEW r \in Request, NEW remaining \in 0 .. Limit, stamp[r] \in 0 .. MaxTime,
             Admit(r, remaining)
      PROVE  /\ admitted' \in [Windows -> Nat] /\ prompt' \in [1 .. Window -> Nat]
             /\ late' \in [1 .. Window -> Nat] /\ promise' \in 0 .. Limit
             /\ notBefore' \in Nat /\ streak' \in Nat
  <2>1. WindowOf(stamp[r]) \in Windows
    BY <1>2, InWindows
  <2>2. admitted' \in [Windows -> Nat]
    <3>1. /\ admitted \in [Windows -> Nat] /\ admitted[WindowOf(stamp[r])] + 1 \in Nat
          /\ admitted' = [admitted EXCEPT ![WindowOf(stamp[r])] =
                                              admitted[WindowOf(stamp[r])] + 1]
      BY <1>2, <2>1 DEF TypeOK, Admit
    <3> QED
      BY <2>1, <3>1
  <2>3. prompt' \in [1 .. Window -> Nat] /\ late' \in [1 .. Window -> Nat]
    BY <1>2 DEF TypeOK, Admit
  <2>4. promise' \in 0 .. Limit
    BY <1>2, LimitAssumption DEF TypeOK, Admit
  <2> QED
    BY <1>2, <2>2, <2>3, <2>4 DEF TypeOK, Admit
<1>3. ASSUME NEW r \in Request, Check(r) PROVE TypeOK'
  <2>1. /\ stamp[r] \in 0 .. MaxTime /\ UNCHANGED clock
        /\ stamp' \in [Request -> (0 .. MaxTime) \cup {None}]
        /\ hits' \in [Windows -> Nat] /\ expires' \in [Windows -> Nat]
    BY <1>3, Called
  <2>2. Remaining(stamp[r]) \in 0 .. Limit /\ Reset(stamp[r]) \in Nat
    BY <2>1, Weighed
  <2>3. CASE Admit(r, Remaining(stamp[r]))
    BY <1>2, <2>1, <2>2, <2>3 DEF TypeOK
  <2>4. CASE Refuse(r, Reset(stamp[r]))
    BY <2>1, <2>2, <2>4, LimitAssumption, BoundAssumption DEF TypeOK, Refuse
  <2> QED
    BY <1>3, <2>3, <2>4 DEF Check
<1>4. ASSUME NEW r \in Request, NEW executed \in BOOLEAN, RedisFails(r, executed)
      PROVE TypeOK'
  <2>1. /\ stamp[r] \in 0 .. MaxTime /\ UNCHANGED clock
        /\ stamp' \in [Request -> (0 .. MaxTime) \cup {None}]
        /\ hits' \in [Windows -> Nat] /\ expires' \in [Windows -> Nat]
    BY <1>4, Called
  <2>2. CASE Production
    BY <1>4, <2>1, <2>2, LimitAssumption DEF TypeOK, RedisFails
  <2>3. CASE ~ Production
    BY <1>2, <1>4, <2>1, <2>3, LimitAssumption DEF TypeOK, RedisFails
  <2> QED
    BY <2>2, <2>3
<1>5. CASE Tick
  <2>1. /\ admitted' \in [Windows -> Nat] /\ prompt' \in [1 .. Window -> Nat]
        /\ late' \in [1 .. Window -> Nat]
    BY <1>5, WindowAssumption DEF TypeOK, Tick
  <2> QED
    BY <1>5, <2>1, Passed DEF TypeOK
<1>6. CASE UNCHANGED vars
  BY <1>6 DEF TypeOK, vars
<1> QED
  BY <1>1, <1>3, <1>4, <1>5, <1>6, Steps

\* A request is stamped with the clock, and the clock does not leave it behind.
LEMMA StampStep ==
    ASSUME TypeOK, StampOK, [Next]_vars
    PROVE  StampOK'
<1>1. ASSUME NEW r \in Request, Send(r) PROVE StampOK'
  BY <1>1, LagAssumption, WindowAssumption, ModeAssumption, BoundAssumption
     DEF TypeOK, StampOK, Send, InFlight
<1>2. ASSUME NEW r \in Request,
             Check(r) \/ \E executed \in BOOLEAN : RedisFails(r, executed)
      PROVE  StampOK'
  BY <1>2, Called DEF StampOK
<1>3. CASE Tick
  <2>1. ASSUME NEW r \in InFlight PROVE stamp[r] \in Nat /\ MaxLag \in Nat /\ clock \in Nat
    BY BoundAssumption, LagAssumption, WindowAssumption DEF TypeOK, InFlight
  <2> QED
    BY <1>3, <2>1, Passed DEF StampOK, Tick
<1>4. CASE UNCHANGED vars
  BY <1>4 DEF StampOK, InFlight, vars
<1> QED
  BY <1>1, <1>2, <1>3, <1>4, Steps

\* EXPIRE is set no earlier than the stamp of the request that creates the key.
LEMMA ExpiryStep ==
    ASSUME TypeOK, StampOK, ExpiryOK, [Next]_vars
    PROVE  ExpiryOK'
<1>1. ASSUME NEW r \in Request,
             Check(r) \/ \E executed \in BOOLEAN : RedisFails(r, executed)
      PROVE  ExpiryOK'
  <2> DEFINE w == WindowOf(stamp[r])
  <2>1. Count(w) \/ UNCHANGED redis
    BY <1>1, Called
  <2>2. CASE UNCHANGED redis
    BY <2>2 DEF ExpiryOK, redis
  <2>3. CASE Count(w)
    <3>1. w \in Windows /\ w \in Nat /\ w * Window <= stamp[r] /\ stamp[r] <= clock
      BY <1>1, Called, InWindows, WindowHolds DEF StampOK
    <3>2. stamp[r] \in Nat /\ clock \in Nat
      BY <1>1, Called, InWindows, BoundAssumption DEF TypeOK
    <3>3. (w + 2) * Window <= clock + TimeToLive
      <4> HIDE DEF w
      <4> QED
        BY <3>1, <3>2, WindowNumbers DEF TimeToLive
    <3>4. hits[w] \in Nat /\ hits' = [hits EXCEPT ![w] = hits[w] + 1]
      BY <2>3, <3>1 DEF TypeOK, Count, Hits
    <3>5. expires' = IF hits[w] = 0 THEN [expires EXCEPT ![w] = clock + TimeToLive]
          ELSE expires
      BY <2>3, <3>1 DEF Count, Hits
    <3> HIDE DEF w
    <3>6. ASSUME NEW v \in Windows, hits'[v] > 0 PROVE (v + 2) * Window <= expires'[v]
      <4>1. CASE v = w /\ hits[w] = 0
        BY <3>3, <3>5, <4>1 DEF TypeOK
      <4>2. CASE v = w /\ hits[w] # 0
        BY <3>4, <3>5, <4>2 DEF ExpiryOK
      <4>3. CASE v # w
        BY <3>4, <3>5, <3>6, <4>3 DEF ExpiryOK, TypeOK
      <4> QED
        BY <4>1, <4>2, <4>3
    <3> QED
      BY <3>6 DEF ExpiryOK
  <2> QED
    BY <2>1, <2>2, <2>3
<1>2. CASE Tick
  <2> SUFFICES ASSUME NEW w \in Windows, hits'[w] > 0 PROVE (w + 2) * Window <= expires'[w]
    BY DEF ExpiryOK
  <2>1. hits'[w] = hits[w] /\ expires'[w] = expires[w]
    BY <1>2, Passed
  <2> QED
    BY <2>1 DEF ExpiryOK
<1>3. ASSUME NEW r \in Request, Send(r) PROVE ExpiryOK'
  BY <1>3 DEF ExpiryOK, Send, redis
<1>4. CASE UNCHANGED vars
  BY <1>4 DEF ExpiryOK, vars
<1> QED
  BY <1>1, <1>2, <1>3, <1>4, Steps

\* No request is counted in a window before its stamp.
LEMMA FutureStep ==
    ASSUME TypeOK, StampOK, FutureOK, [Next]_vars
    PROVE  FutureOK'
<1>1. ASSUME NEW r \in Request,
             Check(r) \/ \E executed \in BOOLEAN : RedisFails(r, executed)
      PROVE  FutureOK'
  <2> DEFINE w == WindowOf(stamp[r])
  <2>1. w \in Nat /\ w * Window <= stamp[r] /\ stamp[r] <= clock /\ stamp[r] \in Nat
        /\ clock \in Nat
    BY <1>1, Called, InWindows, WindowHolds DEF StampOK, TypeOK
  <2>2. ~ (clock < w * Window)
    BY <2>1, WindowAssumption
  <2> QED
    BY <1>1, <2>2, Called DEF FutureOK
<1>2. CASE Tick
  <2> SUFFICES ASSUME NEW w \in Windows, clock' < w * Window PROVE hits'[w] = 0
    BY DEF FutureOK
  <2>1. clock < w * Window
    BY <1>2, Passed, WindowAssumption, BoundAssumption DEF TypeOK, Windows
  <2> QED
    BY <1>2, <2>1, Passed DEF FutureOK, TypeOK
<1>3. ASSUME NEW r \in Request, Send(r) PROVE FutureOK'
  BY <1>3 DEF FutureOK, Send, redis
<1>4. CASE UNCHANGED vars
  BY <1>4 DEF FutureOK, vars
<1> QED
  BY <1>1, <1>2, <1>3, <1>4, Steps

-----------------------------------------------------------------------------
(* What production keeps ***************************************************)

\* A request that is let through has been counted, and its counter is not dropped
\* before the window after its own is over.
LEMMA CoverStep ==
    ASSUME Production, TypeOK, ExpiryOK, CountersCoverAdmissions, [Next]_vars
    PROVE  CountersCoverAdmissions'
<1>1. ASSUME NEW r \in Request, Check(r) PROVE CountersCoverAdmissions'
  <2> DEFINE w == WindowOf(stamp[r])
  <2>1. /\ w \in Windows /\ UNCHANGED clock /\ hits' \in [Windows -> Nat]
        /\ hits'[w] = hits[w] + 1 /\ \A v \in Windows \ {w} : hits'[v] = hits[v]
    BY <1>1, Called
  <2>2. /\ admitted'[w] \in {admitted[w], admitted[w] + 1}
        /\ \A v \in Windows \ {w} : admitted'[v] = admitted[v]
    BY <1>1, <2>1 DEF TypeOK, Check, Admit, Refuse
  <2>3. \A v \in Windows : hits[v] \in Nat /\ admitted[v] \in Nat
    BY DEF TypeOK
  <2> HIDE DEF w
  <2> SUFFICES ASSUME NEW v \in Windows, clock < (v + 2) * Window
               PROVE  hits'[v] >= admitted'[v]
    BY <2>1 DEF CountersCoverAdmissions, Hits
  <2>4. hits[v] >= admitted[v]
    BY DEF CountersCoverAdmissions, Hits
  <2> QED
    BY <2>1, <2>2, <2>3, <2>4
<1>2. ASSUME NEW r \in Request, NEW executed \in BOOLEAN, RedisFails(r, executed)
      PROVE  CountersCoverAdmissions'
  <2>1. UNCHANGED <<clock, admitted>> /\ hits' \in [Windows -> Nat]
    BY <1>2, Called DEF RedisFails
  <2>2. ASSUME NEW v \in Windows PROVE hits[v] <= hits'[v]
    <3> DEFINE w == WindowOf(stamp[r])
    <3>1. hits[v] \in Nat
      BY DEF TypeOK
    <3>2. v = w => hits'[v] = hits[v] \/ hits'[v] = hits[v] + 1
      BY <1>2, Called
    <3>3. v # w => hits'[v] = hits[v]
      BY <1>2, Called
    <3> QED
      BY <3>1, <3>2, <3>3
  <2> QED
    BY <2>1, <2>2 DEF TypeOK, CountersCoverAdmissions, Hits
<1>3. CASE Tick
  <2> SUFFICES ASSUME NEW w \in Windows, clock' < (w + 2) * Window
               PROVE  hits'[w] >= admitted'[w]
    BY DEF CountersCoverAdmissions, Hits
  <2>1. clock' = clock + 1 /\ clock \in Nat /\ (w + 2) * Window \in Nat
        /\ expires[w] \in Nat
    <3>1. (w + 2) * Window \in Nat
      BY WindowNumbers
    <3>2. clock \in Nat /\ expires[w] \in Nat
      BY BoundAssumption DEF TypeOK
    <3> QED
      BY <1>3, <3>1, <3>2, Passed
  <2>2. hits[w] >= admitted[w] /\ hits[w] \in Nat /\ admitted[w] \in Nat
    BY <2>1 DEF TypeOK, CountersCoverAdmissions, Hits
  <2>3. admitted'[w] = admitted[w]
    BY <1>3, <2>1 DEF Tick
  <2>4. CASE hits[w] > 0
    BY <1>3, <2>1, <2>2, <2>3, <2>4, Passed DEF ExpiryOK
  <2>5. CASE ~ (hits[w] > 0)
    BY <1>3, <2>2, <2>3, <2>5, Passed DEF TypeOK
  <2> QED
    BY <2>4, <2>5
<1>4. ASSUME NEW r \in Request, Send(r) PROVE CountersCoverAdmissions'
  BY <1>4 DEF CountersCoverAdmissions, Hits, Send, redis
<1>5. CASE UNCHANGED vars
  BY <1>5 DEF CountersCoverAdmissions, Hits, vars
<1> QED
  BY <1>1, <1>2, <1>3, <1>4, <1>5, Steps

\* A request that is weighed late is still weighed with every request its window let
\* through, and with as many of the window before as its own time asks for.
LEMMA Weight ==
    ASSUME TypeOK, StampOK, CountersCoverAdmissions,
           NEW r \in InFlight, Allowed(stamp[r])
    PROVE  LET w == WindowOf(stamp[r]) IN
           /\ w \in Windows
           /\ admitted[w] + 1 <= Limit
           /\ w - 1 \in Windows =>
                 (admitted[w] + 1) * Window + admitted[w - 1] * ((w + 1) * Window - clock)
                    <= Limit * Window
<1> DEFINE t == stamp[r]
           w == WindowOf(t)
           e == Elapsed(t)
<1>1. t \in 0 .. MaxTime /\ t \in Nat /\ w \in Windows /\ t <= clock /\ clock <= t + MaxLag
  BY InWindows DEF TypeOK, StampOK, InFlight
<1>2. clock \in Nat /\ MaxLag \in Nat /\ MaxLag <= Window
  BY LagAssumption, WindowAssumption, BoundAssumption DEF TypeOK
<1>3. e \in 0 .. Window - 1 /\ t = w * Window + e
  BY <1>1, WindowHolds
<1>4. /\ w \in Nat /\ w * Window \in Nat /\ (w + 1) * Window = w * Window + Window
      /\ (w + 2) * Window = w * Window + 2 * Window /\ Window \in Nat /\ Window > 0
  BY <1>1, WindowNumbers
<1>5. Weighted(t) <= Limit * Window /\ Weighted(t) = Load(t) + Window
  BY <1>1, Weighed DEF Allowed
<1> DEFINE h == Hits(w)
           g == Hits(w - 1)
<1>6. h \in Nat /\ g \in Nat /\ admitted[w] \in Nat
  BY <1>1, Weighed DEF TypeOK
<1>7. admitted[w] <= h
  <2>1. clock < (w + 2) * Window
    BY <1>1, <1>2, <1>3, <1>4
  <2> QED
    BY <1>1, <2>1 DEF CountersCoverAdmissions
<1>8. h * Window + g * (Window - e) + Window <= Limit * Window
  BY <1>5 DEF Load
<1> HIDE DEF t, w, e, h, g
<1>9. g * (Window - e) \in Nat /\ h * Window \in Nat
      /\ (h + 1) * Window = h * Window + Window
  BY <1>3, <1>4, <1>6
<1>10. admitted[w] + 1 <= Limit
  <2>1. h + 1 <= Limit
    <3>1. (h + 1) * Window <= Limit * Window
      BY <1>4, <1>8, <1>9, LimitAssumption
    <3>2. ~ (Limit < h + 1)
      BY <1>4, <1>6, <3>1, WindowsInOrder, LimitAssumption
    <3> QED
      BY <1>6, <3>2, LimitAssumption
  <2> QED
    BY <1>6, <1>7, <2>1, LimitAssumption
<1>11. ASSUME w - 1 \in Windows
       PROVE  (admitted[w] + 1) * Window + admitted[w - 1] * ((w + 1) * Window - clock)
                 <= Limit * Window
  <2> DEFINE a == admitted[w - 1]
             left == (w + 1) * Window - clock
  <2>1. a \in Nat /\ left \in Int /\ left <= Window - e
    BY <1>1, <1>2, <1>3, <1>4, <1>11 DEF TypeOK
  <2>2. (admitted[w] + 1) * Window <= (h + 1) * Window
    BY <1>4, <1>6, <1>7, Products
  <2>3. a * left <= g * (Window - e)
    <3>1. CASE left <= 0
      <4>1. a * left <= 0
        BY <2>1, <3>1
      <4> QED
        BY <1>9, <2>1, <4>1
    <3>2. CASE left > 0
      <4>1. ((w - 1) + 2) * Window = (w + 1) * Window
        BY <1>4
      <4>2. clock < ((w - 1) + 2) * Window
        BY <1>2, <1>4, <3>2, <4>1
      <4>3. a <= g
        BY <1>11, <4>2 DEF CountersCoverAdmissions, g
      <4>4. left \in Nat /\ a * left <= g * left
        BY <1>6, <2>1, <3>2, <4>3, Products
      <4>5. g * left <= g * (Window - e)
        BY <1>3, <1>4, <1>6, <2>1, Products
      <4> QED
        BY <1>6, <1>9, <2>1, <4>4, <4>5
    <3> QED
      BY <2>1, <3>1, <3>2
  <2>4. (admitted[w] + 1) * Window \in Int /\ a * left \in Int /\ Limit * Window \in Int
    BY <1>4, <1>6, <2>1, LimitAssumption
  <2> QED
    BY <1>4, <1>8, <1>9, <2>2, <2>3, <2>4
<1> QED
  BY <1>1, <1>10, <1>11 DEF w, t

\* No window lets more through than the limit, late requests included.
LEMMA CapStep ==
    ASSUME Production, TypeOK, StampOK, CountersCoverAdmissions, WindowCap, [Next]_vars
    PROVE  WindowCap'
<1>1. ASSUME NEW r \in Request, Check(r) PROVE WindowCap'
  <2>1. r \in InFlight /\ UNCHANGED clock /\ WindowOf(stamp[r]) \in Windows
    BY <1>1, Called
  <2>2. CASE Allowed(stamp[r])
    BY <1>1, <2>1, <2>2, Weight DEF TypeOK, WindowCap, Check, Admit
  <2>3. CASE ~ Allowed(stamp[r])
    BY <1>1, <2>3 DEF WindowCap, Check, Refuse
  <2> QED
    BY <2>2, <2>3
<1>2. ASSUME NEW r \in Request, NEW executed \in BOOLEAN, RedisFails(r, executed)
      PROVE WindowCap'
  BY <1>2 DEF WindowCap, RedisFails
<1>3. CASE Tick
  BY <1>3, LimitAssumption DEF TypeOK, WindowCap, Tick
<1>4. ASSUME NEW r \in Request, Send(r) PROVE WindowCap'
  BY <1>4 DEF WindowCap, Send
<1>5. CASE UNCHANGED vars
  BY <1>5 DEF WindowCap, vars
<1> QED
  BY <1>1, <1>2, <1>3, <1>4, <1>5, Steps

\* A second later it is the next second of the window, or the first of the next one,
\* and the admissions of the two windows that count are still known.
LEMMA AdmittedLater ==
    ASSUME TypeOK, clock >= Window, Tick
    PROVE  LET w == WindowOf(clock)
               e == Elapsed(clock)
               v == WindowOf(clock + 1)
               d == Elapsed(clock + 1)
           IN  /\ clock' = clock + 1 /\ clock' >= Window /\ w \in Nat
               /\ w \in Windows /\ w - 1 \in Windows /\ v \in Windows
               /\ e \in 0 .. Window - 1 /\ d \in 0 .. Window - 1
               /\ \/ v = w /\ d = e + 1
                  \/ v = w + 1 /\ e = Window - 1 /\ d = 0
               /\ admitted'[w] = admitted[w] /\ (v = w => admitted'[w - 1] = admitted[w - 1])
               /\ admitted'[v] \in Nat
<1> DEFINE w == WindowOf(clock)
           e == Elapsed(clock)
           v == WindowOf(clock + 1)
           d == Elapsed(clock + 1)
<1>1. /\ clock \in Nat /\ w \in Windows /\ w - 1 \in Windows /\ e \in 0 .. Window - 1
      /\ clock + 1 < (w + 2) * Window
      /\ v = w => clock + 1 < (w + 1) * Window
  BY BeforeNow
<1>2. clock' = clock + 1 /\ clock' >= Window /\ Window \in Nat
  BY <1>1, WindowAssumption DEF Tick
<1>3. admitted'[w] = admitted[w] /\ (v = w => admitted'[w - 1] = admitted[w - 1])
  <2>1. /\ admitted'[w] = IF clock + 1 < (w + 2) * Window THEN admitted[w] ELSE 0
        /\ admitted'[w - 1] =
               IF clock + 1 < ((w - 1) + 2) * Window THEN admitted[w - 1] ELSE 0
    BY <1>1 DEF Tick
  <2>2. (w - 1) + 2 = w + 1
    BY <1>1, WindowNumbers
  <2> QED
    BY <1>1, <2>1, <2>2
<1>4. v \in Windows /\ admitted'[v] \in Nat
  BY <1>2, TypeStep, InWindows DEF TypeOK, Next
<1>5. d \in 0 .. Window - 1
  <2>1. clock + 1 \in Nat
    BY <1>1
  <2> QED
    BY <2>1, WindowHolds
<1>6. \/ v = w /\ d = e + 1
      \/ v = w + 1 /\ e = Window - 1 /\ d = 0
  BY <1>1, NextSecond
<1>7. w \in Nat
  BY <1>1, WindowNumbers
<1> QED
  BY <1>1, <1>2, <1>3, <1>4, <1>5, <1>6, <1>7

\* A second later everything has been let through one second earlier.
LEMMA PromptLater ==
    ASSUME TypeOK, PromptOK, BurstBound, Tick
    PROVE  PromptOK' /\ BurstBound'
<1> DEFINE w == WindowOf(clock)
           e == Elapsed(clock)
           v == WindowOf(clock + 1)
           d == Elapsed(clock + 1)
<1>1. /\ w \in Windows /\ w - 1 \in Windows /\ e \in 0 .. Window - 1
      /\ d \in 0 .. Window - 1 /\ clock' = clock + 1 /\ clock' >= Window /\ w \in Nat
  BY AdmittedLater DEF PromptOK
<1>2. Window \in Nat /\ Window > 0
  BY WindowAssumption
<1>3. prompt' \in [1 .. Window -> Int]
      /\ \A n \in 1 .. Window : prompt'[n] = IF n = 1 THEN 0 ELSE prompt[n - 1]
  BY WindowAssumption DEF Tick, TypeOK
<1>4. /\ \A n \in 1 .. Window : prompt[n] \in Nat
      /\ \A n \in 1 .. Window : \A m \in 1 .. n : prompt[m] <= prompt[n]
      /\ prompt[e + 1] <= admitted[w]
      /\ \A n \in e + 2 .. Window : prompt[n] - prompt[e + 1] <= admitted[w - 1]
  BY DEF TypeOK, PromptOK
<1>5. admitted'[w] = admitted[w] /\ (v = w => admitted'[w - 1] = admitted[w - 1])
  BY AdmittedLater DEF PromptOK
<1>6. v \in Windows /\ admitted'[v] \in Nat
  BY AdmittedLater DEF PromptOK
<1>7. \A n \in 1 .. Window : \A m \in 1 .. n : prompt'[m] <= prompt'[n]
  <2> SUFFICES ASSUME NEW n \in 1 .. Window, NEW m \in 1 .. n
               PROVE  prompt'[m] <= prompt'[n]
    OBVIOUS
  <2>1. m \in 1 .. Window
    BY <1>2
  <2>2. CASE n = 1
    BY <1>3, <2>1, <2>2
  <2>3. CASE n # 1 /\ m = 1
    <3>1. n - 1 \in 1 .. Window
      BY <1>2, <2>3
    <3> QED
      BY <1>3, <1>4, <2>1, <2>3, <3>1
  <2>4. CASE n # 1 /\ m # 1
    <3>1. n - 1 \in 1 .. Window /\ m - 1 \in 1 .. (n - 1)
      BY <1>2, <2>4
    <3> QED
      BY <1>3, <1>4, <2>1, <2>4, <3>1
  <2> QED
    BY <2>2, <2>3, <2>4
<1>8. \/ v = w /\ d = e + 1 /\ d \in 0 .. Window - 1
      \/ v = w + 1 /\ e = Window - 1 /\ d = 0
  BY AdmittedLater DEF PromptOK
<1>9. w \in Nat
  BY <1>1
<1> HIDE DEF w, e, v, d
<1>10. /\ prompt'[d + 1] <= admitted'[v]
       /\ \A n \in d + 2 .. Window : prompt'[n] - prompt'[d + 1] <= admitted'[v - 1]
  <2>1. CASE v = w /\ d = e + 1 /\ d \in 0 .. Window - 1
    <3>1. prompt'[d + 1] = prompt[e + 1]
      BY <1>1, <1>2, <1>3, <2>1
    <3>2. ASSUME NEW n \in d + 2 .. Window
          PROVE  prompt'[n] - prompt'[d + 1] <= admitted'[v - 1]
      <4>1. n - 1 \in e + 2 .. Window /\ n - 1 \in 1 .. Window /\ n \in 1 .. Window /\ n # 1
        BY <1>1, <1>2, <2>1
      <4>2. prompt'[n] = prompt[n - 1]
        BY <1>3, <4>1
      <4>3. prompt[n - 1] - prompt[e + 1] <= admitted[w - 1]
        BY <1>4, <4>1
      <4> QED
        BY <1>5, <2>1, <3>1, <4>2, <4>3
    <3> QED
      BY <1>4, <1>5, <2>1, <3>1, <3>2
  <2>2. CASE v = w + 1 /\ e = Window - 1 /\ d = 0
    <3>1. 1 \in 1 .. Window /\ prompt'[d + 1] = 0 /\ prompt'[d + 1] <= admitted'[v]
      BY <1>1, <1>2, <1>3, <1>6, <2>2
    <3>2. v - 1 = w
      BY <1>9, <2>2
    <3>3. ASSUME NEW n \in d + 2 .. Window
          PROVE  prompt'[n] - prompt'[d + 1] <= admitted'[v - 1]
      <4>1. n - 1 \in 1 .. Window /\ n \in 1 .. Window /\ n # 1 /\ Window \in 1 .. Window
        BY <1>2, <2>2
      <4>2. prompt'[n] = prompt[n - 1] /\ prompt[n - 1] <= prompt[Window]
        BY <1>3, <1>4, <4>1
      <4>3. prompt[Window] <= admitted[w]
        BY <1>2, <1>4, <2>2
      <4>4. prompt[n - 1] \in Nat /\ prompt[Window] \in Nat /\ admitted'[w] = admitted[w]
        BY <1>4, <1>5, <4>1
      <4>5. admitted[w] \in Nat
        BY <1>1 DEF TypeOK
      <4>6. prompt[n - 1] <= admitted[w]
        BY <4>2, <4>3, <4>4, <4>5
      <4> QED
        BY <3>1, <3>2, <4>2, <4>4, <4>5, <4>6
    <3> QED
      BY <3>1, <3>3
  <2> QED
    BY <1>8, <2>1, <2>2
<1>11. PromptOK'
  BY <1>1, <1>7, <1>10 DEF PromptOK, v, d
<1>12. BurstBound'
  <2> SUFFICES ASSUME NEW n \in 1 .. Window
               PROVE  prompt'[n] * Window
                          <= Limit * Window + Limit * (IF n > 2 THEN n - 2 ELSE 0)
    BY DEF BurstBound
  <2>1. Limit \in Nat /\ Limit * Window \in Nat
    BY <1>2, LimitAssumption
  <2>2. CASE n = 1
    BY <1>2, <1>3, <2>1, <2>2
  <2>3. CASE n # 1
    <3> DEFINE k == IF n - 1 > 2 THEN n - 1 - 2 ELSE 0
               l == IF n > 2 THEN n - 2 ELSE 0
    <3>1. n - 1 \in 1 .. Window /\ prompt'[n] = prompt[n - 1]
      BY <1>2, <1>3, <2>3
    <3>2. prompt[n - 1] * Window <= Limit * Window + Limit * k
      BY <3>1 DEF BurstBound
    <3>3. k \in Int /\ l \in Int /\ k <= l
      BY <2>3
    <3> HIDE DEF k, l
    <3>4. Limit * k <= Limit * l /\ Limit * k \in Int /\ Limit * l \in Int
      BY <2>1, <3>3, Products
    <3>5. prompt[n - 1] * Window \in Int
      BY <1>2, <1>4, <3>1
    <3> QED
      BY <2>1, <3>1, <3>2, <3>4, <3>5 DEF l
  <2> QED
    BY <2>2, <2>3
<1> QED
  BY <1>11, <1>12

\* A request that is let through on time fits in, as the window before still weighs
\* with the part of it that the last Window seconds contain.
LEMMA PromptAdmitted ==
    ASSUME TypeOK, StampOK, CountersCoverAdmissions, WindowCap, PromptOK, BurstBound,
           NEW r \in Request, Check(r), Allowed(stamp[r])
    PROVE  PromptOK' /\ BurstBound'
<1> DEFINE w == WindowOf(clock)
           e == Elapsed(clock)
           u == WindowOf(stamp[r])
<1>1. /\ clock \in Nat /\ w \in Windows /\ w - 1 \in Windows /\ e \in 0 .. Window - 1
      /\ (w + 1) * Window - clock = Window - e
  BY BeforeNow DEF PromptOK
<1>2. clock' = clock /\ Window \in Nat /\ Limit \in Nat /\ r \in InFlight /\ u \in Windows
  BY Called, WindowAssumption, LimitAssumption
<1>3. /\ admitted' = [admitted EXCEPT ![u] = admitted[u] + 1]
      /\ prompt' = IF u = w THEN [n \in 1 .. Window |-> prompt[n] + 1] ELSE prompt
  BY DEF Check, Admit
<1>4. /\ \A n \in 1 .. Window : prompt[n] \in Nat
      /\ \A x \in Windows : admitted[x] \in Nat /\ admitted[x] <= Limit
      /\ \A n \in 1 .. Window : \A m \in 1 .. n : prompt[m] <= prompt[n]
      /\ prompt[e + 1] <= admitted[w]
      /\ \A n \in e + 2 .. Window : prompt[n] - prompt[e + 1] <= admitted[w - 1]
      /\ clock >= Window
  BY DEF TypeOK, PromptOK, WindowCap
<1>5. \A x \in Windows : admitted'[x] = IF x = u THEN admitted[x] + 1 ELSE admitted[x]
  BY <1>2, <1>3 DEF TypeOK
<1>6. CASE u # w
  <2>1. prompt' = prompt
    BY <1>3, <1>6
  <2>2. admitted[w] <= admitted'[w] /\ admitted[w - 1] <= admitted'[w - 1]
        /\ admitted'[w] \in Nat /\ admitted'[w - 1] \in Nat
    BY <1>1, <1>4, <1>5
  <2> HIDE DEF u
  <2>3. PromptOK'
    BY <1>1, <1>2, <1>4, <2>1, <2>2 DEF PromptOK
  <2> QED
    BY <2>1, <2>3 DEF BurstBound
<1>7. CASE u = w
  <2>2. /\ admitted[w] + 1 <= Limit
        /\ (admitted[w] + 1) * Window + admitted[w - 1] * (Window - e) <= Limit * Window
    BY <1>1, <1>2, <1>7, Weight
  <2>3. \A n \in 1 .. Window : prompt'[n] = prompt[n] + 1
    BY <1>3, <1>7
  <2>4. w - 1 # w /\ admitted'[w] = admitted[w] + 1 /\ admitted'[w - 1] = admitted[w - 1]
    BY <1>1, <1>5, <1>7, WindowNumbers
  <2> HIDE DEF u, w, e
  <2>5. e + 1 \in 1 .. Window
    BY <1>1, <1>2
  <2>6. PromptOK'
    <3>1. \A n \in 1 .. Window : \A m \in 1 .. n : prompt'[m] <= prompt'[n]
      BY <1>2, <1>4, <2>3
    <3>2. prompt'[e + 1] <= admitted'[w]
      BY <1>1, <1>4, <2>3, <2>4, <2>5
    <3>3. \A n \in e + 2 .. Window : prompt'[n] - prompt'[e + 1] <= admitted'[w - 1]
      BY <1>1, <1>2, <1>4, <2>3, <2>4, <2>5
    <3> QED
      BY <1>2, <1>4, <3>1, <3>2, <3>3 DEF PromptOK, w, e
  <2>7. BurstBound'
    <3> SUFFICES ASSUME NEW n \in 1 .. Window
                 PROVE  prompt'[n] * Window
                            <= Limit * Window + Limit * (IF n > 2 THEN n - 2 ELSE 0)
      BY DEF BurstBound
    <3> DEFINE l == IF n > 2 THEN n - 2 ELSE 0
               a == admitted[w] + 1
               b == admitted[w - 1]
    <3>1. a \in Nat /\ b \in Nat /\ a <= Limit /\ b <= Limit /\ l \in Nat
      BY <1>1, <1>4, <2>2
    <3>2. a * Window + b * (Window - e) <= Limit * Window
      BY <2>2
    <3> HIDE DEF l, a, b
    <3>3. /\ Limit * Window \in Nat /\ Limit * l \in Nat /\ a * Window \in Nat
          /\ b * Window \in Nat /\ b * e \in Nat /\ b * (Window - e) = b * Window - b * e
      BY <1>1, <1>2, <3>1
    <3>4. CASE n <= e + 1
      <4>1. prompt'[n] <= Limit /\ prompt'[n] \in Nat
        <5>1. n \in 1 .. (e + 1) /\ prompt[n] \in Nat /\ prompt[e + 1] \in Nat
          BY <1>1, <1>4, <2>5, <3>4
        <5>2. prompt[n] <= prompt[e + 1] /\ prompt[e + 1] <= admitted[w]
          BY <1>4, <2>5, <5>1
        <5>3. admitted[w] \in Nat /\ admitted[w] + 1 <= Limit /\ prompt'[n] = prompt[n] + 1
          BY <1>1, <1>4, <2>2, <2>3
        <5> QED
          BY <1>2, <5>1, <5>2, <5>3
      <4>2. prompt'[n] * Window <= Limit * Window /\ prompt'[n] * Window \in Int
        BY <1>2, <4>1, Products
      <4> QED
        BY <3>3, <4>2 DEF l
    <3>5. CASE n > e + 1
      <4>1. n \in e + 2 .. Window /\ e <= l
        BY <1>1, <1>2, <3>5 DEF l
      <4>2. prompt'[n] <= a + b /\ prompt'[n] \in Nat
        BY <1>1, <1>4, <2>3, <2>5, <4>1 DEF a, b
      <4>3. prompt'[n] * Window <= (a + b) * Window /\ prompt'[n] * Window \in Int
        BY <1>2, <3>1, <4>2, Products
      <4>4. (a + b) * Window = a * Window + b * Window
        BY <1>2, <3>1
      <4>5. b * e <= Limit * e /\ Limit * e \in Int
        BY <1>1, <1>2, <3>1, Products
      <4>6. Limit * e <= Limit * l
        BY <1>1, <1>2, <3>1, <4>1, Products
      <4> QED
        BY <3>2, <3>3, <4>3, <4>4, <4>5, <4>6 DEF l
    <3> QED
      BY <1>1, <3>4, <3>5
  <2> QED
    BY <2>6, <2>7
<1> QED
  BY <1>6, <1>7

\* In the last seconds no more is let through than the sliding window means to.
LEMMA PromptStep ==
    ASSUME Production, TypeOK, StampOK, CountersCoverAdmissions, WindowCap, PromptOK,
           BurstBound, [Next]_vars
    PROVE  PromptOK' /\ BurstBound'
<1>1. ASSUME UNCHANGED <<clock, admitted, prompt>> PROVE PromptOK' /\ BurstBound'
  BY <1>1 DEF PromptOK, BurstBound
<1>2. ASSUME NEW r \in Request, Check(r) PROVE PromptOK' /\ BurstBound'
  BY <1>1, <1>2, PromptAdmitted DEF Check, Refuse
<1>3. ASSUME NEW r \in Request, NEW executed \in BOOLEAN, RedisFails(r, executed)
      PROVE  PromptOK' /\ BurstBound'
  BY <1>1, <1>3 DEF RedisFails
<1>4. CASE Tick
  BY <1>4, PromptLater
<1>5. ASSUME NEW r \in Request, Send(r) PROVE PromptOK' /\ BurstBound'
  BY <1>1, <1>5 DEF Send
<1>6. CASE UNCHANGED vars
  BY <1>1, <1>6 DEF vars
<1> QED
  BY <1>2, <1>3, <1>4, <1>5, <1>6, Steps

\* A request that is let through is one more of the window of its stamp: of this one,
\* or of the one before, if the seconds of this one are covered by the lag.
LEMMA LateAdmitted ==
    ASSUME TypeOK, StampOK, clock >= Window, LateOK, NEW r \in Request, Check(r),
           Allowed(stamp[r])
    PROVE  LateOK'
<1> DEFINE w == WindowOf(clock)
           e == Elapsed(clock)
           t == stamp[r]
           u == WindowOf(t)
<1>1. /\ clock \in Nat /\ w \in Windows /\ w - 1 \in Windows /\ e \in 0 .. Window - 1
      /\ clock = w * Window + e
  BY BeforeNow, WindowHolds
<1>2. /\ clock' = clock /\ u \in Windows /\ t \in Nat /\ t <= clock /\ clock <= t + MaxLag
      /\ u * Window <= t /\ t < (u + 1) * Window
  BY Called, InWindows, WindowHolds DEF StampOK
<1>3. MaxLag \in Nat /\ MaxLag <= Window /\ Window \in Nat /\ Window > 0
  BY LagAssumption, WindowAssumption
<1>4. u <= w
  BY <1>1, <1>2, WindowOfMonotone
<1>5. /\ w \in Nat /\ u \in Nat /\ w * Window \in Nat /\ u * Window \in Nat
      /\ (u + 1) * Window = u * Window + Window
  BY <1>1, <1>2, WindowNumbers
<1>6. /\ \A n \in 1 .. Window : prompt[n] \in Nat /\ late[n] \in Nat
      /\ \A n \in 1 .. Window : prompt'[n] + late'[n] = prompt[n] + late[n] + 1
  <2>1. \A n \in 1 .. Window : prompt[n] \in Nat /\ late[n] \in Nat
    BY DEF TypeOK
  <2>2. Admit(r, Remaining(t))
    BY DEF Check
  <2>3. \/ prompt' = [n \in 1 .. Window |-> prompt[n] + 1] /\ late' = late
        \/ late' = [n \in 1 .. Window |-> late[n] + 1] /\ prompt' = prompt
    BY <2>2 DEF Admit
  <2>4. ASSUME NEW n \in 1 .. Window
        PROVE  prompt'[n] + late'[n] = prompt[n] + late[n] + 1
    <3>1. prompt[n] \in Nat /\ late[n] \in Nat
      BY <2>1
    <3>2. CASE prompt' = [x \in 1 .. Window |-> prompt[x] + 1] /\ late' = late
      <4>1. prompt'[n] = prompt[n] + 1 /\ late'[n] = late[n]
        BY <3>2
      <4> QED
        BY <3>1, <4>1
    <3>3. CASE late' = [x \in 1 .. Window |-> late[x] + 1] /\ prompt' = prompt
      <4>1. late'[n] = late[n] + 1 /\ prompt'[n] = prompt[n]
        BY <3>3
      <4> QED
        BY <3>1, <4>1
    <3> QED
      BY <2>3, <3>2, <3>3
  <2> QED
    BY <2>1, <2>4
<1>7. /\ \A x \in Windows : admitted[x] \in Nat
      /\ \A x \in Windows : admitted'[x] = IF x = u THEN admitted[x] + 1 ELSE admitted[x]
  <2>1. admitted \in [Windows -> Nat]
    BY DEF TypeOK
  <2>2. Admit(r, Remaining(t))
    BY DEF Check
  <2>3. admitted' = [admitted EXCEPT ![u] = @ + 1]
    BY <2>2 DEF Admit
  <2> HIDE DEF u
  <2> QED
    BY <2>1, <2>3
<1>8. /\ \A n \in 1 .. Window : n + MaxLag <= e + 1 => prompt[n] + late[n] <= admitted[w]
      /\ \A n \in 1 .. Window :
             n + MaxLag <= Window => prompt[n] + late[n] <= admitted[w] + admitted[w - 1]
  BY DEF LateOK
<1>9. u # w => u = w - 1 /\ e + 1 <= MaxLag
  <2> HIDE DEF w, u, e, t
  <2> SUFFICES ASSUME u # w PROVE u = w - 1 /\ e + 1 <= MaxLag
    OBVIOUS
  <2>0. u < w
    BY <1>4, <1>5
  <2>1. u < w /\ (u + 1) * Window <= w * Window
    BY <1>5, <2>0, WindowsInOrder
  <2>2. e + 1 <= MaxLag
    BY <1>1, <1>2, <1>3, <1>5, <2>1
  <2>3. w * Window < (u + 2) * Window
    <3>1. (u + 2) * Window = u * Window + 2 * Window
      BY <1>3, <1>5
    <3> QED
      BY <1>1, <1>2, <1>3, <1>5, <3>1
  <2>4. w < u + 2
    BY <1>5, <2>3, WindowsInOrder
  <2> QED
    BY <1>5, <2>1, <2>2, <2>4
<1> HIDE DEF w, u, e, t
<1>10. ASSUME NEW n \in 1 .. Window
       PROVE  /\ n + MaxLag <= e + 1 => prompt'[n] + late'[n] <= admitted'[w]
              /\ n + MaxLag <= Window =>
                     prompt'[n] + late'[n] <= admitted'[w] + admitted'[w - 1]
  <2>1. /\ prompt[n] \in Nat /\ late[n] \in Nat
        /\ prompt'[n] + late'[n] = prompt[n] + late[n] + 1
        /\ admitted[w] \in Nat /\ admitted[w - 1] \in Nat
    BY <1>1, <1>6, <1>7
  <2>2. CASE u = w
    <3>1. w - 1 # w /\ admitted'[w] = admitted[w] + 1 /\ admitted'[w - 1] = admitted[w - 1]
      BY <1>1, <1>5, <1>7, <2>2
    <3> QED
      BY <1>8, <2>1, <3>1
  <2>3. CASE u # w
    <3>1. /\ w - 1 # w /\ admitted'[w] = admitted[w] /\ admitted'[w - 1] = admitted[w - 1] + 1
          /\ ~ (n + MaxLag <= e + 1)
      BY <1>1, <1>3, <1>5, <1>7, <1>9, <2>3
    <3> QED
      BY <1>8, <2>1, <3>1
  <2> QED
    BY <2>2, <2>3
<1> QED
  BY <1>2, <1>10 DEF LateOK, w, e

\* A second later, what n - 1 seconds let through is what n seconds have.
LEMMA LateLater ==
    ASSUME TypeOK, clock >= Window, LateOK, Tick
    PROVE  LateOK'
<1> DEFINE w == WindowOf(clock)
           e == Elapsed(clock)
           v == WindowOf(clock + 1)
           d == Elapsed(clock + 1)
<1>1. /\ clock' = clock + 1 /\ w \in Nat
      /\ w \in Windows /\ w - 1 \in Windows /\ v \in Windows
      /\ e \in 0 .. Window - 1 /\ d \in 0 .. Window - 1
      /\ \/ v = w /\ d = e + 1
         \/ v = w + 1 /\ e = Window - 1 /\ d = 0
      /\ admitted'[w] = admitted[w] /\ (v = w => admitted'[w - 1] = admitted[w - 1])
      /\ admitted'[v] \in Nat
  BY AdmittedLater
<1>2. Window \in Nat /\ Window > 0 /\ MaxLag \in Nat
  BY WindowAssumption, LagAssumption
<1>3. \A x \in Windows : admitted[x] \in Nat
  BY DEF TypeOK
<1>4. /\ \A n \in 1 .. Window : n + MaxLag <= e + 1 => prompt[n] + late[n] <= admitted[w]
      /\ \A n \in 1 .. Window :
             n + MaxLag <= Window => prompt[n] + late[n] <= admitted[w] + admitted[w - 1]
  BY DEF LateOK
<1>5. ASSUME NEW n \in 1 .. Window
      PROVE  prompt'[n] + late'[n] = IF n = 1 THEN 0 ELSE prompt[n - 1] + late[n - 1]
  BY <1>2, <1>5 DEF Tick
<1> HIDE DEF w, v, e, d
<1>6. ASSUME NEW n \in 1 .. Window
      PROVE  /\ n + MaxLag <= d + 1 => prompt'[n] + late'[n] <= admitted'[v]
             /\ n + MaxLag <= Window =>
                    prompt'[n] + late'[n] <= admitted'[v] + admitted'[v - 1]
  <2>1. /\ admitted[w] \in Nat /\ admitted[w - 1] \in Nat
        /\ v = w => admitted'[v] = admitted[w] /\ admitted'[v - 1] = admitted[w - 1]
        /\ v = w + 1 => admitted'[v - 1] = admitted[w]
    BY <1>1, <1>3
  <2>2. CASE n = 1
    <3>1. prompt'[n] + late'[n] = 0
      BY <1>5, <2>2
    <3> QED
      BY <1>1, <2>1, <3>1
  <2>3. CASE n # 1
    <3>1. n - 1 \in 1 .. Window /\ prompt'[n] + late'[n] = prompt[n - 1] + late[n - 1]
      BY <1>2, <1>5, <2>3
    <3>2. prompt[n - 1] \in Nat /\ late[n - 1] \in Nat
      BY <3>1 DEF TypeOK
    <3>3. /\ (n - 1) + MaxLag <= e + 1 => prompt[n - 1] + late[n - 1] <= admitted[w]
          /\ (n - 1) + MaxLag <= Window =>
                 prompt[n - 1] + late[n - 1] <= admitted[w] + admitted[w - 1]
      BY <1>4, <3>1
    <3> QED
      BY <1>1, <1>2, <2>1, <2>3, <3>1, <3>2, <3>3
  <2> QED
    BY <2>2, <2>3
<1> QED
  BY <1>1, <1>6 DEF LateOK, v, d

\* Late or not, n seconds let through what their windows admit.
LEMMA LateStep ==
    ASSUME Production, TypeOK, StampOK, PromptOK, LateOK, [Next]_vars
    PROVE  LateOK'
<1> clock >= Window
  BY DEF PromptOK
<1>1. ASSUME UNCHANGED <<clock, admitted, prompt, late>> PROVE LateOK'
  BY <1>1 DEF LateOK
<1>2. ASSUME NEW r \in Request, Check(r) PROVE LateOK'
  BY <1>1, <1>2, LateAdmitted DEF Check, Refuse
<1>3. ASSUME NEW r \in Request, NEW executed \in BOOLEAN, RedisFails(r, executed)
      PROVE  LateOK'
  BY <1>1, <1>3 DEF RedisFails
<1>4. CASE Tick
  BY <1>4, LateLater
<1>5. ASSUME NEW r \in Request, Send(r) PROVE LateOK'
  BY <1>1, <1>5 DEF Send
<1>6. CASE UNCHANGED vars
  BY <1>1, <1>6 DEF vars
<1> QED
  BY <1>2, <1>3, <1>4, <1>5, <1>6, Steps

\* The step that lets a request through is covered by the limit.
LEMMA SlidingStep ==
    ASSUME Production, TypeOK, StampOK, CountersCoverAdmissions, [Next]_vars,
           NEW w \in Windows \ {0}, admitted'[w] > admitted[w]
    PROVE  admitted'[w] * Window + admitted[w - 1] * ((w + 1) * Window - clock)
           <= Limit * Window
<1>1. admitted[w] \in Nat
  BY DEF TypeOK
<1>2. PICK r \in Request : Check(r) /\ Allowed(stamp[r]) /\ w = WindowOf(stamp[r])
  <2>1. ~ UNCHANGED vars /\ ~ Tick /\ ~ \E r \in Request : Send(r)
    BY <1>1 DEF vars, Tick, Send
  <2>2. ASSUME NEW r \in Request, NEW executed \in BOOLEAN, RedisFails(r, executed)
        PROVE FALSE
    BY <1>1, <2>2 DEF RedisFails
  <2>3. PICK r \in Request : Check(r)
    BY <2>1, <2>2, Steps
  <2>4. Allowed(stamp[r]) /\ w = WindowOf(stamp[r])
    BY <1>1, <2>3 DEF TypeOK, Check, Admit, Refuse
  <2> QED
    BY <2>3, <2>4
<1>3. r \in InFlight /\ admitted'[w] = admitted[w] + 1
  BY <1>2, Called DEF TypeOK, Check, Admit
<1>4. w - 1 \in Windows
  BY WindowNumbers, BoundAssumption, WindowHolds DEF Windows, WindowOf
<1> QED
  BY <1>2, <1>3, <1>4, Weight

\* Within a window the weight of what is counted decreases as time passes.
LEMMA LoadLater ==
    ASSUME TypeOK, NEW t \in 0 .. MaxTime, NEW u \in 0 .. MaxTime,
           t <= u, WindowOf(t) = WindowOf(u)
    PROVE  Load(u) <= Load(t)
<1> DEFINE w == WindowOf(t)
<1>1. /\ w \in Nat /\ w * Window \in Nat /\ t = w * Window + Elapsed(t)
      /\ u = w * Window + Elapsed(u)
      /\ Elapsed(t) \in 0 .. Window - 1 /\ Elapsed(u) \in 0 .. Window - 1 /\ Window \in Nat
  BY InWindows, WindowHolds, WindowNumbers
<1>2. Hits(w) \in Nat /\ Hits(w - 1) \in Nat
  BY Weighed
<1> HIDE DEF w
<1>3. Window - Elapsed(u) <= Window - Elapsed(t)
  BY <1>1
<1>4. Hits(w - 1) * (Window - Elapsed(u)) <= Hits(w - 1) * (Window - Elapsed(t))
  BY <1>1, <1>2, <1>3, Products
<1>5. Load(u) = Hits(w) * Window + Hits(w - 1) * (Window - Elapsed(u))
  BY DEF Load, w
<1>6. Load(t) = Hits(w) * Window + Hits(w - 1) * (Window - Elapsed(t))
  BY DEF Load, w
<1> QED
  BY <1>1, <1>2, <1>4, <1>5, <1>6

\* So it does from one second to the next: the window that begins has no counter yet.
LEMMA LoadNext ==
    ASSUME TypeOK, FutureOK, clock + 1 \in 0 .. MaxTime
    PROVE  Load(clock + 1) <= Load(clock)
<1> DEFINE w == WindowOf(clock)
           v == WindowOf(clock + 1)
<1>1. CASE v = w
  BY <1>1, LoadLater, BoundAssumption DEF TypeOK
<1>2. CASE v # w
  <2>1. /\ clock \in 0 .. MaxTime /\ clock \in Nat /\ w \in Nat /\ v \in Nat
        /\ v \in Windows
        /\ clock = w * Window + Elapsed(clock) /\ Elapsed(clock) \in 0 .. Window - 1
        /\ clock + 1 = v * Window + Elapsed(clock + 1)
        /\ Elapsed(clock + 1) \in 0 .. Window - 1
        /\ w <= v
    BY InWindows, WindowHolds, WindowOfMonotone DEF TypeOK
  <2>2. Window \in Nat /\ w * Window \in Nat /\ v * Window \in Nat
    BY <2>1, WindowAssumption
  <2> HIDE DEF w, v
  <2>3. v = w + 1 /\ Elapsed(clock + 1) = 0
    BY <1>2, <2>1, NextSecond DEF w, v
  <2>4. Hits(v) = 0
    BY <2>1, <2>2, <2>3, WindowsInOrder DEF FutureOK, Hits
  <2>5. Hits(w) \in Nat /\ Hits(w - 1) \in Nat
    BY <2>1, Weighed DEF w
  <2>6. Load(clock + 1) = Hits(w) * Window
    <3>1. Load(clock + 1) = Hits(v) * Window + Hits(v - 1) * (Window - 0)
      BY <2>3 DEF Load, v
    <3> QED
      BY <2>1, <2>2, <2>3, <2>4, <2>5, <3>1
  <2>7. Load(clock) = Hits(w) * Window + Hits(w - 1) * (Window - Elapsed(clock))
    BY DEF Load, w
  <2>8. Hits(w - 1) * (Window - Elapsed(clock)) \in Nat /\ Hits(w) * Window \in Nat
    BY <2>1, <2>2, <2>5
  <2> QED
    BY <2>6, <2>7, <2>8
<1> QED
  BY <1>1, <1>2

\* One more in one of the two counters adds at most Window to what they weigh.
LEMMA OneMore ==
    ASSUME NEW h \in Nat, NEW g \in Nat, NEW i \in Nat, NEW j \in Nat,
           NEW e \in 0 .. Window - 1, NEW n \in 0 .. 1,
           (i <= h + n /\ j <= g) \/ (i <= h /\ j <= g + n)
    PROVE  /\ i * Window + j * (Window - e) <= h * Window + g * (Window - e) + n * Window
           /\ i * Window + j * (Window - e) \in Nat
<1>1. Window \in Nat /\ Window - e \in Nat /\ Window - e <= Window /\ n \in Nat
  BY WindowAssumption
<1> DEFINE d == Window - e
<1> HIDE DEF d
<1>2. d \in Nat /\ d <= Window
  BY <1>1 DEF d
<1>3. /\ i * Window \in Nat /\ j * d \in Nat /\ h * Window \in Nat /\ g * d \in Nat
      /\ n * Window \in Nat /\ n * d \in Nat /\ n * d <= n * Window
  BY <1>1, <1>2, Products
<1>4. (h + n) * Window = h * Window + n * Window /\ (g + n) * d = g * d + n * d
  BY <1>1, <1>2
<1>5. CASE i <= h + n /\ j <= g
  BY <1>1, <1>2, <1>3, <1>4, <1>5, Products DEF d
<1>6. CASE i <= h /\ j <= g + n
  BY <1>1, <1>2, <1>3, <1>4, <1>6, Products DEF d
<1> QED
  BY <1>5, <1>6

\* One request more in one window adds at most one request's weight, and counters that
\* are dropped add nothing.
LEMMA LoadCounted ==
    ASSUME TypeOK, TypeOK', NEW t \in 0 .. MaxTime, NEW w \in Windows, NEW n \in 0 .. 1,
           hits'[w] <= hits[w] + n, \A v \in Windows \ {w} : hits'[v] <= hits[v]
    PROVE  Load(t)' <= Load(t) + n * Window /\ Load(t)' \in Nat
<1> DEFINE v == WindowOf(t)
<1>1. v \in Windows /\ v \in Nat /\ w \in Nat /\ Elapsed(t) \in 0 .. Window - 1
  BY InWindows, WindowHolds, WindowNumbers
<1>2. hits \in [Windows -> Nat] /\ hits' \in [Windows -> Nat]
  BY DEF TypeOK
<1>3. Hits(v) \in Nat /\ Hits(v - 1) \in Nat /\ Hits(v)' \in Nat /\ Hits(v - 1)' \in Nat
  BY <1>1, <1>2 DEF Hits
<1>4. \/ Hits(v)' <= Hits(v) + n /\ Hits(v - 1)' <= Hits(v - 1)
      \/ Hits(v)' <= Hits(v) /\ Hits(v - 1)' <= Hits(v - 1) + n
  <2>1. CASE w = v
    BY <1>1, <1>2, <2>1 DEF Hits
  <2>2. CASE w # v
    BY <1>1, <1>2, <2>2 DEF Hits
  <2> QED
    BY <2>1, <2>2
<1>5. /\ Load(t) = Hits(v) * Window + Hits(v - 1) * (Window - Elapsed(t))
      /\ Load(t)' = Hits(v)' * Window + Hits(v - 1)' * (Window - Elapsed(t))
  BY DEF Load, Elapsed, WindowOf
<1>6. /\ Hits(v)' * Window + Hits(v - 1)' * (Window - Elapsed(t))
            <= Hits(v) * Window + Hits(v - 1) * (Window - Elapsed(t)) + n * Window
      /\ Hits(v)' * Window + Hits(v - 1)' * (Window - Elapsed(t)) \in Nat
  BY <1>1, <1>3, <1>4, OneMore
<1> QED
  BY <1>5, <1>6

\* A request that is counted uses up one of the promised ones, and time adds no weight.
LEMMA PromiseStep ==
    ASSUME Production, TypeOK, TypeOK', StampOK, FutureOK, PromiseOK, [Next]_vars
    PROVE  PromiseOK'
<1> SUFFICES ASSUME promise' > 0, NEW t \in {clock'} \cup {stamp'[r] : r \in InFlight'}
             PROVE  Load(t)' + promise' * Window <= Limit * Window
  BY DEF PromiseOK
<1>1. t \in 0 .. MaxTime /\ Load(t) \in Nat
  <2>1. t \in 0 .. MaxTime
    BY DEF TypeOK, InFlight
  <2> QED
    BY <2>1, Weighed
<1>2. /\ Window \in Nat /\ Limit * Window \in Nat /\ promise \in Nat /\ promise' \in Nat
      /\ promise * Window \in Nat /\ promise' * Window \in Nat
      /\ (promise - 1) * Window = promise * Window - Window
  <2>1. Window \in Nat /\ Limit \in Nat /\ promise \in Nat /\ promise' \in Nat
    BY WindowAssumption, LimitAssumption DEF TypeOK
  <2>2. \A a \in Nat : a * Window \in Nat
    BY WindowAssumption
  <2>3. \A a \in Nat : (a - 1) * Window = a * Window - Window
    BY WindowAssumption
  <2> QED
    BY <2>1, <2>2, <2>3
<1>3. ASSUME \A w \in Windows : hits'[w] <= hits[w]
      PROVE  Load(t)' <= Load(t) /\ Load(t)' \in Nat
  <2>1. 0 \in 0 .. 1 /\ WindowOf(t) \in Windows /\ 0 * Window = 0
        /\ hits[WindowOf(t)] \in Nat
    BY <1>1, <1>2, InWindows DEF TypeOK
  <2>2. Load(t)' <= Load(t) + 0 * Window /\ Load(t)' \in Nat
    BY <1>1, <1>3, <2>1, LoadCounted
  <2> QED
    BY <1>1, <2>1, <2>2
<1>4. ASSUME NEW r \in Request, Send(r) PROVE Load(t)' + promise' * Window <= Limit * Window
  <2>1. promise' = promise /\ \A w \in Windows : hits'[w] <= hits[w]
    BY <1>4 DEF TypeOK, Send, redis
  <2>2. t \in {clock} \cup {stamp[s] : s \in InFlight}
    BY <1>4 DEF Send, InFlight, TypeOK
  <2> QED
    BY <1>1, <1>2, <1>3, <2>1, <2>2 DEF PromiseOK
<1>5. ASSUME NEW r \in Request,
             Check(r) \/ \E executed \in BOOLEAN : RedisFails(r, executed)
      PROVE  Load(t)' + promise' * Window <= Limit * Window
  <2> DEFINE w == WindowOf(stamp[r])
  <2>1. /\ r \in InFlight /\ stamp[r] \in 0 .. MaxTime /\ w \in Windows /\ UNCHANGED clock
        /\ InFlight' = InFlight \ {r}
        /\ t \in {clock} \cup {stamp[s] : s \in InFlight \ {r}}
    BY <1>5, Called
  <2>2. Load(t)' <= Load(t) + Window /\ Load(t)' \in Nat
    <3>1. hits'[w] <= hits[w] + 1 /\ \A v \in Windows \ {w} : hits'[v] <= hits[v]
      <4>1. /\ hits'[w] = hits[w] \/ hits'[w] = hits[w] + 1
            /\ \A v \in Windows \ {w} : hits'[v] = hits[v]
        BY <1>5, Called
      <4>2. \A v \in Windows : hits[v] \in Nat
        BY DEF TypeOK
      <4> HIDE DEF w
      <4> QED
        BY <2>1, <4>1, <4>2
    <3>2. Load(t)' <= Load(t) + 1 * Window /\ Load(t)' \in Nat
      BY <1>1, <2>1, <3>1, LoadCounted
    <3> QED
      BY <1>2, <3>2
  <2>3. CASE promise' = promise - 1
    <3>1. Load(t) + promise * Window <= Limit * Window
      BY <1>2, <2>1, <2>3 DEF PromiseOK
    <3> QED
      BY <1>1, <1>2, <2>2, <2>3, <3>1
  <2>4. CASE Check(r) /\ Allowed(stamp[r]) /\ InFlight = {r} /\ w = WindowOf(clock)
    <3>1. promise' = Remaining(stamp[r]) /\ t = clock /\ stamp[r] <= clock
      BY <2>1, <2>4 DEF Check, Admit, StampOK
    <3>2. Load(t) <= Load(stamp[r])
      BY <1>1, <2>1, <2>4, <3>1, LoadLater
    <3>3. /\ Load(stamp[r]) \in Nat
          /\ Load(stamp[r]) + Window + promise' * Window <= Limit * Window
      BY <2>1, <2>4, <3>1, Weighed
    <3> QED
      BY <1>1, <1>2, <2>2, <3>2, <3>3
  <2>5. promise' = promise - 1
           \/ (Check(r) /\ Allowed(stamp[r]) /\ InFlight = {r} /\ w = WindowOf(clock))
    BY <1>2, <1>5 DEF Check, Admit, Refuse, RedisFails
  <2> QED
    BY <2>3, <2>4, <2>5
<1>6. CASE Tick
  <2>1. promise' = promise /\ \A w \in Windows : hits'[w] <= hits[w]
    BY <1>6, Passed
  <2>2. CASE t = clock'
    <3>1. t = clock + 1 /\ Load(t) <= Load(clock) /\ Load(clock) \in Nat
      BY <1>1, <1>6, <2>2, Passed, LoadNext, Weighed DEF TypeOK
    <3> QED
      BY <1>1, <1>2, <1>3, <2>1, <3>1 DEF PromiseOK
  <2>3. CASE t \in {stamp[r] : r \in InFlight}
    BY <1>1, <1>2, <1>3, <2>1, <2>3 DEF PromiseOK
  <2> QED
    BY <1>6, <2>2, <2>3, Passed
<1>7. CASE UNCHANGED vars
  <2>1. promise' = promise /\ \A w \in Windows : hits'[w] <= hits[w]
    BY <1>7 DEF TypeOK, vars
  <2>2. t \in {clock} \cup {stamp[s] : s \in InFlight}
    BY <1>7 DEF vars, InFlight
  <2> QED
    BY <1>1, <1>2, <1>3, <2>1, <2>2 DEF PromiseOK
<1> QED
  BY <1>4, <1>5, <1>6, <1>7, Steps

-----------------------------------------------------------------------------
(* A client that waits *****************************************************)

\* A refusal ends no wait inside the window of the refused request.
LEMMA WaitEnds ==
    ASSUME TypeOK, StampOK, NEW r \in InFlight
    PROVE  LET w == WindowOf(stamp[r]) IN
           /\ clock + 1 <= clock + Reset(stamp[r])
           /\ (w + 1) * Window <= clock + Reset(stamp[r])
           /\ w * Window <= stamp[r] /\ stamp[r] < (w + 1) * Window
<1> DEFINE w == WindowOf(stamp[r])
<1>1. stamp[r] \in 0 .. MaxTime /\ stamp[r] \in Nat /\ w \in Windows /\ stamp[r] <= clock
  BY InWindows DEF TypeOK, StampOK, InFlight
<1>2. clock \in Nat /\ Elapsed(stamp[r]) \in 0 .. Window - 1 /\ Window \in Nat
  <2>1. clock \in Nat /\ Window \in Nat
    BY BoundAssumption, WindowAssumption DEF TypeOK
  <2>2. Elapsed(stamp[r]) \in 0 .. Window - 1
    BY <1>1, WindowHolds
  <2> QED
    BY <2>1, <2>2
<1>3. /\ stamp[r] = w * Window + Elapsed(stamp[r])
      /\ w * Window \in Nat /\ (w + 1) * Window = w * Window + Window
  BY <1>1, WindowHolds, WindowNumbers
<1>4. /\ Reset(stamp[r]) \in Nat /\ 1 <= Reset(stamp[r])
      /\ Window - Elapsed(stamp[r]) <= Reset(stamp[r])
  BY <1>1, Weighed
<1> HIDE DEF w
<1>5. clock + 1 <= clock + Reset(stamp[r]) /\ (w + 1) * Window <= clock + Reset(stamp[r])
  BY <1>1, <1>2, <1>3, <1>4
<1>6. w * Window <= stamp[r] /\ stamp[r] < (w + 1) * Window
  BY <1>1, <1>2, <1>3
<1> QED
  BY <1>5, <1>6 DEF w

\* With two requests' weight to spare, one request before and none in its own window
\* let a request through.
LEMMA SparseIsAllowed ==
    ASSUME Limit > 1, TypeOK, NEW t \in 0 .. MaxTime,
           Hits(WindowOf(t)) = 0, Hits(WindowOf(t) - 1) <= 1
    PROVE  Allowed(t)
<1>1. /\ Window \in Nat /\ Elapsed(t) \in 0 .. Window - 1
      /\ Hits(WindowOf(t) - 1) \in 0 .. 1 /\ Weighted(t) = Load(t) + Window
  <2>1. Window \in Nat /\ Elapsed(t) \in 0 .. Window - 1
    BY InWindows, WindowHolds, WindowAssumption
  <2>2. Hits(WindowOf(t) - 1) \in Nat /\ Weighted(t) = Load(t) + Window
    BY Weighed
  <2> QED
    BY <2>1, <2>2
<1>2. Load(t) <= Window /\ Load(t) \in Nat
  BY <1>1, WindowAssumption DEF Load
<1>3. 2 * Window <= Limit * Window /\ Limit * Window \in Int
  BY <1>1, LimitAssumption, Products
<1> QED
  BY <1>1, <1>2, <1>3 DEF Allowed

\* What a refused client that waits leaves behind: each refusal empties one window more.
LEMMA StreakStep ==
    ASSUME Limit > 1, TypeOK, TypeOK', StampOK, FutureOK, StreakOK, [Next]_vars
    PROVE  StreakOK'
<1>1. ASSUME streak' = 0 PROVE StreakOK'
  BY <1>1 DEF StreakOK, ObedientClientIsAdmitted
<1>2. ASSUME streak' = streak, notBefore' = notBefore, InFlight' \subseteq InFlight,
             \A r \in InFlight' : stamp'[r] = stamp[r],
             \A w \in Windows : hits'[w] <= hits[w]
      PROVE  StreakOK'
  <2>1. \A w \in Windows : hits'[w] \in Nat /\ hits[w] \in Nat
    BY DEF TypeOK
  <2>2. \A w \in Windows : (hits[w] = 0 => hits'[w] = 0) /\ (hits[w] <= 1 => hits'[w] <= 1)
    BY <1>2, <2>1
  <2> QED
    BY <1>2, <2>2 DEF StreakOK, ObedientClientIsAdmitted
<1>3. ASSUME NEW r \in Request, Send(r) PROVE StreakOK'
  <2>1. CASE Obedient
    <3>1. /\ streak' = streak /\ notBefore' = notBefore /\ hits' = hits
          /\ InFlight' = {r} /\ stamp'[r] = clock /\ notBefore <= clock
      BY <1>3, <2>1, ModeAssumption, BoundAssumption DEF Obedient, Send, InFlight,
                                                         TypeOK, redis
    <3> QED
      BY <3>1 DEF StreakOK, ObedientClientIsAdmitted
  <2>2. CASE ~ Obedient
    BY <1>1, <1>3, <2>2 DEF Send
  <2> QED
    BY <2>1, <2>2
<1>4. ASSUME NEW r \in Request, Check(r), InFlight = {r}, Refuse(r, Reset(stamp[r])),
             ~ Allowed(stamp[r])
      PROVE  StreakOK'
  <2> DEFINE t == stamp[r]
             w == WindowOf(t)
  <2>1. /\ r \in InFlight /\ InFlight' = {} /\ t \in 0 .. MaxTime /\ t \in Nat
        /\ w \in Windows
        /\ hits'[w] = hits[w] + 1 /\ \A v \in Windows \ {w} : hits'[v] = hits[v]
    BY <1>4, Called, InWindows
  <2>2. /\ streak' = streak + 1 /\ notBefore' = clock + Reset(t)
        /\ streak \in Nat /\ notBefore \in Nat /\ notBefore' \in Nat /\ clock \in Nat
    BY <1>4, BoundAssumption DEF Refuse, TypeOK
  <2>3. /\ clock + 1 <= notBefore' /\ (w + 1) * Window <= notBefore'
        /\ w * Window <= t /\ t < (w + 1) * Window /\ t <= clock
    BY <2>1, <2>2, WaitEnds DEF StampOK
  <2>4. streak > 0 => notBefore <= t
    BY <2>1 DEF StreakOK
  <2>5. w \in Nat /\ w * Window \in Nat /\ (w + 1) * Window = w * Window + Window
        /\ Window \in Nat
    BY <2>1, WindowNumbers
  <2> HIDE DEF t, w
  <2>6. ASSUME NEW v \in Windows, notBefore' < v * Window PROVE hits'[v] = 0
    <3>1. v \in Nat /\ v * Window \in Nat /\ clock < v * Window
      BY <2>2, <2>3, <2>6, WindowNumbers
    <3>2. v # w
      BY <2>1, <2>2, <2>3, <2>5, <3>1
    <3> QED
      BY <2>1, <3>1, <3>2 DEF FutureOK
  <2>7. ASSUME streak > 0, NEW v \in Windows, notBefore' < (v + 1) * Window
        PROVE hits'[v] = 0
    <3>1. v \in Nat /\ (v + 1) * Window \in Nat /\ v * Window \in Nat
      BY WindowNumbers
    <3>2. (w + 1) * Window < (v + 1) * Window
      BY <2>2, <2>3, <2>5, <2>7, <3>1
    <3>3. w < v /\ (w + 1) * Window <= v * Window
      BY <2>5, <3>1, <3>2, WindowsInOrder
    <3>4. notBefore < v * Window
      BY <2>1, <2>2, <2>3, <2>4, <2>5, <2>7, <3>1, <3>3
    <3> QED
      BY <2>1, <2>5, <2>7, <3>1, <3>3, <3>4 DEF StreakOK
  <2>8. ASSUME streak > 1, NEW v \in Windows, notBefore' < (v + 2) * Window
        PROVE hits'[v] <= 1
    <3>1. /\ v \in Nat /\ (v + 1) * Window \in Nat /\ (v + 2) * Window \in Nat
          /\ v + 2 = (v + 1) + 1
      BY WindowNumbers
    <3>2. (w + 1) * Window < ((v + 1) + 1) * Window
      BY <2>2, <2>3, <2>5, <2>8, <3>1
    <3>3. w < v + 1
      BY <2>5, <3>1, <3>2, WindowsInOrder
    <3>4. (w + 1) * Window <= (v + 1) * Window
      BY <2>5, <3>1, <3>3, WindowsInOrder
    <3>5. notBefore < (v + 1) * Window
      BY <2>1, <2>2, <2>3, <2>4, <2>5, <2>8, <3>1, <3>4
    <3>6. hits[v] = 0
      BY <2>8, <3>5 DEF StreakOK
    <3> QED
      BY <2>1, <3>6
  <2>9. streak' <= 3
    <3>1. SUFFICES ASSUME streak = 3 PROVE FALSE
      BY <2>2, LimitAssumption DEF StreakOK, ObedientClientIsAdmitted
    <3>2. notBefore < (w + 1) * Window
      BY <2>1, <2>2, <2>3, <2>4, <2>5, <3>1
    <3>3. Hits(w) = 0
      BY <2>1, <3>1, <3>2 DEF StreakOK, Hits
    <3>4. Hits(w - 1) <= 1
      <4>1. (w - 1) + 2 = w + 1
        BY <2>5
      <4>2. w - 1 \in Windows => hits[w - 1] <= 1
        BY <3>1, <3>2, <4>1 DEF StreakOK
      <4> QED
        BY <4>2 DEF Hits
    <3> QED
      BY <1>4, <2>1, <3>3, <3>4, SparseIsAllowed DEF w, t
  <2> QED
    BY <2>1, <2>2, <2>6, <2>7, <2>8, <2>9 DEF StreakOK, ObedientClientIsAdmitted
<1>5. ASSUME NEW r \in Request, Check(r) PROVE StreakOK'
  BY <1>1, <1>4, <1>5, Called DEF Check, Admit, Refuse
<1>6. ASSUME NEW r \in Request, NEW executed \in BOOLEAN, RedisFails(r, executed)
      PROVE StreakOK'
  BY <1>1, <1>6 DEF RedisFails, Admit
<1>7. CASE Tick
  BY <1>2, <1>7, Passed
<1>8. CASE UNCHANGED vars
  <2>1. InFlight' = InFlight /\ \A w \in Windows : hits'[w] <= hits[w]
    BY <1>8 DEF TypeOK, vars, InFlight
  <2> QED
    BY <1>2, <1>8, <2>1 DEF vars
<1> QED
  BY <1>3, <1>5, <1>6, <1>7, <1>8, Steps

-----------------------------------------------------------------------------
(* The promises of the limiter *********************************************)

\* The inductive invariant holds throughout, whatever the mode.
LEMMA Inductive == Spec => []IInv
<1>1. Init => IInv
  BY InitOK
<1>2. IInv /\ [Next]_vars => IInv'
  BY TypeStep, StampStep, ExpiryStep, FutureStep, StreakStep DEF IInv
<1> QED
  BY <1>1, <1>2, PTL DEF Spec

\* What production adds to it.
LEMMA ProductionInductive ==
    ASSUME Production
    PROVE  Spec => [](IInv /\ ProductionInv)
<1>1. Init => IInv /\ ProductionInv
  BY InitOK
<1>2. IInv /\ ProductionInv /\ [Next]_vars => IInv' /\ ProductionInv'
  BY TypeStep, StampStep, ExpiryStep, FutureStep, StreakStep, CoverStep, CapStep,
     PromiseStep, PromptStep, LateStep
     DEF IInv, ProductionInv
<1> QED
  BY <1>1, <1>2, PTL DEF Spec

\* Every variable keeps its type: Remaining is never negative nor above the limit.
THEOREM TypeCorrect == Spec => []TypeOK
<1>1. IInv => TypeOK
  BY DEF IInv
<1> QED
  BY Inductive, <1>1, PTL

\* No key is dropped by its EXPIRE (rate_limit.py:29) while check_rate_limit may
\* still weigh it, whenever it was created and however late its requests come.
THEOREM CountersCover ==
    ASSUME Production
    PROVE  Spec => []CountersCoverAdmissions
<1>1. ProductionInv => CountersCoverAdmissions
  BY DEF ProductionInv
<1> QED
  BY ProductionInductive, <1>1, PTL

\* A window lets at most rate_limit_<tier> requests through.
THEOREM Capped ==
    ASSUME Production
    PROVE  Spec => []WindowCap
<1>1. ProductionInv => WindowCap
  BY DEF ProductionInv
<1> QED
  BY ProductionInductive, <1>1, PTL

\* Each admission is covered by the limit together with what the window before still
\* counts for at the moment the script runs.
THEOREM Sliding ==
    ASSUME Production
    PROVE  Spec => SlidingBound
<1> DEFINE Covered == \A w \in Windows \ {0} :
              admitted'[w] > admitted[w] =>
                  admitted'[w] * Window + admitted[w - 1] * ((w + 1) * Window - clock)
                      <= Limit * Window
<1>1. IInv /\ ProductionInv /\ [Next]_vars => [Covered]_vars
  BY SlidingStep DEF IInv, ProductionInv
<1> QED
  BY ProductionInductive, <1>1, PTL DEF Spec, SlidingBound

\* No double burst at the boundary of two windows: the requests that reach Redis in the
\* window of their stamp exceed the limit by the share of n - 2 seconds at most.
THEOREM Burst ==
    ASSUME Production
    PROVE  Spec => []BurstBound
<1>1. ProductionInv => BurstBound
  BY DEF ProductionInv
<1> QED
  BY ProductionInductive, <1>1, PTL

\* The requests that cross a boundary on their way to Redis come on top, but with them
\* there are never more than twice the limit.
THEOREM LateBurst ==
    ASSUME Production
    PROVE  Spec => []LateBurstBound
<1>1. ASSUME TypeOK, WindowCap, LateOK, clock >= Window PROVE LateBurstBound
  <2> DEFINE w == WindowOf(clock)
  <2>1. w \in Windows /\ w - 1 \in Windows
    BY <1>1, BeforeNow
  <2>2. /\ admitted[w] \in Nat /\ admitted[w] <= Limit
        /\ admitted[w - 1] \in Nat /\ admitted[w - 1] <= Limit
    BY <1>1, <2>1 DEF TypeOK, WindowCap
  <2> HIDE DEF w
  <2> SUFFICES ASSUME NEW n \in 1 .. Window, n + MaxLag <= Window
               PROVE  prompt[n] + late[n] <= 2 * Limit
    BY DEF LateBurstBound
  <2>3. prompt[n] \in Nat /\ late[n] \in Nat
    BY <1>1 DEF TypeOK
  <2>4. prompt[n] + late[n] <= admitted[w] + admitted[w - 1]
    BY <1>1 DEF LateOK, w
  <2> QED
    BY <2>2, <2>3, <2>4, LimitAssumption
<1>2. IInv /\ ProductionInv => LateBurstBound
  BY <1>1 DEF IInv, ProductionInv, PromptOK
<1> QED
  BY ProductionInductive, <1>2, PTL

\* X-RateLimit-Remaining is honoured, in any order and at any later time.
THEOREM RemainingHonoured ==
    ASSUME Production
    PROVE  Spec => []RemainingIsHonoured
<1>1. ASSUME TypeOK, PromiseOK, promise > 0, NEW r \in InFlight PROVE Allowed(stamp[r])
  <2>1. stamp[r] \in 0 .. MaxTime
    BY <1>1 DEF TypeOK, InFlight
  <2>2. /\ Load(stamp[r]) \in Nat /\ Weighted(stamp[r]) = Load(stamp[r]) + Window
        /\ Load(stamp[r]) + promise * Window <= Limit * Window
    BY <1>1, <2>1, Weighed DEF PromiseOK
  <2>3. Window \in Nat /\ promise \in Nat /\ 1 <= promise /\ Limit * Window \in Int
    BY <1>1, WindowAssumption, LimitAssumption DEF TypeOK
  <2>4. 1 * Window <= promise * Window /\ promise * Window \in Int /\ 1 * Window = Window
    BY <2>3, Products
  <2> QED
    BY <2>2, <2>3, <2>4 DEF Allowed
<1>2. IInv /\ ProductionInv => RemainingIsHonoured
  BY <1>1 DEF IInv, ProductionInv, RemainingIsHonoured
<1> QED
  BY ProductionInductive, <1>2, PTL

\* Where two requests are allowed, a client that waits out every Retry-After is refused
\* at most three times in a row, in production and elsewhere.
THEOREM ObedientAdmitted == Spec => []ObedientClientIsAdmitted
<1>1. IInv => ObedientClientIsAdmitted
  BY DEF IInv, StreakOK, ObedientClientIsAdmitted
<1> QED
  BY Inductive, <1>1, PTL
=============================================================================
