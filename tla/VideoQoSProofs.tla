--------------------------- MODULE VideoQoSProofs ---------------------------
(***************************************************************************)
(* Proofs about VideoQoS, for any number of users, any rates, delays and   *)
(* sizes of the windows.                                                   *)
(***************************************************************************)
EXTENDS VideoQoS, Integers, WellFoundedInduction, SequenceTheorems, TLAPS

----------------------------------------------------------------------------
(* Numbers.                                                                *)

\* A set of natural numbers has a least one: what the minima of the code and every
\* induction below rest on.
LEMMA LeastNat ==
    ASSUME NEW S \in SUBSET Nat, S # {}
    PROVE  \E m \in S : \A n \in S : m <= n
<1>1. PICK m \in S : \A n \in S : ~(<<n, m>> \in OpToRel(<, Nat))
    BY NatLessThanWellFounded, WFMin
<1>2. \A n \in S : m <= n
    <2> SUFFICES ASSUME NEW n \in S, ~(m <= n) PROVE FALSE
        OBVIOUS
    <2>1. n \in Nat /\ m \in Nat /\ n < m
        OBVIOUS
    <2>2. <<n, m>> \in OpToRel(<, Nat)
        BY <2>1 DEF OpToRel
    <2> QED
        BY <1>1, <2>2
<1> QED
    BY <1>2

\* Min of a set of natural numbers: the minimum adjust_fps and highest_fps take over
\* the users.
LEMMA MinNat ==
    ASSUME NEW S \in SUBSET Nat, S # {}
    PROVE  Min(S) \in S /\ \A n \in S : Min(S) <= n
<1>1. \E m \in S : \A n \in S : m <= n
    BY LeastNat
<1> QED
    BY <1>1 DEF Min

\* Min and Max of two numbers: u32::min and u32::max.
LEMMA MinPair ==
    ASSUME NEW a \in Int, NEW b \in Int
    PROVE  Min({a, b}) = IF a <= b THEN a ELSE b
<1>1. \E m \in {a, b} : \A n \in {a, b} : m <= n
    OBVIOUS
<1>2. Min({a, b}) \in {a, b} /\ \A n \in {a, b} : Min({a, b}) <= n
    BY <1>1 DEF Min
<1> QED
    BY <1>2

\* The maximum of two numbers is the greater one.
LEMMA MaxPair ==
    ASSUME NEW a \in Int, NEW b \in Int
    PROVE  Max({a, b}) = IF a >= b THEN a ELSE b
<1>1. \E m \in {a, b} : \A n \in {a, b} : m >= n
    OBVIOUS
<1>2. Max({a, b}) \in {a, b} /\ \A n \in {a, b} : Max({a, b}) >= n
    BY <1>1 DEF Max
<1> QED
    BY <1>2

\* u32::clamp.
LEMMA ClampBetween ==
    ASSUME NEW n \in Nat, NEW lo \in Nat, NEW hi \in Nat, lo <= hi
    PROVE  /\ Clamp(n, lo, hi) \in lo .. hi
           /\ \A b \in Nat : n <= b /\ lo <= b => Clamp(n, lo, hi) <= b
<1>1. Min({n, hi}) = IF n <= hi THEN n ELSE hi
    BY MinPair
<1>2. Min({n, hi}) \in Nat /\ Min({n, hi}) <= hi /\ Min({n, hi}) <= n
    BY <1>1
<1>3. Max({lo, Min({n, hi})}) = IF lo >= Min({n, hi}) THEN lo ELSE Min({n, hi})
    BY <1>2, MaxPair
<1> QED
    BY <1>2, <1>3 DEF Clamp

----------------------------------------------------------------------------
(* The sum of a sequence.                                                  *)

\* The partial sums of s up to its k-th element.
Sums(s, k) == {f \in [0 .. k -> Nat] : f[0] = 0 /\ \A n \in 1 .. k : f[n] = f[n - 1] + s[n]}

\* Partial sums exist up to every length; by the least one without.
LEMMA SumsExist ==
    ASSUME NEW s \in Seq(Nat), NEW l \in 0 .. Len(s)
    PROVE  Sums(s, l) # {}
<1> DEFINE B == {k \in 0 .. Len(s) : Sums(s, k) = {}}
<1> SUFFICES ASSUME B # {} PROVE FALSE
    OBVIOUS
<1>1. PICK k \in B : \A n \in B : k <= n
    <2>1. B \in SUBSET Nat
        OBVIOUS
    <2> HIDE DEF B
    <2> QED
        BY <2>1, LeastNat
<1>2. CASE k = 0
    <2>1. [n \in 0 .. 0 |-> 0] \in Sums(s, 0)
        BY DEF Sums
    <2> QED
        BY <1>1, <1>2, <2>1
<1>3. CASE k # 0
    <2>1. k - 1 \in 0 .. Len(s) /\ k - 1 \notin B /\ k \in 1 .. Len(s)
        <3>1. k \in 0 .. Len(s) /\ Len(s) \in Nat
            BY <1>1
        <3>2. k - 1 \in 0 .. Len(s) /\ k \in 1 .. Len(s) /\ ~(k <= k - 1)
            BY <1>3, <3>1
        <3> HIDE DEF B
        <3> QED
            BY <1>1, <3>2
    <2>2. PICK f \in Sums(s, k - 1) : TRUE
        BY <2>1
    <2>3. f \in [0 .. (k - 1) -> Nat] /\ f[0] = 0 /\ \A n \in 1 .. (k - 1) : f[n] = f[n - 1] + s[n]
        BY <2>2 DEF Sums
    <2>4. s[k] \in Nat /\ f[k - 1] \in Nat
        BY <2>1, <2>3, ElementOfSeq
    <2>5. PICK g : g = [n \in 0 .. k |-> IF n = k THEN f[k - 1] + s[k] ELSE f[n]]
        OBVIOUS
    <2>6. g \in [0 .. k -> Nat]
        BY <2>1, <2>3, <2>4, <2>5
    <2>7. g[0] = 0
        BY <2>1, <2>3, <2>5
    <2>8. ASSUME NEW n \in 1 .. k PROVE g[n] = g[n - 1] + s[n]
        <3>1. n - 1 \in 0 .. k /\ n - 1 # k /\ n \in 0 .. k /\ n # 0
            BY <2>1
        <3>2. g[n - 1] = f[n - 1] /\ g[n] = IF n = k THEN f[k - 1] + s[k] ELSE f[n]
            BY <2>5, <3>1
        <3>3. CASE n = k
            BY <3>2, <3>3
        <3>4. CASE n # k
            <4>1. n \in 1 .. (k - 1)
                BY <2>1, <3>4
            <4> QED
                BY <2>3, <3>2, <3>4, <4>1
        <3> QED
            BY <3>3, <3>4
    <2>9. g \in Sums(s, k)
        BY <2>6, <2>7, <2>8 DEF Sums
    <2> QED
        BY <1>1, <2>9
<1> QED
    BY <1>2, <1>3

\* Total is a natural number: the sum of delay_history.
LEMMA TotalNat ==
    ASSUME NEW s \in Seq(Nat)
    PROVE  Total(s) \in Nat
<1> DEFINE Eq(f) == f = [n \in 0 .. Len(s) |-> IF n = 0 THEN 0 ELSE f[n - 1] + s[n]]
<1>1. Len(s) \in Nat
    OBVIOUS
<1>2. PICK f \in Sums(s, Len(s)) : TRUE
    BY <1>1, SumsExist
<1>3. f \in [0 .. Len(s) -> Nat] /\ f[0] = 0 /\ \A n \in 1 .. Len(s) : f[n] = f[n - 1] + s[n]
    BY <1>2 DEF Sums
<1>4. \A n \in 0 .. Len(s) : f[n] = IF n = 0 THEN 0 ELSE f[n - 1] + s[n]
    BY <1>1, <1>3
<1>5. Eq(f)
    BY <1>3, <1>4
<1>6. PICK sum : sum = CHOOSE g : Eq(g)
    OBVIOUS
<1>7. Eq(sum)
    BY <1>5, <1>6
<1>8. \A n \in 0 .. Len(s) : sum[n] = IF n = 0 THEN 0 ELSE sum[n - 1] + s[n]
    BY <1>7
<1>9. \A n \in 0 .. Len(s) : sum[n] \in Nat
    <2> DEFINE B == {k \in 0 .. Len(s) : sum[k] \notin Nat}
    <2> SUFFICES ASSUME B # {} PROVE FALSE
        OBVIOUS
    <2>1. PICK k \in B : \A n \in B : k <= n
        <3>1. B \in SUBSET Nat
            OBVIOUS
        <3> HIDE DEF B
        <3> QED
            BY <3>1, LeastNat
    <2>2. k # 0
        BY <1>8, <2>1
    <2>3. k - 1 \in 0 .. Len(s) /\ k - 1 \notin B /\ k \in 1 .. Len(s)
        BY <2>1, <2>2
    <2>4. sum[k - 1] \in Nat /\ s[k] \in Nat
        BY <2>3, ElementOfSeq
    <2> QED
        BY <1>8, <2>1, <2>2, <2>4
<1>10. Total(s) = sum[Len(s)]
    BY <1>6 DEF Total
<1> QED
    BY <1>1, <1>9, <1>10

----------------------------------------------------------------------------
(* The data of a user.                                                     *)

UserData ==
    [custom_fps : 0 .. MAX_FPS, auto_adjust_fps : 0 .. MAX_FPS, quality : DOMAIN MinFps,
     samples : Seq(Nat), min_rtt : Nat, smoothed_rtt : Nat, response_delayed : BOOLEAN,
     fps : 0 .. MAX_FPS, quick : 0 .. 2, increase : 0 .. 2]

\* The rates of the code in their order.
LEMMA Rates ==
    /\ MIN_FPS \in Nat /\ INIT_FPS \in Nat /\ FPS \in Nat /\ MAX_FPS \in Nat
    /\ QuickStep \in Nat /\ Late \in Nat /\ HistoryLen \in Nat /\ WindowSamples \in Nat
    /\ 0 < MIN_FPS /\ MIN_FPS < INIT_FPS /\ INIT_FPS <= FPS /\ FPS <= MAX_FPS
    /\ 0 < WindowSamples
    BY QoSAssumption

\* delay_history is a part of the window, and not empty when there are samples.
LEMMA HistoryOfSamples ==
    ASSUME NEW d \in UserData, d.samples # <<>>
    PROVE  History(d) \in Seq(Nat) /\ Len(History(d)) \in Nat \ {0}
<1>1. d.samples \in Seq(Nat) /\ Len(d.samples) \in Nat /\ Len(d.samples) > 0
    BY DEF UserData
<1>2. PICK l \in Nat : l = Len(d.samples) /\ l > 0
    BY <1>1
<1>3. PICK a : a = l - HistoryLen
    OBVIOUS
<1>4. a \in Int /\ a <= l
    BY <1>3, Rates
<1>5. Max({1, a}) = IF 1 >= a THEN 1 ELSE a
    BY <1>4, MaxPair
<1>6. PICK m \in Nat : m = Max({1, a}) /\ 1 <= m /\ m <= l
    BY <1>2, <1>4, <1>5
<1>7. History(d) = SubSeq(d.samples, m, l)
    BY <1>2, <1>3, <1>6 DEF History
<1>8. \A i \in m .. l : d.samples[i] \in Nat
    BY <1>1, <1>2, <1>6, ElementOfSeq
<1>9. m \in Int /\ l \in Int
    BY <1>2, <1>6
<1>10. /\ SubSeq(d.samples, m, l) \in Seq(Nat)
       /\ Len(SubSeq(d.samples, m, l)) = IF m <= l THEN l - m + 1 ELSE 0
    BY <1>8, <1>9, SubSeqProperties
<1>11. l - m + 1 \in Nat \ {0}
    BY <1>2, <1>6
<1> QED
    BY <1>6, <1>7, <1>10, <1>11

\* avg_delay is a number of milliseconds.
LEMMA AvgDelayNat ==
    ASSUME NEW d \in UserData
    PROVE  AvgDelay(d) \in Nat
<1>1. CASE d.samples = <<>>
    BY <1>1 DEF AvgDelay
<1>2. CASE d.samples # <<>>
    <2>1. Total(History(d)) \in Nat /\ Len(History(d)) \in Nat \ {0}
        BY <1>2, HistoryOfSamples, TotalNat
    <2>2. Average(d) \in Nat
        BY <2>1 DEF Average
    <2>3. Rtt(d) \in Nat
        BY DEF Rtt, UserData
    <2>4. Average(d) > Rtt(d) => Average(d) - Rtt(d) \in Nat
        BY <2>2, <2>3
    <2> QED
        BY <1>2, <2>2, <2>4 DEF AvgDelay
<1> QED
    BY <1>1, <1>2

\* add_delay and RttCalculator::update keep the data in its types and the window in
\* its size; whether the user is delayed, and its rate, are as before.
LEMMA AddDelayKeeps ==
    ASSUME NEW d \in UserData, Len(d.samples) <= WindowSamples, NEW delay \in Nat
    PROVE  /\ AddDelay(d, delay) \in UserData
           /\ Len(AddDelay(d, delay).samples) <= WindowSamples
           /\ AddDelay(d, delay).response_delayed = d.response_delayed
<1> DEFINE t == IF Len(d.samples) >= WindowSamples THEN Tail(d.samples) ELSE d.samples
<1>1. d.samples \in Seq(Nat) /\ Len(d.samples) \in Nat
    BY DEF UserData
<1>2. t \in Seq(Nat) /\ Len(t) \in Nat /\ Len(t) < WindowSamples
    <2>1. CASE Len(d.samples) >= WindowSamples
        <3>1. d.samples # <<>>
            BY <2>1, Rates, <1>1
        <3>2. Tail(d.samples) \in Seq(Nat) /\ Len(Tail(d.samples)) = Len(d.samples) - 1
            BY <1>1, <3>1
        <3> QED
            BY <1>1, <2>1, <3>2, Rates
    <2>2. CASE ~(Len(d.samples) >= WindowSamples)
        BY <1>1, <2>2, Rates
    <2> QED
        BY <2>1, <2>2
<1>3. PICK s : s = Append(t, delay)
    OBVIOUS
<1>4. s \in Seq(Nat) /\ Len(s) = Len(t) + 1 /\ s[Len(s)] = delay
    BY <1>2, <1>3
<1>5. PICK m : m = IF d.min_rtt = 0 THEN delay ELSE Min({d.min_rtt, delay})
    OBVIOUS
<1>6. m \in Nat
    <2>1. d.min_rtt \in Nat
        BY DEF UserData
    <2>2. Min({d.min_rtt, delay}) \in Nat
        BY <2>1, MinPair
    <2> QED
        BY <1>5, <2>2
<1>7. PICK r : r = IF Len(s) >= WindowSamples THEN (m + Min(ToSet(s))) \div 2 ELSE d.smoothed_rtt
    OBVIOUS
<1>8. r \in Nat
    <2>1. ToSet(s) \in SUBSET Nat /\ ToSet(s) # {}
        <3>1. \A i \in DOMAIN s : s[i] \in Nat
            BY <1>4, ElementOfSeq
        <3>2. Len(s) \in DOMAIN s
            BY <1>2, <1>4
        <3> QED
            BY <3>1, <3>2 DEF ToSet
    <2>2. Min(ToSet(s)) \in Nat
        BY <2>1, MinNat
    <2>3. (m + Min(ToSet(s))) \div 2 \in Nat
        BY <1>6, <2>2
    <2>4. d.smoothed_rtt \in Nat
        BY DEF UserData
    <2> QED
        BY <1>7, <2>3, <2>4
<1>9. AddDelay(d, delay) = [d EXCEPT !.samples = s, !.min_rtt = m, !.smoothed_rtt = r]
    BY <1>3, <1>5, <1>7 DEF AddDelay
<1>10. Len(s) <= WindowSamples
    BY <1>2, <1>4, Rates
<1> HIDE DEF t
<1> QED
    BY <1>4, <1>6, <1>8, <1>9, <1>10 DEF UserData

----------------------------------------------------------------------------
(* The adjustment.                                                         *)

\* The highest rate the users allow is a rate.
LEMMA HighestFpsBetween ==
    ASSUME NEW U \in SUBSET Users, NEW D \in [Users -> UserData]
    PROVE  HighestFps(U, D) \in MIN_FPS .. MAX_FPS
<1>1. PICK S : S = {UserFps(D[u]) : u \in U} \cup (IF U = {} THEN {FPS} ELSE {})
    OBVIOUS
<1>2. S \in SUBSET Nat /\ S # {}
    <2>1. ASSUME NEW u \in U PROVE UserFps(D[u]) \in Nat
        <3>1. D[u].custom_fps \in Nat /\ D[u].auto_adjust_fps \in Nat
            BY DEF UserData
        <3> QED
            BY <3>1, Rates DEF UserFps
    <2> QED
        BY <1>1, <2>1, Rates
<1>3. PICK n \in Nat : n = Min(S)
    BY <1>2, MinNat
<1>4. Clamp(n, MIN_FPS, MAX_FPS) \in MIN_FPS .. MAX_FPS
    <2>1. MIN_FPS <= MAX_FPS
        BY Rates
    <2> QED
        BY <2>1, Rates, ClampBetween
<1> QED
    BY <1>1, <1>3, <1>4 DEF HighestFps

\* adjust_fps: a rate, and at most MIN_FPS + 1 while a user is delayed, whatever the
\* rates of the others.
LEMMA AdjustFpsBetween ==
    ASSUME NEW U \in SUBSET Users, NEW D \in [Users -> UserData]
    PROVE  /\ AdjustFps(U, D) \in MIN_FPS .. MAX_FPS
           /\ (\E u \in U : D[u].response_delayed) => AdjustFps(U, D) <= MIN_FPS + 1
<1>1. PICK S : S = {IF D[u].fps = 0 THEN INIT_FPS ELSE D[u].fps : u \in U} \cup
                   (IF U = {} THEN {INIT_FPS} ELSE {})
    OBVIOUS
<1>2. S \in SUBSET Nat /\ S # {}
    <2>1. ASSUME NEW u \in U PROVE (IF D[u].fps = 0 THEN INIT_FPS ELSE D[u].fps) \in Nat
        <3>1. D[u].fps \in Nat
            BY DEF UserData
        <3> QED
            BY <3>1, Rates
    <2> QED
        BY <1>1, <2>1, Rates
<1>3. PICK slowest \in Nat : slowest = Min(S)
    BY <1>2, MinNat
<1>4. PICK waiting : waiting = IF \E u \in U : D[u].response_delayed
                               THEN Min({slowest, MIN_FPS + 1}) ELSE slowest
    OBVIOUS
<1>5. /\ waiting \in Nat
      /\ (\E u \in U : D[u].response_delayed) => waiting <= MIN_FPS + 1
    <2>1. Min({slowest, MIN_FPS + 1}) = IF slowest <= MIN_FPS + 1 THEN slowest ELSE MIN_FPS + 1
        BY Rates, MinPair
    <2> QED
        BY <1>4, <2>1, Rates
<1>6. PICK started : started = IF fresh THEN Min({waiting, INIT_FPS}) ELSE waiting
    OBVIOUS
<1>7. started \in Nat /\ started <= waiting
    <2>1. Min({waiting, INIT_FPS}) = IF waiting <= INIT_FPS THEN waiting ELSE INIT_FPS
        BY <1>5, Rates, MinPair
    <2> QED
        BY <1>5, <1>6, <2>1, Rates
<1>8. PICK h \in MIN_FPS .. MAX_FPS : h = HighestFps(U, D)
    BY HighestFpsBetween
<1>9. AdjustFps(U, D) = Clamp(started, MIN_FPS, h)
    BY <1>1, <1>3, <1>4, <1>6, <1>8 DEF AdjustFps
<1>10. h \in Nat /\ MIN_FPS <= h /\ h <= MAX_FPS
    BY <1>8, Rates
<1>11. /\ Clamp(started, MIN_FPS, h) \in MIN_FPS .. h
       /\ \A b \in Nat : started <= b /\ MIN_FPS <= b => Clamp(started, MIN_FPS, h) <= b
    BY <1>7, <1>10, Rates, ClampBetween
<1>12. AdjustFps(U, D) \in MIN_FPS .. MAX_FPS
    BY <1>9, <1>10, <1>11, Rates
<1>13. ASSUME \E u \in U : D[u].response_delayed PROVE AdjustFps(U, D) <= MIN_FPS + 1
    <2>1. started <= MIN_FPS + 1 /\ MIN_FPS <= MIN_FPS + 1 /\ MIN_FPS + 1 \in Nat
        BY <1>5, <1>7, <1>13, Rates
    <2> QED
        BY <1>9, <1>11, <2>1
<1> QED
    BY <1>12, <1>13

\* The rate user_network_delay derives is a number: its divisions are by an average of
\* 10 ms or more, which the code makes sure of before it divides.
LEMMA DelayFpsNat ==
    ASSUME NEW f \in Nat, NEW avg \in Nat, 10 <= avg, NEW old \in Nat, NEW quick \in Nat,
           NEW min \in Nat, NEW normal \in Nat
    PROVE  DelayFps(f, avg, old, quick, min, normal) \in Nat
<1>1. PICK up \in Nat : up = IF f < normal THEN 1 ELSE 0
    OBVIOUS
<1>2. PICK divided \in Nat : divided = (f * 150 + avg - 1) \div avg
    <2>1. PICK c \in Nat : c = f * 150
        OBVIOUS
    <2>2. PICK e \in Nat : e = c + avg - 1
        OBVIOUS
    <2>3. e \div avg \in Nat
        OBVIOUS
    <2> QED
        BY <2>1, <2>2, <2>3
<1>3. PICK product \in Nat : product = (150 * min) \div avg
    <2>1. PICK c \in Nat : c = 150 * min
        OBVIOUS
    <2>2. c \div avg \in Nat
        OBVIOUS
    <2> QED
        BY <2>1, <2>2
<1>4. ASSUME NEW a \in Nat, NEW b \in Nat PROVE Max({a, b}) \in Nat /\ Min({a, b}) \in Nat
    BY MaxPair, MinPair
<1>5. f + (IF quick >= 3 THEN QuickStep ELSE up) \in Nat /\ f + (IF avg < old THEN up ELSE 0) \in Nat
    BY Rates
<1>6. DelayFps(f, avg, old, quick, min, normal) =
        CASE avg < 50                  -> Max({min, f + (IF quick >= 3 THEN QuickStep ELSE up)})
          [] avg >= 50  /\ avg < 100   -> Max({min, f + (IF avg < old THEN up ELSE 0)})
          [] avg >= 100 /\ avg < 150   -> Max({min, f})
          [] avg >= 150 /\ avg < 200   -> Max({min, divided})
          [] avg >= 200 /\ avg < 300   -> Min({min, divided})
          [] avg >= 300 /\ avg < 600   -> product
          [] avg >= 600                -> Min({product, divided})
    BY <1>1, <1>2, <1>3 DEF DelayFps
<1>7. /\ Max({min, f + (IF quick >= 3 THEN QuickStep ELSE up)}) \in Nat
      /\ Max({min, f + (IF avg < old THEN up ELSE 0)}) \in Nat
      /\ Max({min, f}) \in Nat /\ Max({min, divided}) \in Nat
      /\ Min({min, divided}) \in Nat /\ Min({product, divided}) \in Nat
    BY <1>4, <1>5
<1> QED
    BY <1>6, <1>7

----------------------------------------------------------------------------
(* The invariant.                                                          *)

\* The data of every user in its types and its window within its size; each user at
\* most once in asked.
DataKept == data \in [Users -> UserData] /\ \A u \in Users : Len(data[u].samples) <= WindowSamples
AskedKept == asked \in Seq(Users) /\ \A i, j \in DOMAIN asked : asked[i] = asked[j] => i = j

\* The rest of TypeOK, and the rate.
SetsKept ==
    /\ users \subseteq Users /\ ToSet(asked) \subseteq users /\ due \subseteq users
    /\ fresh \in BOOLEAN /\ events \in 0 .. MaxEvents
RateKept == fps \in MIN_FPS .. MAX_FPS /\ LateHoldsRate

QInv == DataKept /\ AskedKept /\ SetsKept /\ RateKept

\* The types follow from the invariant.
LEMMA QInvTyped == QInv => TypeOK
<1> SUFFICES ASSUME QInv PROVE TypeOK
    OBVIOUS
<1>1. ASSUME NEW u \in Users
      PROVE  /\ data[u].fps \in 0 .. MAX_FPS /\ data[u].quick \in 0 .. 2
             /\ data[u].increase \in 0 .. 2
             /\ data[u].custom_fps \in 0 .. MAX_FPS /\ data[u].auto_adjust_fps \in 0 .. MAX_FPS
             /\ Len(data[u].samples) <= WindowSamples
             /\ data[u].quality \in DOMAIN MinFps
    <2>1. data[u] \in UserData /\ Len(data[u].samples) <= WindowSamples
        BY DEF QInv, DataKept
    <2> QED
        BY <2>1 DEF UserData
<1> QED
    BY <1>1 DEF TypeOK, QInv, SetsKept, RateKept

\* A new user's data.
LEMMA NewUserTyped == NewUser \in UserData /\ Len(NewUser.samples) <= WindowSamples
    BY Rates, QoSAssumption DEF NewUser, UserData

\* The quality a rate is derived for is one the code knows.
LEMMA LatestQualityKnown ==
    ASSUME DataKept, AskedKept
    PROVE  LatestQuality \in DOMAIN MinFps
<1>1. CASE asked = <<>>
    BY <1>1, QoSAssumption DEF LatestQuality
<1>2. CASE asked # <<>>
    <2>1. asked \in Seq(Users) /\ Len(asked) \in 1 .. Len(asked)
        BY <1>2 DEF AskedKept
    <2>2. Last(asked) \in Users
        BY <2>1, ElementOfSeq DEF Last
    <2>3. data[Last(asked)] \in UserData
        BY <2>2 DEF DataKept
    <2> QED
        BY <1>2, <2>3 DEF LatestQuality, UserData
<1> QED
    BY <1>1, <1>2

\* user_network_delay: the new rate of a user is within the bounds, its counters below
\* three.
LEMMA AnsweredKeeps ==
    ASSUME NEW d \in UserData, NEW old \in Nat, NEW f \in Nat, NEW quality \in DOMAIN MinFps,
           NEW highest \in MIN_FPS .. MAX_FPS
    PROVE  /\ Answered(d, old, f, quality, highest) \in UserData
           /\ Answered(d, old, f, quality, highest).samples = d.samples
           /\ Answered(d, old, f, quality, highest).response_delayed = d.response_delayed
<1>1. PICK avg \in Nat : avg = Max({AvgDelay(d), 10}) /\ 10 <= avg
    BY AvgDelayNat, MaxPair
<1>2. d.quick \in 0 .. 2 /\ d.increase \in 0 .. 2
    BY DEF UserData
<1>3. PICK quick \in Nat : quick = IF avg < 50 THEN d.quick + 1 ELSE d.quick
    BY <1>2
<1>4. PICK inc \in Nat : inc = IF avg < 150 THEN d.increase + 1 ELSE 0
    BY <1>2
<1>5. PICK rate \in Nat : rate = DelayFps(f, avg, old, quick, MinFps[quality], NormalFps[quality])
                                    + (IF inc >= 3 THEN 1 ELSE 0)
    <2>1. MinFps[quality] \in Nat /\ NormalFps[quality] \in Nat
        BY QoSAssumption
    <2>2. DelayFps(f, avg, old, quick, MinFps[quality], NormalFps[quality]) \in Nat
        BY <1>1, <2>1, DelayFpsNat
    <2> QED
        BY <2>2
<1>6. PICK n : n = Clamp(rate, MIN_FPS, highest)
    OBVIOUS
<1>7. n \in 0 .. MAX_FPS
    <2>1. highest \in Nat /\ MIN_FPS <= highest /\ highest <= MAX_FPS
        BY Rates
    <2>2. n \in MIN_FPS .. highest
        BY <1>6, <2>1, Rates, ClampBetween
    <2> QED
        BY <2>1, <2>2, Rates
<1>8. PICK q : q = IF avg > 50 \/ (avg < 50 /\ quick >= 3) THEN 0 ELSE quick
    OBVIOUS
<1>9. q \in 0 .. 2
    BY <1>2, <1>3, <1>8
<1>10. PICK i : i = IF inc >= 3 THEN 0 ELSE inc
    OBVIOUS
<1>11. i \in 0 .. 2
    BY <1>4, <1>10
<1>12. Answered(d, old, f, quality, highest) = [d EXCEPT !.fps = n, !.quick = q, !.increase = i]
    BY <1>1, <1>3, <1>4, <1>5, <1>6, <1>8, <1>10 DEF Answered
<1> QED
    BY <1>7, <1>9, <1>11, <1>12 DEF UserData

\* Without u, asked still names each user at most once, and u no more.
LEMMA ForgetKeeps ==
    ASSUME AskedKept, NEW u
    PROVE  /\ Forget(u) \in Seq(Users)
           /\ \A i, j \in DOMAIN Forget(u) : Forget(u)[i] = Forget(u)[j] => i = j
           /\ ToSet(Forget(u)) \subseteq ToSet(asked) \ {u}
<1>1. /\ asked \in Seq(Users) /\ Len(asked) \in Nat /\ DOMAIN asked = 1 .. Len(asked)
      /\ \A i, j \in DOMAIN asked : asked[i] = asked[j] => i = j
    BY DEF AskedKept
<1>2. CASE ~ \E i \in DOMAIN asked : asked[i] = u
    BY <1>1, <1>2 DEF Forget, ToSet
<1>3. CASE \E i \in DOMAIN asked : asked[i] = u
    <2>1. PICK k \in 1 .. Len(asked) : asked[k] = u /\ Forget(u) = RemoveAt(asked, k)
        BY <1>1, <1>3 DEF Forget
    <2>2. PICK n \in Nat : n = Len(asked) /\ k <= n /\ 1 <= k
        <3>1. Len(asked) \in Nat
            BY <1>1
        <3> QED
            BY <3>1
    <2>3. PICK a : a = SubSeq(asked, 1, k - 1)
        OBVIOUS
    <2>4. PICK b : b = SubSeq(asked, k + 1, n)
        OBVIOUS
    <2>5. /\ a \in Seq(Users) /\ Len(a) = k - 1
          /\ \A i \in 1 .. (k - 1) : a[i] = asked[i]
        <3>1. \A i \in 1 .. (k - 1) : asked[i] \in Users
            BY <1>1, <2>2, ElementOfSeq
        <3>2. 1 \in Int /\ k - 1 \in Int
            BY <2>2
        <3>3. /\ SubSeq(asked, 1, k - 1) \in Seq(Users)
              /\ Len(SubSeq(asked, 1, k - 1)) = IF 1 <= k - 1 THEN k - 1 - 1 + 1 ELSE 0
              /\ \A i \in 1 .. (k - 1 - 1 + 1) : SubSeq(asked, 1, k - 1)[i] = asked[1 + i - 1]
            BY <3>1, <3>2, SubSeqProperties
        <3> QED
            BY <2>2, <2>3, <3>3
    <2>6. /\ b \in Seq(Users) /\ Len(b) = n - k
          /\ \A i \in 1 .. (n - k) : b[i] = asked[k + i]
        <3>1. \A i \in (k + 1) .. n : asked[i] \in Users
            BY <1>1, <2>2, ElementOfSeq
        <3>2. k + 1 \in Int /\ n \in Int
            BY <2>2
        <3>3. /\ SubSeq(asked, k + 1, n) \in Seq(Users)
              /\ Len(SubSeq(asked, k + 1, n)) = IF k + 1 <= n THEN n - (k + 1) + 1 ELSE 0
              /\ \A i \in 1 .. (n - (k + 1) + 1) :
                    SubSeq(asked, k + 1, n)[i] = asked[(k + 1) + i - 1]
            BY <3>1, <3>2, SubSeqProperties
        <3> QED
            BY <2>2, <2>4, <3>3
    <2>7. Forget(u) = a \o b
        BY <2>1, <2>2, <2>3, <2>4 DEF RemoveAt
    <2>8. a \o b \in Seq(Users) /\ Len(a \o b) = n - 1 /\ DOMAIN (a \o b) = 1 .. (n - 1)
        <3>1. a \in Seq(Users) /\ b \in Seq(Users) /\ Len(a) + Len(b) = n - 1
            BY <2>2, <2>5, <2>6
        <3>2. a \o b \in Seq(Users) /\ Len(a \o b) = Len(a) + Len(b)
            BY <3>1
        <3> QED
            BY <3>1, <3>2
    <2>9. \A i \in 1 .. (n - 1) : (a \o b)[i] = IF i < k THEN asked[i] ELSE asked[i + 1]
        <3> SUFFICES ASSUME NEW i \in 1 .. (n - 1)
                     PROVE  (a \o b)[i] = IF i < k THEN asked[i] ELSE asked[i + 1]
            OBVIOUS
        <3>1. CASE i < k
            <4>1. i \in 1 .. (k - 1) /\ i <= Len(a)
                BY <2>2, <2>5, <3>1
            <4>2. (a \o b)[i] = a[i]
                BY <2>5, <2>6, <4>1
            <4> QED
                BY <2>5, <3>1, <4>1, <4>2
        <3>2. CASE ~(i < k)
            <4>1. i - (k - 1) \in 1 .. (n - k) /\ i > Len(a) /\ k + (i - (k - 1)) = i + 1
                BY <2>2, <2>5, <3>2
            <4>2. (a \o b)[i] = b[i - (k - 1)]
                BY <2>2, <2>5, <2>6, <2>8, <4>1
            <4> QED
                BY <2>6, <3>2, <4>1, <4>2
        <3> QED
            BY <3>1, <3>2
    <2>10. PICK at : at = [i \in 1 .. (n - 1) |-> IF i < k THEN i ELSE i + 1]
        OBVIOUS
    <2>11. ASSUME NEW i \in 1 .. (n - 1)
           PROVE  at[i] \in 1 .. n /\ at[i] # k /\ Forget(u)[i] = asked[at[i]]
        <3>1. at[i] = IF i < k THEN i ELSE i + 1
            BY <2>10
        <3>2. Forget(u)[i] = asked[at[i]]
            BY <2>7, <2>9, <3>1
        <3> QED
            BY <2>2, <3>1, <3>2
    <2>12. \A i, j \in 1 .. (n - 1) : at[i] = at[j] => i = j
        BY <2>2, <2>10
    <2>13. DOMAIN Forget(u) = 1 .. (n - 1)
        BY <2>7, <2>8
    <2>14. ASSUME NEW i \in DOMAIN Forget(u), NEW j \in DOMAIN Forget(u),
                  Forget(u)[i] = Forget(u)[j]
           PROVE  i = j
        <3>1. asked[at[i]] = asked[at[j]] /\ at[i] \in DOMAIN asked /\ at[j] \in DOMAIN asked
            BY <1>1, <2>2, <2>11, <2>13, <2>14
        <3> QED
            BY <1>1, <2>12, <2>13, <3>1
    <2>15. ASSUME NEW i \in DOMAIN Forget(u)
           PROVE  Forget(u)[i] \in ToSet(asked) \ {u}
        <3>1. at[i] \in DOMAIN asked /\ at[i] # k /\ k \in DOMAIN asked
            BY <1>1, <2>2, <2>11, <2>13
        <3>2. asked[at[i]] # u
            BY <1>1, <2>1, <3>1
        <3> QED
            BY <2>11, <2>13, <3>1, <3>2 DEF ToSet
    <2>16. ToSet(Forget(u)) \subseteq ToSet(asked) \ {u}
        BY <2>15 DEF ToSet
    <2> QED
        BY <2>7, <2>8, <2>14, <2>16
<1> QED
    BY <1>2, <1>3

----------------------------------------------------------------------------
(* The steps.                                                              *)

\* Writing typed data for one user.
LEMMA WriteKeeps ==
    ASSUME DataKept, NEW u \in Users, NEW r \in UserData, Len(r.samples) <= WindowSamples,
           data' = [data EXCEPT ![u] = r]
    PROVE  /\ DataKept' /\ data'[u] = r
           /\ \A v \in Users : v # u => data'[v] = data[v]
    BY DEF DataKept

\* A rate from adjust_fps keeps what is said of the rate, whatever the step did before.
LEMMA AdjustedRate ==
    ASSUME DataKept', users \subseteq Users, users' = users, fps' = AdjustFps(users, data')
    PROVE  RateKept'
<1>1. PICK D \in [Users -> UserData] : D = data'
    BY DEF DataKept
<1>2. /\ AdjustFps(users, D) \in MIN_FPS .. MAX_FPS
      /\ (\E v \in users : D[v].response_delayed) => AdjustFps(users, D) <= MIN_FPS + 1
    BY <1>1, AdjustFpsBetween
<1> QED
    BY <1>1, <1>2 DEF RateKept, LateHoldsRate

\* A rate that stays, with no user newly delayed, too.
LEMMA SameRate ==
    ASSUME RateKept, fps' = fps,
           \A v \in users' : data'[v].response_delayed =>
                v \in users /\ data[v].response_delayed
    PROVE  RateKept'
    BY DEF RateKept, LateHoldsRate

\* With no user there is nothing to keep.
LEMMA InitQ == Init => QInv
<1> SUFFICES ASSUME Init PROVE QInv
    OBVIOUS
<1>1. DataKept
    BY NewUserTyped DEF Init, DataKept
<1>2. AskedKept
    BY DEF Init, AskedKept
<1>3. SetsKept
    <2>1. 0 \in 0 .. MaxEvents
        BY QoSAssumption
    <2>2. ToSet(asked) = {}
        BY DEF Init, ToSet
    <2> QED
        BY <2>1, <2>2 DEF Init, SetsKept
<1>4. RateKept
    BY Rates DEF Init, RateKept, LateHoldsRate
<1> QED
    BY <1>1, <1>2, <1>3, <1>4 DEF QInv

\* The bound of the events.
LEMMA EventKeeps ==
    ASSUME events \in 0 .. MaxEvents, events < MaxEvents, events' = events + 1
    PROVE  events' \in 0 .. MaxEvents
    BY QoSAssumption

\* on_connection_open: a new user waits for nothing and has no samples.
LEMMA OpenKeeps ==
    ASSUME QInv, NEW u \in Users, Open(u)
    PROVE  QInv'
<1>1. DataKept' /\ data'[u] = NewUser /\ \A v \in Users : v # u => data'[v] = data[v]
    BY NewUserTyped, WriteKeeps DEF QInv, Open
<1>2. AskedKept'
    BY DEF QInv, Open, AskedKept
<1>3. SetsKept'
    BY EventKeeps DEF QInv, Open, SetsKept
<1>4. RateKept'
    <2>1. ~ data'[u].response_delayed
        BY <1>1 DEF NewUser
    <2> QED
        BY <1>1, <2>1, SameRate DEF QInv, Open, SetsKept
<1> QED
    BY <1>1, <1>2, <1>3, <1>4 DEF QInv

\* on_connection_close: the rate stays, or starts over when nobody is left.
LEMMA CloseKeeps ==
    ASSUME QInv, NEW u \in Users, Close(u)
    PROVE  QInv'
<1>1. DataKept' /\ data'[u] = NewUser /\ \A v \in Users : v # u => data'[v] = data[v]
    BY NewUserTyped, WriteKeeps DEF QInv, Close
<1>2. /\ Forget(u) \in Seq(Users) /\ asked' = Forget(u)
      /\ \A i, j \in DOMAIN Forget(u) : Forget(u)[i] = Forget(u)[j] => i = j
      /\ ToSet(Forget(u)) \subseteq ToSet(asked) \ {u}
    BY ForgetKeeps DEF QInv, Close
<1>3. AskedKept'
    BY <1>2 DEF AskedKept
<1>4. SetsKept'
    BY <1>2 DEF QInv, Close, SetsKept
<1>5. CASE users' = {}
    <2>1. RateKept'
        <3>1. fps' = FPS /\ FPS \in MIN_FPS .. MAX_FPS
            BY <1>5, Rates DEF Close
        <3>2. LateHoldsRate'
            BY <1>5 DEF LateHoldsRate
        <3> QED
            BY <3>1, <3>2 DEF RateKept
    <2> QED
        BY <1>1, <1>3, <1>4, <2>1 DEF QInv
<1>6. CASE users' # {}
    <2>1. RateKept'
        BY <1>1, <1>6, SameRate DEF QInv, Close, SetsKept
    <2> QED
        BY <1>1, <1>3, <1>4, <2>1 DEF QInv
<1> QED
    BY <1>5, <1>6

\* user_custom_fps and user_auto_adjust_fps: the rate stays until it is next adjusted.
LEMMA SetFpsKeeps ==
    ASSUME QInv, NEW u \in Users, NEW field, NEW n, SetFps(u, field, n)
    PROVE  QInv'
<1>1. data[u] \in UserData /\ Len(data[u].samples) <= WindowSamples
    BY DEF QInv, DataKept
<1>2. PICK r : r = IF field = "custom" THEN [data[u] EXCEPT !.custom_fps = n]
                   ELSE [data[u] EXCEPT !.auto_adjust_fps = n]
    OBVIOUS
<1>3. n \in 0 .. MAX_FPS
    BY Rates DEF SetFps
<1>4. /\ r \in UserData /\ r.samples = data[u].samples
      /\ r.response_delayed = data[u].response_delayed
    BY <1>1, <1>2, <1>3 DEF UserData
<1>5. data' = [data EXCEPT ![u] = r]
    BY <1>2 DEF SetFps
<1>6. DataKept' /\ data'[u] = r /\ \A v \in Users : v # u => data'[v] = data[v]
    BY <1>1, <1>4, <1>5, WriteKeeps DEF QInv
<1>7. AskedKept'
    BY DEF QInv, SetFps, AskedKept
<1>8. SetsKept'
    BY EventKeeps DEF QInv, SetFps, SetsKept
<1>9. RateKept'
    BY <1>4, <1>6, SameRate DEF QInv, SetFps, SetsKept
<1> QED
    BY <1>6, <1>7, <1>8, <1>9 DEF QInv

\* user_image_quality: the user moves to the end of those who asked.
LEMMA SetQualityKeeps ==
    ASSUME QInv, NEW u \in Users, NEW q \in Qualities, SetQuality(u, q)
    PROVE  QInv'
<1>1. data[u] \in UserData /\ Len(data[u].samples) <= WindowSamples
    BY DEF QInv, DataKept
<1>2. PICK r : r = [data[u] EXCEPT !.quality = q]
    OBVIOUS
<1>3. q \in DOMAIN MinFps
    BY QoSAssumption
<1>4. /\ r \in UserData /\ r.samples = data[u].samples
      /\ r.response_delayed = data[u].response_delayed
    BY <1>1, <1>2, <1>3 DEF UserData
<1>5. data' = [data EXCEPT ![u] = r]
    BY <1>2 DEF SetQuality
<1>6. DataKept' /\ data'[u] = r /\ \A v \in Users : v # u => data'[v] = data[v]
    BY <1>1, <1>4, <1>5, WriteKeeps DEF QInv
<1>7. PICK s \in Seq(Users) : s = Forget(u) /\ ToSet(s) \subseteq ToSet(asked) \ {u}
                               /\ \A i, j \in DOMAIN s : s[i] = s[j] => i = j
    BY ForgetKeeps DEF QInv
<1>8. /\ asked' = Append(s, u) /\ asked' \in Seq(Users) /\ DOMAIN asked' = 1 .. (Len(s) + 1)
      /\ asked'[Len(s) + 1] = u /\ Len(s) \in Nat /\ DOMAIN s = 1 .. Len(s)
      /\ \A i \in 1 .. Len(s) : asked'[i] = s[i]
    BY <1>7 DEF SetQuality
<1>9. \A i \in DOMAIN s : s[i] \in ToSet(asked) /\ s[i] # u
    BY <1>7 DEF ToSet
<1>10. AskedKept'
    <2> SUFFICES ASSUME NEW i \in 1 .. (Len(s) + 1), NEW j \in 1 .. (Len(s) + 1),
                        asked'[i] = asked'[j]
                 PROVE  i = j
        BY <1>8 DEF AskedKept
    <2> QED
        BY <1>7, <1>8, <1>9
<1>11. ToSet(asked') \subseteq ToSet(asked) \cup {u}
    BY <1>8, <1>9 DEF ToSet
<1>12. SetsKept'
    BY <1>11, EventKeeps DEF QInv, SetQuality, SetsKept
<1>13. RateKept'
    BY <1>4, <1>6, SameRate DEF QInv, SetQuality, SetsKept
<1> QED
    BY <1>6, <1>10, <1>12, <1>13 DEF QInv

\* TestDelay is sent: its user is not late any more, and the rate stays.
LEMMA AskKeeps ==
    ASSUME QInv, NEW u \in Users, Ask(u)
    PROVE  QInv'
<1>1. data[u] \in UserData /\ Len(data[u].samples) <= WindowSamples
    BY DEF QInv, DataKept
<1>2. PICK r : r = [data[u] EXCEPT !.response_delayed = FALSE]
    OBVIOUS
<1>3. r \in UserData /\ r.samples = data[u].samples /\ ~ r.response_delayed
    BY <1>1, <1>2 DEF UserData
<1>4. data' = [data EXCEPT ![u] = r]
    BY <1>2 DEF Ask
<1>5. DataKept' /\ data'[u] = r /\ \A v \in Users : v # u => data'[v] = data[v]
    BY <1>1, <1>3, <1>4, WriteKeeps DEF QInv
<1>6. AskedKept'
    BY DEF QInv, Ask, AskedKept
<1>7. SetsKept'
    BY DEF QInv, Ask, SetsKept
<1>8. RateKept'
    BY <1>3, <1>5, SameRate DEF QInv, Ask, SetsKept
<1> QED
    BY <1>5, <1>6, <1>7, <1>8 DEF QInv

\* user_delay_response_elapsed: a late answer lowers the rate at once.
LEMMA StillWaitingKeeps ==
    ASSUME QInv, NEW u \in Users, StillWaiting(u)
    PROVE  QInv'
<1>1. data[u] \in UserData /\ Len(data[u].samples) <= WindowSamples
    BY DEF QInv, DataKept
<1>2. PICK d \in UserData : d = AddDelay(data[u], Late) /\ Len(d.samples) <= WindowSamples
    BY <1>1, Rates, AddDelayKeeps
<1>3. PICK r : r = [d EXCEPT !.response_delayed = TRUE]
    OBVIOUS
<1>4. r \in UserData /\ Len(r.samples) <= WindowSamples
    BY <1>2, <1>3 DEF UserData
<1>5. data' = [data EXCEPT ![u] = r]
    BY <1>2, <1>3 DEF StillWaiting
<1>6. DataKept'
    BY <1>4, <1>5, WriteKeeps DEF QInv
<1>7. AskedKept'
    BY DEF QInv, StillWaiting, AskedKept
<1>8. SetsKept'
    BY EventKeeps DEF QInv, StillWaiting, SetsKept
<1>9. RateKept'
    BY <1>6, AdjustedRate DEF QInv, StillWaiting, SetsKept
<1> QED
    BY <1>6, <1>7, <1>8, <1>9 DEF QInv

\* user_network_delay: an answer clears the delay of its user only, and the rate is
\* computed over all of them.
LEMMA NetworkDelayKeeps ==
    ASSUME QInv, NEW u \in Users, NEW delay \in Delays, NetworkDelay(u, delay)
    PROVE  QInv'
<1>1. data[u] \in UserData /\ Len(data[u].samples) <= WindowSamples /\ fps \in Nat
    BY Rates DEF QInv, DataKept, RateKept
<1>2. Max({delay, 10}) \in Nat
    <2>1. delay \in Nat
        BY QoSAssumption
    <2> QED
        BY <2>1, MaxPair
<1>3. PICK d \in UserData : d = AddDelay(data[u], Max({delay, 10})) /\ Len(d.samples) <= WindowSamples
    BY <1>1, <1>2, AddDelayKeeps
<1>4. PICK highest \in MIN_FPS .. MAX_FPS : highest = HighestFps(users, data)
    BY HighestFpsBetween DEF QInv, DataKept, SetsKept
<1>5. PICK quality \in DOMAIN MinFps : quality = LatestQuality
    BY LatestQualityKnown DEF QInv
<1>6. PICK old \in Nat : old = AvgDelay(data[u])
    BY <1>1, AvgDelayNat
<1>7. PICK r : r = Answered(d, old, fps, quality, highest)
    OBVIOUS
<1>8. r \in UserData /\ r.samples = d.samples
    BY <1>1, <1>7, AnsweredKeeps
<1>9. data' = [data EXCEPT ![u] = r]
    BY <1>3, <1>4, <1>5, <1>6, <1>7 DEF NetworkDelay
<1>10. DataKept'
    BY <1>3, <1>8, <1>9, WriteKeeps DEF QInv
<1>11. AskedKept'
    BY DEF QInv, NetworkDelay, AskedKept
<1>12. SetsKept'
    BY DEF QInv, NetworkDelay, SetsKept
<1>13. RateKept'
    BY <1>10, AdjustedRate DEF QInv, NetworkDelay, SetsKept
<1> QED
    BY <1>10, <1>11, <1>12, <1>13 DEF QInv

\* update_display_data: the rate is computed anew.
LEMMA UpdateDisplayDataKeeps ==
    ASSUME QInv, UpdateDisplayData
    PROVE  QInv'
<1>1. DataKept' /\ AskedKept' /\ SetsKept'
    BY DEF QInv, UpdateDisplayData, DataKept, AskedKept, SetsKept
<1>2. RateKept'
    BY <1>1, AdjustedRate DEF QInv, UpdateDisplayData, SetsKept
<1> QED
    BY <1>1, <1>2 DEF QInv

\* A second passes: the newest user is not new any more.
LEMMA SecondKeeps ==
    ASSUME QInv, Second
    PROVE  QInv'
    BY DEF QInv, Second, DataKept, AskedKept, SetsKept, RateKept, LateHoldsRate

\* Every method keeps the invariant.
LEMMA NextKeepsQ == QInv /\ [Next]_vars => QInv'
<1> SUFFICES ASSUME QInv, [Next]_vars PROVE QInv'
    OBVIOUS
<1>1. CASE UNCHANGED vars
    BY <1>1 DEF QInv, vars, DataKept, AskedKept, SetsKept, RateKept, LateHoldsRate
<1>2. ASSUME NEW u \in Users, Open(u) PROVE QInv'
    BY <1>2, OpenKeeps
<1>3. ASSUME NEW u \in Users, Close(u) PROVE QInv'
    BY <1>3, CloseKeeps
<1>4. ASSUME NEW u \in Users, Ask(u) PROVE QInv'
    BY <1>4, AskKeeps
<1>5. ASSUME NEW u \in Users, StillWaiting(u) PROVE QInv'
    BY <1>5, StillWaitingKeeps
<1>6. ASSUME NEW u \in Users, NEW q \in Qualities, SetQuality(u, q) PROVE QInv'
    BY <1>6, SetQualityKeeps
<1>7. ASSUME NEW u \in Users, NEW f \in {"custom", "auto"}, NEW n \in {MIN_FPS, INIT_FPS, MAX_FPS},
             SetFps(u, f, n)
      PROVE  QInv'
    BY <1>7, SetFpsKeeps
<1>8. ASSUME NEW u \in Users, NEW d \in Delays, NetworkDelay(u, d) PROVE QInv'
    BY <1>8, NetworkDelayKeeps
<1>9. CASE UpdateDisplayData
    BY <1>9, UpdateDisplayDataKeeps
<1>10. CASE Second
    BY <1>10, SecondKeeps
<1> QED
    BY <1>1, <1>2, <1>3, <1>4, <1>5, <1>6, <1>7, <1>8, <1>9, <1>10 DEF Next

\* The invariant holds in every state.
LEMMA QInvHolds == Spec => []QInv
    BY InitQ, NextKeepsQ, PTL DEF Spec

\* The rate is within MIN_FPS and MAX_FPS, the counters, windows and settings of every
\* user within their bounds, and only users that watch are asked or have asked: for any
\* number of users and any numbers of the code.
THEOREM TypeCorrect == Spec => []TypeOK
    BY QInvHolds, QInvTyped, PTL

\* While the answer of a user is late, the rate all users share is at most MIN_FPS + 1:
\* no sample of another user, no display's adjustment and no setting raises it.
THEOREM LateHoldsRateHolds == Spec => []LateHoldsRate
<1>1. QInv => LateHoldsRate
    BY DEF QInv, RateKept
<1> QED
    BY <1>1, QInvHolds, PTL

=============================================================================
