------------------------- MODULE LeasePollingProofs -------------------------
(***************************************************************************)
(* Theorems about LeasePolling and the ranking it rests on, for any fleet, *)
(* any load and any stages: a stage that some worker could take is         *)
(* admitted to exactly one, and no poll sleeps over a stage whose notice   *)
(* has been sent.                                                          *)
(*                                                                         *)
(* The ranking prefers the greatest of several tuples, and that there is a *)
(* greatest one does not go without saying: it follows from the bounds of  *)
(* their columns and from the well-foundedness of the natural numbers.     *)
(***************************************************************************)
EXTENDS LeasePolling, FiniteSetTheorems, WellFoundedInduction, TLAPS

-----------------------------------------------------------------------------
(* Least and greatest elements. *)

LEMMA LeastNatural ==
  ASSUME NEW T, T \subseteq Nat, T # {}
  PROVE  \E x \in T : \A y \in T : x <= y
<1> DEFINE R == OpToRel(<, Nat)
<1>1. IsWellFoundedOn(R, Nat)
  BY NatLessThanWellFounded
<1> HIDE DEF R
<1>2. PICK x \in T : \A y \in T : ~(<<y, x>> \in R)
  BY <1>1, WFMin
<1>3. \A y \in T : ~(y < x)
  BY <1>2 DEF R, OpToRel
<1> QED BY <1>3

(* The element at which a bounded function is greatest. *)
LEMMA Greatest ==
  ASSUME NEW S, S # {}, NEW f \in [S -> Int], NEW n \in Int,
         \A x \in S : f[x] <= n
  PROVE  \E x \in S : \A y \in S : f[y] <= f[x]
<1> DEFINE T == {n - f[x] : x \in S}
<1>1. T \subseteq Nat /\ T # {}
  OBVIOUS
<1>2. PICK a \in T : \A b \in T : a <= b
  BY <1>1, LeastNatural
<1>3. PICK x \in S : a = n - f[x]
  OBVIOUS
<1>4. \A y \in S : n - f[x] <= n - f[y]
  BY <1>2, <1>3
<1> QED BY <1>4

LEMMA MinOf ==
  ASSUME NEW T, T \subseteq Nat, T # {}
  PROVE  Min(T) \in T /\ \A y \in T : Min(T) <= y
BY LeastNatural DEF Min

LEMMA MaxOfTwo ==
  ASSUME NEW a \in Int, NEW b \in Int
  PROVE  Max({a, b}) = a \/ Max({a, b}) = b
<1>1. \E x \in {a, b} : \A y \in {a, b} : x >= y
  OBVIOUS
<1> QED BY <1>1 DEF Max

LEMMA MaxOfThree ==
  ASSUME NEW a \in Int, NEW b \in Int, NEW c \in Int
  PROVE  Max({a, b, c}) = a \/ Max({a, b, c}) = b \/ Max({a, b, c}) = c
<1>1. \E x \in {a, b, c} : \A y \in {a, b, c} : x >= y
  OBVIOUS
<1> QED BY <1>1 DEF Max

LEMMA MinOfTwo ==
  ASSUME NEW a \in Int, NEW b \in Int
  PROVE  /\ Min({a, b}) = a \/ Min({a, b}) = b
         /\ Min({a, b}) <= b
<1>1. \E x \in {a, b} : \A y \in {a, b} : x <= y
  OBVIOUS
<1> QED BY <1>1 DEF Min

LEMMA AtMostHundred ==
  ASSUME NEW n \in Nat
  PROVE  Min({n, 100}) \in 0..100
<1>1. Min({n, 100}) \in Int /\ Min({n, 100}) <= 100 /\ 0 <= Min({n, 100})
  BY MinOfTwo
<1> QED BY <1>1

-----------------------------------------------------------------------------
(* The order of tuples. *)

Ranks == Int \X Int \X Int \X Int

Keys == Nat \X Nat \X Nat

LEMMA AboveRanks ==
  ASSUME NEW x \in Ranks, NEW y \in Ranks
  PROVE  Above(x, y) <=>
           \/ x[1] > y[1]
           \/ x[1] = y[1] /\ x[2] > y[2]
           \/ x[1] = y[1] /\ x[2] = y[2] /\ x[3] > y[3]
           \/ x[1] = y[1] /\ x[2] = y[2] /\ x[3] = y[3] /\ x[4] > y[4]
<1>1. DOMAIN x = 1..4
  BY DEF Ranks
<1> QED BY <1>1 DEF Above

LEMMA AboveKeys ==
  ASSUME NEW x \in Keys, NEW y \in Keys
  PROVE  Above(x, y) <=>
           \/ x[1] > y[1]
           \/ x[1] = y[1] /\ x[2] > y[2]
           \/ x[1] = y[1] /\ x[2] = y[2] /\ x[3] > y[3]
<1>1. DOMAIN x = 1..3
  BY DEF Keys
<1> QED BY <1>1 DEF Above

LEMMA SameRank ==
  ASSUME NEW x \in Ranks, NEW y \in Ranks,
         x[1] = y[1], x[2] = y[2], x[3] = y[3], x[4] = y[4]
  PROVE  x = y
BY DEF Ranks

MaxScore == 100000

(* Ranks r of the workers S; no column is above the highest score. *)
RanksOf(r, S) ==
  /\ S \subseteq Nat
  /\ r \in [S -> Ranks]
  /\ \A x \in S : /\ r[x][1] <= MaxScore /\ r[x][2] <= MaxScore
                  /\ r[x][3] <= MaxScore /\ r[x][4] <= MaxScore

(* Who is preferred by a rank, and by the smaller id among equals. *)
Prefers(r, S, x) ==
  \A y \in S \ {x} : Above(r[x], r[y]) \/ (r[x] = r[y] /\ x < y)

LEMMA SomeIsPreferred ==
  ASSUME NEW S, S # {}, NEW r, RanksOf(r, S)
  PROVE  \E x \in S : Prefers(r, S, x)
<1> DEFINE n == MaxScore
<1>a. /\ S \subseteq Nat /\ r \in [S -> Ranks] /\ n \in Int
      /\ \A x \in S : r[x][1] <= n /\ r[x][2] <= n /\ r[x][3] <= n /\ r[x][4] <= n
  BY DEF RanksOf, MaxScore
<1> HIDE DEF n
<1> USE <1>a
<1>0. \A x \in S : r[x] \in Ranks /\ \A i \in 1..4 : r[x][i] \in Int
  BY DEF Ranks
<1> DEFINE f1 == [x \in S |-> r[x][1]]
<1>1. PICK a \in S : \A y \in S : r[y][1] <= r[a][1]
  <2>1. f1 \in [S -> Int] /\ \A x \in S : f1[x] <= n
    BY <1>0
  <2>2. \E x \in S : \A y \in S : f1[y] <= f1[x]
    BY <2>1, Greatest
  <2> QED BY <2>2
<1> DEFINE S2 == {x \in S : r[x][1] = r[a][1]}
           f2 == [x \in S2 |-> r[x][2]]
<1>2. PICK b \in S2 : \A y \in S2 : r[y][2] <= r[b][2]
  <2>0. S2 \subseteq S /\ S2 # {}
    OBVIOUS
  <2>1. f2 \in [S2 -> Int] /\ \A x \in S2 : f2[x] <= n
    <3> HIDE DEF S2
    <3> QED BY <1>0, <2>0
  <2>2. \E x \in S2 : \A y \in S2 : f2[y] <= f2[x]
    <3> HIDE DEF S2, f2
    <3> QED BY <2>0, <2>1, Greatest
  <2> QED BY <2>2
<1> DEFINE S3 == {x \in S2 : r[x][2] = r[b][2]}
           f3 == [x \in S3 |-> r[x][3]]
<1>3. PICK c \in S3 : \A y \in S3 : r[y][3] <= r[c][3]
  <2>0. S3 \subseteq S /\ S3 # {}
    OBVIOUS
  <2>1. f3 \in [S3 -> Int] /\ \A x \in S3 : f3[x] <= n
    <3> HIDE DEF S3
    <3> QED BY <1>0, <2>0
  <2>2. \E x \in S3 : \A y \in S3 : f3[y] <= f3[x]
    <3> HIDE DEF S3, f3
    <3> QED BY <2>0, <2>1, Greatest
  <2> QED BY <2>2
<1> DEFINE S4 == {x \in S3 : r[x][3] = r[c][3]}
           f4 == [x \in S4 |-> r[x][4]]
<1>4. PICK d \in S4 : \A y \in S4 : r[y][4] <= r[d][4]
  <2>0. S4 \subseteq S /\ S4 # {}
    OBVIOUS
  <2>1. f4 \in [S4 -> Int] /\ \A x \in S4 : f4[x] <= n
    <3> HIDE DEF S4
    <3> QED BY <1>0, <2>0
  <2>2. \E x \in S4 : \A y \in S4 : f4[y] <= f4[x]
    <3> HIDE DEF S4, f4
    <3> QED BY <2>0, <2>1, Greatest
  <2> QED BY <2>2
<1> DEFINE S5 == {x \in S4 : r[x][4] = r[d][4]}
<1>5. PICK e \in S5 : \A y \in S5 : e <= y
  <2>1. S5 \subseteq Nat /\ S5 # {}
    OBVIOUS
  <2> QED BY <2>1, LeastNatural
<1>6. /\ e \in S /\ r[e][1] = r[a][1] /\ r[e][2] = r[b][2]
      /\ r[e][3] = r[c][3] /\ r[e][4] = r[d][4]
  OBVIOUS
<1>7. ASSUME NEW y \in S \ {e}
      PROVE  Above(r[e], r[y]) \/ (r[e] = r[y] /\ e < y)
  <2>1. CASE r[y][1] # r[a][1]
    BY <1>0, <1>1, <1>6, <2>1, AboveRanks
  <2>2. CASE r[y][1] = r[a][1] /\ r[y][2] # r[b][2]
    BY <1>0, <1>2, <1>6, <2>2, AboveRanks
  <2>3. CASE r[y][1] = r[a][1] /\ r[y][2] = r[b][2] /\ r[y][3] # r[c][3]
    BY <1>0, <1>3, <1>6, <2>3, AboveRanks
  <2>4. CASE /\ r[y][1] = r[a][1] /\ r[y][2] = r[b][2] /\ r[y][3] = r[c][3]
             /\ r[y][4] # r[d][4]
    BY <1>0, <1>4, <1>6, <2>4, AboveRanks
  <2>5. CASE /\ r[y][1] = r[a][1] /\ r[y][2] = r[b][2] /\ r[y][3] = r[c][3]
             /\ r[y][4] = r[d][4]
    <3>1. r[e] = r[y]
      BY <1>0, <1>6, <2>5, SameRank
    <3>2. e <= y
      BY <1>5, <2>5
    <3> QED BY <3>1, <3>2
  <2> QED BY <2>1, <2>2, <2>3, <2>4, <2>5
<1> QED BY <1>6, <1>7 DEF Prefers

LEMMA OnlyOneIsPreferred ==
  ASSUME NEW S, NEW r, RanksOf(r, S),
         NEW x \in S, NEW y \in S, Prefers(r, S, x), Prefers(r, S, y)
  PROVE  x = y
<1> USE DEF RanksOf
<1> SUFFICES ASSUME x # y PROVE FALSE
  OBVIOUS
<1>1. /\ r[x] \in Ranks /\ r[y] \in Ranks
      /\ \A i \in 1..4 : r[x][i] \in Int /\ r[y][i] \in Int
  BY DEF Ranks
<1>2. /\ Above(r[x], r[y]) \/ (r[x] = r[y] /\ x < y)
      /\ Above(r[y], r[x]) \/ (r[y] = r[x] /\ y < x)
  BY DEF Prefers
<1>3. CASE Above(r[x], r[y]) /\ Above(r[y], r[x])
  BY <1>1, <1>3, AboveRanks
<1>4. CASE r[x] = r[y]
  <2>1. ~Above(r[x], r[y]) /\ ~Above(r[y], r[x])
    BY <1>1, <1>4, AboveRanks
  <2> QED BY <1>2, <2>1
<1> QED BY <1>2, <1>3, <1>4

(* Of several devices with different ids one has the least key. *)
LEMMA SomeKeyIsLeast ==
  ASSUME NEW S, S # {}, NEW k \in [S -> Keys],
         \A x, y \in S : x # y => k[x][3] # k[y][3]
  PROVE  \E x \in S : \A y \in S \ {x} : Above(k[y], k[x])
<1>0. \A x \in S : k[x] \in Keys /\ \A i \in 1..3 : k[x][i] \in Nat
  BY DEF Keys
<1>1. PICK a \in S : \A y \in S : k[a][1] <= k[y][1]
  <2> DEFINE T == {k[x][1] : x \in S}
  <2>1. T \subseteq Nat /\ T # {}
    BY <1>0
  <2>2. \E m \in T : \A l \in T : m <= l
    BY <2>1, LeastNatural
  <2> QED BY <2>2
<1> DEFINE S2 == {x \in S : k[x][1] = k[a][1]}
<1>2. PICK b \in S2 : \A y \in S2 : k[b][2] <= k[y][2]
  <2> DEFINE T == {k[x][2] : x \in S2}
  <2>1. T \subseteq Nat /\ T # {}
    BY <1>0
  <2>2. \E m \in T : \A l \in T : m <= l
    BY <2>1, LeastNatural
  <2> QED BY <2>2
<1> DEFINE S3 == {x \in S2 : k[x][2] = k[b][2]}
<1>3. PICK c \in S3 : \A y \in S3 : k[c][3] <= k[y][3]
  <2> DEFINE T == {k[x][3] : x \in S3}
  <2>1. T \subseteq Nat /\ T # {}
    BY <1>0
  <2>2. \E m \in T : \A l \in T : m <= l
    BY <2>1, LeastNatural
  <2> QED BY <2>2
<1>4. ASSUME NEW y \in S \ {c}
      PROVE  Above(k[y], k[c])
  <2>1. CASE k[y][1] # k[a][1]
    BY <1>0, <1>1, <2>1, AboveKeys
  <2>2. CASE k[y][1] = k[a][1] /\ k[y][2] # k[b][2]
    BY <1>0, <1>2, <2>2, AboveKeys
  <2>3. CASE k[y][1] = k[a][1] /\ k[y][2] = k[b][2]
    BY <1>0, <1>3, <2>3, AboveKeys
  <2> QED BY <2>1, <2>2, <2>3
<1> QED BY <1>4

-----------------------------------------------------------------------------
(* The loads, scores and ranks that are compared are numbers. *)

LEMMA LoadType ==
  ASSUME NEW fleet \in Fleets, NEW d \in Devices
  PROVE  DeviceLoad(fleet, d) \in Nat
<1> USE FleetAssumption
<1>1. /\ fleet.usage[d].used \in Nat /\ fleet.usage[d].utilization \in Nat
      /\ MemoryOf[d] \in Nat
  BY DEF Fleets, Usages
<1>2. MemoryLoad(fleet, d) \in Nat
  <2> DEFINE a == fleet.usage[d].used * 100
             m == MemoryOf[d]
  <2>1. a \in Nat /\ m \in Nat
    BY <1>1
  <2> HIDE DEF a, m
  <2>2. m > 0 => a \div m \in Nat
    BY <2>1
  <2> QED BY <2>2 DEF MemoryLoad, a, m
<1> DEFINE a == MemoryLoad(fleet, d)
           b == fleet.usage[d].utilization
<1>3. a \in Nat /\ b \in Nat
  BY <1>1, <1>2
<1>4. DeviceLoad(fleet, d) = Max({a, b})
  BY DEF DeviceLoad
<1> HIDE DEF a, b
<1>5. Max({a, b}) = a \/ Max({a, b}) = b
  BY <1>3, MaxOfTwo
<1> QED BY <1>3, <1>4, <1>5

LEMMA ScoreType ==
  ASSUME NEW fleet \in Fleets, NEW w \in Workers, NEW runtimes, NEW minimum
  PROVE  LET score == _worker_scheduling_score(fleet, w, fleet.active[w],
                                               runtimes, minimum)
         IN score \in Int /\ score <= 100000
<1> USE FleetAssumption
<1> DEFINE devices ==
             {d \in DevicesOf[w] :
                /\ RuntimeOf[d] \in runtimes
                /\ minimum > 0 => MemoryOf[d] - fleet.usage[d].used >= minimum}
           busy == (fleet.active[w] * 100) \div MaximumConcurrency[w]
           least == Min({DeviceLoad(fleet, d) : d \in devices})
           signals == {busy, fleet.cpu[w]} \cup (IF devices = {} THEN {} ELSE {least})
           load == Min({Max(signals), 100})
           left == Max({100 - load, 5})
<1>1. busy \in Nat
  <2> DEFINE a == fleet.active[w] * 100
             m == MaximumConcurrency[w]
  <2>1. a \in Nat /\ m \in Nat \ {0}
    BY DEF Fleets
  <2> HIDE DEF a, m
  <2>2. a \div m \in Nat
    BY <2>1
  <2> QED BY <2>2 DEF a, m
<1>2. fleet.cpu[w] \in Nat
  BY DEF Fleets
<1>3. ASSUME devices # {} PROVE least \in Nat
  <2> DEFINE T == {DeviceLoad(fleet, d) : d \in devices}
  <2>1. devices \subseteq Devices
    OBVIOUS
  <2>2. T \subseteq Nat /\ T # {}
    <3>1. \A d \in devices : DeviceLoad(fleet, d) \in Nat
      BY <2>1, LoadType
    <3> HIDE DEF devices
    <3> QED BY <1>3, <3>1
  <2>3. Min(T) \in T
    BY <2>2, MinOf
  <2> QED BY <2>2, <2>3
<1>4. Max(signals) \in Nat
  <2> HIDE DEF busy, least, devices
  <2>1. CASE devices = {}
    <3>1. signals = {busy, fleet.cpu[w]}
      BY <2>1
    <3>2. Max({busy, fleet.cpu[w]}) = busy \/ Max({busy, fleet.cpu[w]}) = fleet.cpu[w]
      BY <1>1, <1>2, MaxOfTwo
    <3> QED BY <1>1, <1>2, <3>1, <3>2
  <2>2. CASE devices # {}
    <3>1. signals = {busy, fleet.cpu[w], least}
      BY <2>2
    <3>2. least \in Nat
      BY <1>3, <2>2
    <3> QED BY <1>1, <1>2, <3>1, <3>2, MaxOfThree
  <2> QED BY <2>1, <2>2
<1>5. load \in 0..100
  BY <1>4, AtMostHundred
<1>6. left \in 0..100
  <2> HIDE DEF load
  <2>1. Max({100 - load, 5}) = 100 - load \/ Max({100 - load, 5}) = 5
    BY <1>5, MaxOfTwo
  <2> QED BY <1>5, <2>1
<1>7. _worker_scheduling_score(fleet, w, fleet.active[w], runtimes, minimum)
        = Weight[w] * left
  BY DEF _worker_scheduling_score
<1>8. Weight[w] * left \in Int /\ Weight[w] * left <= 100000
  <2> DEFINE g == Weight[w]
  <2>1. g \in 1..1000
    BY SMTT(30)
  <2> HIDE DEF g, left
  <2>2. g * left <= 1000 * left /\ g * left \in Int
    BY <1>6, <2>1
  <2>3. 1000 * left <= 100000
    BY <1>6
  <2>4. g * left <= 100000
    BY <1>6, <2>2, <2>3
  <2> QED BY <2>2, <2>4 DEF g
<1> QED BY <1>7, <1>8

-----------------------------------------------------------------------------
(* The three judgements of a device agree: a backend that is selected for  *)
(* a worker runs on a runtime of which the worker has a device that fits.  *)
LEMMA SelectedRuntime ==
  ASSUME NEW fleet, NEW s \in Stages, NEW w,
         NEW choice \in _select_backend(fleet, s, w)
  PROVE  \E k \in DOMAIN Runtimes[s] :
           /\ choice[2] = Runtimes[s][k]
           /\ choice[2] \in _available_worker_runtimes(fleet, w, MinimumMemory[s])
<1> DEFINE Usable(i) == Compatible(fleet, s, w, Candidates[s][i])
           fitting == {i \in DOMAIN Candidates[s] : Usable(i) # {}}
<1>1. PICK i \in First(fitting) :
        \E k \in First(Usable(i)) : choice = <<Candidates[s][i], Runtimes[s][k]>>
  BY DEF _select_backend
<1>2. PICK k \in First(Usable(i)) : choice = <<Candidates[s][i], Runtimes[s][k]>>
  BY <1>1
<1>3. k \in Usable(i)
  BY <1>2 DEF First
<1> QED BY <1>2, <1>3 DEF Compatible

LEMMA SelectedDevice ==
  ASSUME NEW fleet \in Fleets, NEW s \in Stages, NEW w \in Workers, NEW runtime,
         runtime \in _available_worker_runtimes(fleet, w, MinimumMemory[s])
  PROVE  _select_device_id(fleet, s, w, runtime) # {}
<1> DEFINE devices == {d \in DevicesOf[w] : /\ RuntimeOf[d] = runtime
                                            /\ Fits(fleet, d, MinimumMemory[s])}
           keys == [d \in devices |-> DeviceKey(fleet, d)]
<1>1. devices # {}
  BY DEF _available_worker_runtimes
<1>2. devices \subseteq Devices /\ Devices \subseteq Nat
  BY FleetAssumption
<1>3. \A d \in devices : DeviceKey(fleet, d) \in Keys /\ DeviceKey(fleet, d)[3] = d
  <2> SUFFICES ASSUME NEW d \in devices
               PROVE  DeviceKey(fleet, d) \in Keys /\ DeviceKey(fleet, d)[3] = d
    OBVIOUS
  <2>1. d \in Devices /\ d \in Nat
    BY <1>2
  <2>2. fleet.reserved[d] \in Nat
    BY <2>1 DEF Fleets
  <2>3. DeviceLoad(fleet, d) \in Nat
    BY <2>1, LoadType
  <2> QED BY <2>1, <2>2, <2>3 DEF DeviceKey, Keys
<1>4. _select_device_id(fleet, s, w, runtime)
        = {d \in devices : \A e \in devices \ {d} :
             Above(DeviceKey(fleet, e), DeviceKey(fleet, d))}
  BY DEF _select_device_id
<1> HIDE DEF devices
<1>5. /\ keys \in [devices -> Keys]
      /\ \A x, y \in devices : x # y => keys[x][3] # keys[y][3]
  BY <1>3
<1>6. PICK d \in devices : \A e \in devices \ {d} : Above(keys[e], keys[d])
  <2> HIDE DEF keys
  <2> QED BY <1>1, <1>5, SomeKeyIsLeast
<1> QED BY <1>4, <1>6

LEMMA AdmittedIsPreferred ==
  ASSUME NEW fleet \in Fleets, NEW s \in Stages, NEW w \in Workers
  PROVE  Admission(fleet, s, w) # {} <=> _requesting_worker_is_preferred(fleet, s, w)
<1>1. ASSUME _requesting_worker_is_preferred(fleet, s, w)
      PROVE  Admission(fleet, s, w) # {}
  <2>1. /\ fleet.active[w] < MaximumConcurrency[w] /\ HasLabels(s, w)
        /\ _select_backend(fleet, s, w) # {}
    BY <1>1 DEF _requesting_worker_is_preferred, Ranked
  <2>2. PICK choice \in _select_backend(fleet, s, w) : TRUE
    BY <2>1
  <2>3. choice[2] \in _available_worker_runtimes(fleet, w, MinimumMemory[s])
    BY <2>2, SelectedRuntime
  <2>4. PICK d \in _select_device_id(fleet, s, w, choice[2]) : TRUE
    BY <2>3, SelectedDevice
  <2>5. <<choice[1], choice[2], d>> \in Admission(fleet, s, w)
    BY <1>1, <2>1, <2>2, <2>4 DEF Admission
  <2> QED BY <2>5
<1>2. ASSUME ~_requesting_worker_is_preferred(fleet, s, w)
      PROVE  Admission(fleet, s, w) = {}
  BY <1>2 DEF Admission
<1> QED BY <1>1, <1>2

LEMMA RankType ==
  ASSUME NEW fleet \in Fleets, NEW s \in Stages, NEW w \in Ranked(fleet, s)
  PROVE  LET rank == Rank(fleet, s, w)
         IN /\ rank \in Ranks
            /\ rank[1] <= MaxScore /\ rank[2] <= MaxScore
            /\ rank[3] <= MaxScore /\ rank[4] <= MaxScore
<1> DEFINE available == _available_worker_runtimes(fleet, w, MinimumMemory[s])
           runtimes == available \cap {Runtimes[s][i] : i \in DOMAIN Runtimes[s]}
           places == {i \in DOMAIN Runtimes[s] : Runtimes[s][i] \in runtimes}
           score == _worker_scheduling_score(fleet, w, fleet.active[w], runtimes,
                                             MinimumMemory[s])
<1>1. w \in Workers /\ _select_backend(fleet, s, w) # {}
  BY DEF Ranked, Fleets
<1>2. RuntimeRank(s, runtimes) \in Nat
  <2>1. PICK choice \in _select_backend(fleet, s, w) : TRUE
    BY <1>1
  <2>2. PICK k \in DOMAIN Runtimes[s] :
          choice[2] = Runtimes[s][k] /\ choice[2] \in available
    BY <2>1, SelectedRuntime
  <2>3. places \subseteq Nat /\ places # {}
    BY <2>2, StagesAssumption
  <2>4. RuntimeRank(s, runtimes) = Min(places)
    BY DEF RuntimeRank
  <2> HIDE DEF places, runtimes
  <2> QED BY <2>3, <2>4, MinOf
<1>3. score \in Int /\ score <= 100000
  <2> HIDE DEF runtimes
  <2> QED BY <1>1, ScoreType
<1>4. /\ Weight[w] \in Int /\ Weight[w] <= 100000
      /\ fleet.active[w] \in Nat
  <2>1. Weight[w] \in 1..1000
    BY <1>1, FleetAssumption, SMTT(30)
  <2>2. fleet.active[w] \in Nat
    BY <1>1 DEF Fleets
  <2> QED BY <2>1, <2>2
<1>5. Rank(fleet, s, w) = << -RuntimeRank(s, runtimes), score, Weight[w],
                             -fleet.active[w] >>
  BY DEF Rank
<1> HIDE DEF runtimes, score
<1>6. << -RuntimeRank(s, runtimes), score, Weight[w], -fleet.active[w] >> \in Ranks
  BY <1>2, <1>3, <1>4 DEF Ranks
<1> QED BY <1>2, <1>3, <1>4, <1>5, <1>6 DEF MaxScore

(* The admission decision, for every fleet: of the workers that could take *)
(* a stage exactly one is given it.                                        *)
LEMMA OneIsAdmitted ==
  ASSUME NEW fleet \in Fleets, NEW s \in Stages, Ranked(fleet, s) # {}
  PROVE  Cardinality({w \in Workers : Admission(fleet, s, w) # {}}) = 1
<1> DEFINE S == Ranked(fleet, s)
           r == [w \in S |-> Rank(fleet, s, w)]
<1>1. S \subseteq Workers /\ S \subseteq Nat
  BY FleetAssumption DEF Ranked, Fleets
<1>2. RanksOf(r, S)
  BY <1>1, RankType DEF RanksOf
<1>3. \A w \in Workers :
        _requesting_worker_is_preferred(fleet, s, w) <=> w \in S /\ Prefers(r, S, w)
  BY DEF _requesting_worker_is_preferred, Prefers
<1> HIDE DEF r, S
<1>4. PICK w \in S : Prefers(r, S, w)
  <2>1. S # {}
    BY DEF S
  <2> QED BY <1>2, <2>1, SomeIsPreferred
<1>5. \A v \in S : Prefers(r, S, v) => v = w
  BY <1>2, <1>4, OnlyOneIsPreferred
<1>6. {v \in Workers : Admission(fleet, s, v) # {}} = {w}
  BY <1>1, <1>3, <1>4, <1>5, AdmittedIsPreferred
<1> QED BY <1>6, FS_Singleton

-----------------------------------------------------------------------------
(* The polls. *)

(* Positions lie within the stream, a stage that is not available yet has  *)
(* no notice.                                                              *)
NoticesSound ==
  /\ \A s \in Stages : stage[s].notice <= stream
  /\ \A s \in Stages : stage[s].status = "none" =>
                        stage[s].notice = 0 /\ ~stage[s].due
  /\ \A w \in Workers : worker[w].cursor <= stream

PollingTypes ==
  /\ stage \in [Stages -> StageRows]
  /\ worker \in [Workers -> WorkerRows]
  /\ stream \in Nat /\ upsets \in Nat

PollingInv == PollingTypes /\ NoticesSound /\ NoSleepOverWork

LEMMA FleetType ==
  ASSUME PollingTypes
  PROVE  Fleet \in Fleets
<1> USE FleetAssumption DEF PollingTypes
<1>1. \A T \in SUBSET Stages : Cardinality(T) \in Nat
  BY FS_Subset, FS_CardinalityType
<1>2. \A w \in Workers : Cardinality(Leased(w)) \in Nat
  BY <1>1 DEF Leased
<1>3. \A d \in Devices :
        Cardinality({s \in Stages : stage[s].status = "leased" /\ stage[s].device = d})
          \in Nat
  BY <1>1
<1>4. \A w \in Workers : /\ worker[w].load.cpu \in 0..100
                         /\ worker[w].load.usage \in [Devices -> Usages]
  BY PollingAssumption DEF WorkerRows
<1>5. \A d \in Devices : (CHOOSE w \in Workers : d \in DevicesOf[w]) \in Workers
  OBVIOUS
<1>6. \A d \in Devices :
        worker[CHOOSE w \in Workers : d \in DevicesOf[w]].load.usage[d] \in Usages
  <2> SUFFICES ASSUME NEW d \in Devices
               PROVE  worker[CHOOSE w \in Workers : d \in DevicesOf[w]].load.usage[d]
                        \in Usages
    OBVIOUS
  <2> DEFINE owner == CHOOSE w \in Workers : d \in DevicesOf[w]
  <2>1. owner \in Workers
    BY <1>5
  <2> HIDE DEF owner
  <2>2. worker[owner].load.usage[d] \in Usages
    BY <1>4, <2>1
  <2> QED BY <2>2 DEF owner
<1> QED BY <1>2, <1>3, <1>4, <1>6 DEF Fleet, Fleets

LEMMA PollingInit == Init => PollingInv
<1> SUFFICES ASSUME Init PROVE PollingInv
  OBVIOUS
<1> USE DEF Init
<1>1. PollingTypes
  BY PollingAssumption
  DEF PollingTypes, StageRows, WorkerRows, NoWorker, NoDevice, NoCursor
<1>2. NoticesSound
  BY DEF NoticesSound, NoCursor
<1>3. NoSleepOverWork
  BY DEF NoSleepOverWork, Pending
<1> QED BY <1>1, <1>2, <1>3 DEF PollingInv

(* What becomes of one stage while the polls rest. *)
LEMMA StageMoves ==
  ASSUME PollingInv, NEW s \in Stages, NEW r \in StageRows,
         stage' = [stage EXCEPT ![s] = r], worker' = worker,
         stream' \in Nat, stream <= stream', upsets' \in Nat,
         r.notice <= stream', r.status # "none",
         r.status = "pending" =>
           \/ r.notice = 0
           \/ stream < r.notice
           \/ r.notice = stage[s].notice /\ stage[s].status = "pending"
  PROVE  PollingInv'
<1> USE DEF PollingInv
<1>1. /\ stage'[s] = r /\ \A x \in Stages \ {s} : stage'[x] = stage[x]
      /\ stage' \in [Stages -> StageRows]
  BY DEF PollingTypes
<1>2. PollingTypes'
  BY <1>1 DEF PollingTypes
<1>3. NoticesSound'
  <2>1. \A x \in Stages : stage[x].notice \in Nat
    BY DEF PollingTypes, StageRows
  <2>2. \A w \in Workers : worker[w].cursor \in Int
    BY DEF PollingTypes, WorkerRows, NoCursor
  <2>3. stream \in Nat
    BY DEF PollingTypes
  <2>4. \A x \in Stages : stage'[x].notice <= stream'
    BY <1>1, <2>1, <2>3 DEF NoticesSound
  <2>6. ASSUME NEW x \in Stages, stage'[x].status = "none"
        PROVE  stage'[x].notice = 0 /\ ~stage'[x].due
    <3>1. stage'[x] = stage[x]
      BY <1>1, <2>6
    <3> QED BY <2>6, <3>1, Zenon DEF NoticesSound
  <2>5. \A w \in Workers : worker'[w].cursor <= stream'
    BY <2>2, <2>3 DEF NoticesSound
  <2> QED BY <2>4, <2>5, <2>6, Zenon DEF NoticesSound
<1>4. NoSleepOverWork'
  <2> SUFFICES ASSUME NEW w \in Workers, NEW x \in Stages,
                      stage'[x].status = "pending",
                      worker[w].phase \in {"tried", "waiting"},
                      x \notin worker[w].seen, stage'[x].notice > 0
               PROVE  stage'[x].notice > worker[w].cursor
    BY DEF NoSleepOverWork, Pending
  <2>1. /\ worker[w].cursor \in Int /\ stream \in Nat /\ r.notice \in Nat
        /\ worker[w].cursor <= stream
    BY DEF PollingTypes, WorkerRows, StageRows, NoCursor, NoticesSound
  <2>2. \A y \in Stages : stage[y].status = "pending" /\ y \notin worker[w].seen
                             /\ stage[y].notice > 0
                           => stage[y].notice > worker[w].cursor
    BY DEF NoSleepOverWork, Pending
  <2>3. CASE x # s
    BY <1>1, <2>2, <2>3
  <2>4. CASE x = s /\ stream < r.notice
    BY <1>1, <2>1, <2>4
  <2>5. CASE x = s /\ r.notice = stage[s].notice /\ stage[s].status = "pending"
    BY <1>1, <2>2, <2>5
  <2> QED BY <1>1, <2>1, <2>3, <2>4, <2>5
<1> QED BY <1>2, <1>3, <1>4

(* What becomes of one worker, and of stages that stop being available. *)
LEMMA WorkerMoves ==
  ASSUME PollingInv, NEW w \in Workers, NEW v \in WorkerRows,
         worker' = [worker EXCEPT ![w] = v], stream' = stream, upsets' \in Nat,
         stage' \in [Stages -> StageRows],
         \A s \in Stages : /\ stage'[s].notice = stage[s].notice
                           /\ stage'[s].status \in {"none", "pending"}
                                => stage'[s] = stage[s],
         v.cursor <= stream,
         v.phase \in {"tried", "waiting"} =>
           \/ {s \in Stages : stage'[s].status = "pending"} \subseteq v.seen
           \/ /\ worker[w].phase \in {"tried", "waiting"}
              /\ v.cursor = worker[w].cursor /\ v.seen = worker[w].seen
  PROVE  PollingInv'
<1> USE DEF PollingInv
<1>1. /\ worker'[w] = v /\ \A u \in Workers \ {w} : worker'[u] = worker[u]
      /\ worker' \in [Workers -> WorkerRows]
  BY DEF PollingTypes
<1>2. PollingTypes'
  BY <1>1 DEF PollingTypes
<1>3. NoticesSound'
  BY <1>1 DEF NoticesSound
<1>4. NoSleepOverWork'
  <2> SUFFICES ASSUME NEW u \in Workers, NEW s \in Stages,
                      stage'[s].status = "pending",
                      worker'[u].phase \in {"tried", "waiting"},
                      s \notin worker'[u].seen, stage'[s].notice > 0
               PROVE  stage'[s].notice > worker'[u].cursor
    BY DEF NoSleepOverWork, Pending
  <2>1. stage'[s] = stage[s]
    OBVIOUS
  <2>2. \A y \in Workers : worker[y].phase \in {"tried", "waiting"}
                              /\ s \notin worker[y].seen
                            => stage[s].notice > worker[y].cursor
    BY <2>1 DEF NoSleepOverWork, Pending
  <2>3. CASE u # w
    BY <1>1, <2>1, <2>2, <2>3
  <2>4. CASE u = w
    BY <1>1, <2>1, <2>2, <2>4
  <2> QED BY <2>3, <2>4
<1> QED BY <1>2, <1>3, <1>4

LEMMA StageSteps ==
  ASSUME PollingInv, NEW s \in Stages,
         MakeAvailable(s) \/ Publish(s) \/ PublishFails(s) \/ Requeue(s)
  PROVE  PollingInv'
<1>0. /\ stage \in [Stages -> StageRows] /\ stage[s] \in StageRows
      /\ stream \in Nat /\ upsets \in Nat
      /\ stage[s].notice <= stream /\ stage[s].notice \in Nat
  BY DEF PollingInv, PollingTypes, NoticesSound, StageRows
<1>a. stage[s].status = "none" => stage[s].notice = 0 /\ ~stage[s].due
  BY Zenon DEF PollingInv, NoticesSound
<1>1. CASE MakeAvailable(s)
  <2> DEFINE r == [stage[s] EXCEPT !.status = "pending", !.due = TRUE]
  <2>1. stage' = [stage EXCEPT ![s] = r] /\ worker' = worker
        /\ stream' = stream /\ upsets' = upsets
    BY <1>0, <1>1 DEF MakeAvailable
  <2>2. r \in StageRows /\ r.status = "pending" /\ r.notice = 0
    BY <1>0, <1>a, <1>1 DEF MakeAvailable, StageRows
  <2> HIDE DEF r
  <2>3. stream <= stream' /\ stream' \in Nat /\ upsets' \in Nat /\ r.notice <= stream'
    BY <1>0, <2>1, <2>2
  <2> QED BY <1>0, <2>1, <2>2, <2>3, StageMoves
<1>2. CASE Publish(s)
  <2> DEFINE r == [stage[s] EXCEPT !.due = FALSE, !.notice = stream + 1]
  <2>1. stage' = [stage EXCEPT ![s] = r] /\ worker' = worker
        /\ stream' = stream + 1 /\ upsets' = upsets
    BY <1>0, <1>2 DEF Publish
  <2>2. r \in StageRows /\ r.status # "none" /\ r.notice = stream + 1
    <3>1. stage[s].status # "none"
      BY <1>a, <1>2, Zenon DEF Publish
    <3>2. stream + 1 \in Nat
      BY <1>0
    <3>3. r \in StageRows /\ r.status = stage[s].status /\ r.notice = stream + 1
      BY <1>0, <3>2 DEF StageRows
    <3> QED BY <3>1, <3>3
  <2> HIDE DEF r
  <2>3. /\ stream <= stream' /\ stream' \in Nat /\ upsets' \in Nat
        /\ r.notice <= stream' /\ stream < r.notice
    BY <1>0, <2>1, <2>2
  <2> QED BY <1>0, <2>1, <2>2, <2>3, StageMoves
<1>3. CASE PublishFails(s)
  <2> DEFINE r == [stage[s] EXCEPT !.due = FALSE]
  <2>1. stage' = [stage EXCEPT ![s] = r] /\ worker' = worker
        /\ stream' = stream /\ upsets' = upsets + 1
    BY <1>0, <1>3 DEF PublishFails, Upset
  <2>2. /\ r \in StageRows /\ r.status = stage[s].status
        /\ r.status # "none" /\ r.notice = stage[s].notice
    <3>1. stage[s].status # "none"
      BY <1>a, <1>3, Zenon DEF PublishFails
    <3> QED BY <1>0, <3>1 DEF StageRows
  <2> HIDE DEF r
  <2>3. stream <= stream' /\ stream' \in Nat /\ upsets' \in Nat /\ r.notice <= stream'
    BY <1>0, <2>1, <2>2
  <2> QED BY <1>0, <2>1, <2>2, <2>3, StageMoves
<1>4. CASE Requeue(s)
  <2> DEFINE r == [stage[s] EXCEPT !.status = "pending", !.worker = NoWorker,
                                   !.device = NoDevice, !.due = TRUE, !.notice = 0]
  <2>1. stage' = [stage EXCEPT ![s] = r] /\ worker' = worker
        /\ stream' = stream /\ upsets' = upsets
    BY <1>0, <1>4 DEF Requeue
  <2>2. r \in StageRows /\ r.status = "pending" /\ r.notice = 0
    BY <1>0 DEF StageRows
  <2> HIDE DEF r
  <2>3. stream <= stream' /\ stream' \in Nat /\ upsets' \in Nat /\ r.notice <= stream'
    BY <1>0, <2>1, <2>2
  <2> QED BY <1>0, <2>1, <2>2, <2>3, StageMoves
<1> QED BY <1>1, <1>2, <1>3, <1>4

(* A try hands out stages that were available and touches no other. *)
LEMMA HandedOutRows ==
  ASSUME PollingInv, NEW w \in Workers, NEW leases
  PROVE  /\ HandedOut(w, leases) \in [Stages -> StageRows]
         /\ \A s \in Stages :
              /\ HandedOut(w, leases)[s].notice = stage[s].notice
              /\ HandedOut(w, leases)[s].status \in {"none", "pending"}
                   => HandedOut(w, leases)[s] = stage[s]
         /\ leases = {} => HandedOut(w, leases) = stage
<1>0. stage \in [Stages -> StageRows]
  BY DEF PollingInv, PollingTypes
<1>1. ASSUME NEW s \in Stages
      PROVE  /\ HandedOut(w, leases)[s] \in StageRows
             /\ HandedOut(w, leases)[s].notice = stage[s].notice
             /\ HandedOut(w, leases)[s].status \in {"none", "pending"}
                  => HandedOut(w, leases)[s] = stage[s]
  <2>0. stage[s] \in StageRows
    BY <1>0
  <2>1. CASE ~\E d \in Devices : <<s, d>> \in leases
    <3>1. HandedOut(w, leases)[s] = stage[s]
      BY <2>1 DEF HandedOut
    <3> QED BY <2>0, <3>1
  <2>2. CASE \E d \in Devices : <<s, d>> \in leases
    <3> DEFINE device == CHOOSE d \in Devices : <<s, d>> \in leases
               r == [stage[s] EXCEPT !.status = "leased", !.worker = w,
                                     !.device = device]
    <3>1. device \in Devices
      BY <2>2
    <3>2. HandedOut(w, leases)[s] = r
      BY <2>2 DEF HandedOut
    <3> HIDE DEF device
    <3>3. r \in StageRows /\ r.notice = stage[s].notice /\ r.status = "leased"
      BY <2>0, <3>1 DEF StageRows
    <3> QED BY <3>2, <3>3
  <2> QED BY <2>1, <2>2
<1>2. HandedOut(w, leases) \in [Stages -> StageRows]
  <2>1. HandedOut(w, leases) = [s \in Stages |-> HandedOut(w, leases)[s]]
    BY DEF HandedOut
  <2> QED BY <1>1, <2>1
<1>3. leases = {} => HandedOut(w, leases) = stage
  BY <1>0 DEF HandedOut
<1> QED BY <1>1, <1>2, <1>3

LEMMA AnsweredRow ==
  ASSUME PollingInv, NEW w \in Workers, NEW leases
  PROVE  \E v \in WorkerRows :
           /\ Answered(w, leases) = [worker EXCEPT ![w] = v]
           /\ v.cursor = NoCursor /\ v.phase \in {"working", "idle"}
<1> DEFINE v == [worker[w] EXCEPT !.phase = IF leases # {} THEN "working" ELSE "idle",
                                  !.seen = {}, !.cursor = NoCursor]
<1>0. worker \in [Workers -> WorkerRows] /\ worker[w] \in WorkerRows
  BY DEF PollingInv, PollingTypes
<1>1. v \in WorkerRows /\ v.cursor = NoCursor /\ v.phase \in {"working", "idle"}
  BY <1>0 DEF WorkerRows
<1>2. Answered(w, leases) = [worker EXCEPT ![w] = v]
  BY <1>0 DEF Answered
<1> QED BY <1>1, <1>2

LEMMA TrySteps ==
  ASSUME PollingInv, NEW w \in Workers, TryLease(w) \/ TryAgain(w)
  PROVE  PollingInv'
<1>0. /\ worker \in [Workers -> WorkerRows] /\ worker[w] \in WorkerRows
      /\ stream \in Nat /\ upsets \in Nat /\ worker[w].cursor <= stream
      /\ NoCursor <= stream
  BY DEF PollingInv, PollingTypes, NoticesSound, NoCursor
<1>1. /\ stage' = HandedOut(w, lease(w)) /\ stream' = stream /\ upsets' = upsets
      /\ \/ worker' = Answered(w, lease(w))
         \/ /\ lease(w) = {}
            /\ worker' = [worker EXCEPT ![w].phase = "tried", ![w].seen = Pending]
  BY DEF TryLease, TryAgain
<1> DEFINE leases == lease(w)
<1> HIDE DEF leases
<1>2. /\ stage' \in [Stages -> StageRows]
      /\ \A s \in Stages : /\ stage'[s].notice = stage[s].notice
                           /\ stage'[s].status \in {"none", "pending"}
                                => stage'[s] = stage[s]
      /\ leases = {} => stage' = stage
  BY <1>1, HandedOutRows DEF leases
<1>3. CASE worker' = Answered(w, leases)
  <2>1. PICK v \in WorkerRows : /\ worker' = [worker EXCEPT ![w] = v]
                                /\ v.cursor = NoCursor
                                /\ v.phase \in {"working", "idle"}
    BY <1>3, AnsweredRow
  <2>2. v.cursor <= stream /\ v.phase \notin {"tried", "waiting"} /\ upsets' \in Nat
    BY <1>0, <1>1, <2>1
  <2> QED BY <1>1, <1>2, <2>1, <2>2, WorkerMoves
<1>4. CASE /\ leases = {}
           /\ worker' = [worker EXCEPT ![w].phase = "tried", ![w].seen = Pending]
  <2> DEFINE v == [worker[w] EXCEPT !.phase = "tried", !.seen = Pending]
  <2>1. worker' = [worker EXCEPT ![w] = v]
    BY <1>0, <1>4
  <2>2. /\ v \in WorkerRows /\ v.cursor = worker[w].cursor /\ v.seen = Pending
        /\ v.phase = "tried"
    BY <1>0 DEF WorkerRows, Pending
  <2> HIDE DEF v
  <2>3. {s \in Stages : stage'[s].status = "pending"} \subseteq v.seen
    BY <1>2, <1>4, <2>2 DEF Pending
  <2>4. v.cursor <= stream /\ upsets' \in Nat
    BY <1>0, <1>1, <2>2
  <2> QED BY <1>1, <1>2, <2>1, <2>2, <2>3, <2>4, WorkerMoves
<1> QED BY <1>1, <1>3, <1>4 DEF leases

LEMMA PollSteps ==
  ASSUME PollingInv, NEW w \in Workers,
         \/ Snapshot(w) \/ SnapshotFails(w) \/ Wait(w) \/ Wake(w) \/ WaitEnds(w)
         \/ Report(w) \/ Die(w) \/ MarkOffline(w)
  PROVE  PollingInv'
<1>0. /\ worker \in [Workers -> WorkerRows] /\ worker[w] \in WorkerRows
      /\ stage \in [Stages -> StageRows]
      /\ stream \in Nat /\ upsets \in Nat /\ worker[w].cursor <= stream
      /\ NoCursor <= stream
  BY DEF PollingInv, PollingTypes, NoticesSound, NoCursor
<1>1. \E v \in WorkerRows :
        /\ worker' = [worker EXCEPT ![w] = v] /\ v.cursor <= stream
        /\ v.phase \in {"tried", "waiting"} =>
             /\ worker[w].phase \in {"tried", "waiting"}
             /\ v.cursor = worker[w].cursor /\ v.seen = worker[w].seen
  <2>1. CASE Snapshot(w)
    <3> DEFINE v == [worker[w] EXCEPT !.phase = "asked", !.cursor = stream]
    <3>1. v \in WorkerRows /\ v.phase = "asked" /\ v.cursor = stream
      BY <1>0 DEF WorkerRows
    <3>2. worker' = [worker EXCEPT ![w] = v]
      BY <1>0, <2>1 DEF Snapshot
    <3> HIDE DEF v
    <3>3. v.cursor <= stream /\ v.phase \notin {"tried", "waiting"}
      BY <1>0, <3>1
    <3> QED BY <3>1, <3>2, <3>3
  <2>2. CASE SnapshotFails(w)
    <3> DEFINE v == [worker[w] EXCEPT !.phase = "asked", !.cursor = NoCursor]
    <3>1. v \in WorkerRows /\ v.phase = "asked" /\ v.cursor = NoCursor
      BY <1>0 DEF WorkerRows
    <3>2. worker' = [worker EXCEPT ![w] = v]
      BY <1>0, <2>2 DEF SnapshotFails
    <3> HIDE DEF v
    <3> QED BY <1>0, <3>1, <3>2
  <2>3. CASE Wait(w)
    <3> DEFINE v == [worker[w] EXCEPT !.phase = "waiting"]
    <3>1. v \in WorkerRows /\ v.cursor = worker[w].cursor /\ v.seen = worker[w].seen
      BY <1>0 DEF WorkerRows
    <3>2. worker' = [worker EXCEPT ![w] = v] /\ worker[w].phase = "tried"
      BY <1>0, <2>3 DEF Wait
    <3> HIDE DEF v
    <3> QED BY <1>0, <3>1, <3>2
  <2>4. CASE Wake(w) \/ WaitEnds(w)
    <3> DEFINE v == [worker[w] EXCEPT !.phase = "again", !.seen = {},
                                      !.cursor = NoCursor]
    <3>1. v \in WorkerRows /\ v.cursor = NoCursor /\ v.phase = "again"
      BY <1>0 DEF WorkerRows
    <3>2. worker' = [worker EXCEPT ![w] = v]
      BY <1>0, <2>4 DEF Wake, WaitEnds
    <3> HIDE DEF v
    <3> QED BY <1>0, <3>1, <3>2
  <2>5. CASE Report(w)
    <3>1. PICK load \in Loads : worker' = [worker EXCEPT ![w].load = load]
      BY <2>5 DEF Report
    <3> DEFINE v == [worker[w] EXCEPT !.load = load]
    <3>2. /\ v \in WorkerRows /\ v.cursor = worker[w].cursor
          /\ v.seen = worker[w].seen /\ v.phase = worker[w].phase
      BY <1>0 DEF WorkerRows
    <3>3. worker' = [worker EXCEPT ![w] = v]
      BY <1>0, <3>1
    <3> HIDE DEF v
    <3> QED BY <1>0, <3>2, <3>3
  <2>6. CASE Die(w)
    <3> DEFINE v == [worker[w] EXCEPT !.alive = FALSE]
    <3>1. /\ v \in WorkerRows /\ v.cursor = worker[w].cursor
          /\ v.seen = worker[w].seen /\ v.phase = worker[w].phase
      BY <1>0 DEF WorkerRows
    <3>2. worker' = [worker EXCEPT ![w] = v]
      BY <1>0, <2>6 DEF Die
    <3> HIDE DEF v
    <3> QED BY <1>0, <3>1, <3>2
  <2>7. CASE MarkOffline(w)
    <3> DEFINE v == [worker[w] EXCEPT !.accepting = FALSE]
    <3>1. /\ v \in WorkerRows /\ v.cursor = worker[w].cursor
          /\ v.seen = worker[w].seen /\ v.phase = worker[w].phase
      BY <1>0 DEF WorkerRows
    <3>2. worker' = [worker EXCEPT ![w] = v]
      BY <1>0, <2>7 DEF MarkOffline
    <3> HIDE DEF v
    <3> QED BY <1>0, <3>1, <3>2
  <2> QED BY <2>1, <2>2, <2>3, <2>4, <2>5, <2>6, <2>7
<1>2. stage' = stage /\ stream' = stream /\ upsets' \in Nat
  BY <1>0 DEF Snapshot, SnapshotFails, Wait, Wake, WaitEnds, Report, Die, MarkOffline,
              Upset
<1>3. /\ stage' \in [Stages -> StageRows]
      /\ \A s \in Stages : /\ stage'[s].notice = stage[s].notice
                           /\ stage'[s].status \in {"none", "pending"}
                                => stage'[s] = stage[s]
  BY <1>0, <1>2
<1> QED BY <1>1, <1>2, <1>3, WorkerMoves

LEMMA FinishStep ==
  ASSUME PollingInv, NEW w \in Workers, NEW s \in Stages, Finish(w, s)
  PROVE  PollingInv'
<1>0. /\ worker \in [Workers -> WorkerRows] /\ worker[w] \in WorkerRows
      /\ stage \in [Stages -> StageRows] /\ stage[s] \in StageRows
      /\ stream \in Nat /\ upsets \in Nat /\ worker[w].cursor <= stream
  BY DEF PollingInv, PollingTypes, NoticesSound
<1>1. /\ stage' \in [Stages -> StageRows]
      /\ \A x \in Stages : /\ stage'[x].notice = stage[x].notice
                           /\ stage'[x].status \in {"none", "pending"}
                                => stage'[x] = stage[x]
  <2> DEFINE r == [stage[s] EXCEPT !.status = "done"]
  <2>1. r \in StageRows /\ r.notice = stage[s].notice /\ r.status = "done"
    BY <1>0 DEF StageRows
  <2>2. stage' = [stage EXCEPT ![s] = r]
    BY <1>0 DEF Finish
  <2> HIDE DEF r
  <2> QED BY <1>0, <2>1, <2>2
<1>2. PICK phase \in {"idle", worker[w].phase} :
        worker' = [worker EXCEPT ![w] = [worker[w] EXCEPT !.phase = phase]]
  <2>1. CASE worker' = [worker EXCEPT ![w].phase = "idle"]
    BY <1>0, <2>1
  <2>2. CASE worker' = worker
    <3>1. worker[w] = [worker[w] EXCEPT !.phase = worker[w].phase]
      BY <1>0 DEF WorkerRows
    <3>2. worker = [worker EXCEPT ![w] = worker[w]]
      BY <1>0
    <3> QED BY <2>2, <3>1, <3>2
  <2> QED BY <2>1, <2>2 DEF Finish
<1> DEFINE v == [worker[w] EXCEPT !.phase = phase]
<1>3. /\ v \in WorkerRows /\ v.cursor = worker[w].cursor /\ v.seen = worker[w].seen
      /\ v.phase = phase
  BY <1>0, <1>2 DEF WorkerRows
<1>4. worker' = [worker EXCEPT ![w] = v]
  BY <1>2
<1> HIDE DEF v
<1>5. stream' = stream /\ upsets' \in Nat /\ v.cursor <= stream
  BY <1>0, <1>3 DEF Finish
<1>6. v.phase \in {"tried", "waiting"} => worker[w].phase \in {"tried", "waiting"}
  BY <1>2, <1>3
<1> QED BY <1>1, <1>3, <1>4, <1>5, <1>6, WorkerMoves

LEMMA PollingStep ==
  ASSUME PollingInv, [Next]_vars
  PROVE  PollingInv'
<1>1. CASE UNCHANGED vars
  BY <1>1 DEF vars, PollingInv, PollingTypes, NoticesSound, NoSleepOverWork, Pending
<1>2. CASE Next
  BY <1>2, StageSteps, TrySteps, PollSteps, FinishStep DEF Next
<1> QED BY <1>1, <1>2

-----------------------------------------------------------------------------
(* A poll's position, and the positions of the notices, are such that no   *)
(* notice of a stage it has not seen lies behind it.                       *)
THEOREM PollingInvariance == Spec => []PollingInv
<1>1. Init => PollingInv
  BY PollingInit
<1>2. PollingInv /\ [Next]_vars => PollingInv'
  BY PollingStep
<1> QED BY <1>1, <1>2, PTL DEF Spec

(* Rows, polls and the fleet that the ranking reads have their types. *)
THEOREM PollingTypesHold == Spec => []TypeOK
<1>1. PollingInv => TypeOK
  BY FleetType DEF PollingInv, PollingTypes, TypeOK
<1> QED BY <1>1, PollingInvariance, PTL

(* No lost wake-up, for any number of workers and stages: a stage that has *)
(* become available after a poll's first try, and whose notice has been    *)
(* sent, ends the poll's wait.                                             *)
THEOREM NoLostWakeUp == Spec => []NoSleepOverWork
<1>1. PollingInv => NoSleepOverWork
  BY DEF PollingInv
<1> QED BY <1>1, PollingInvariance, PTL

(* Nobody waits for everybody, for any fleet: a pending stage that some    *)
(* worker could take is admitted to exactly one of them, and it has a      *)
(* device for it.                                                          *)
THEOREM ExactlyOneAdmitted == Spec => []SomeoneIsAdmitted
<1>1. PollingInv => SomeoneIsAdmitted
  BY FleetType, OneIsAdmitted DEF PollingInv, SomeoneIsAdmitted, Pending
<1> QED BY <1>1, PollingInvariance, PTL
=============================================================================
