----------------------- MODULE ClipboardPersistProofs -----------------------
(***************************************************************************)
(* The safety properties of ClipboardPersist for any clients, mime types,  *)
(* sizes of data, pipes and cache, and any number of readers and contents. *)
(* Two things in the model are recursive, the doubling of a buffer and the *)
(* loop of handle_install over the entries.  What they compute is proved   *)
(* by induction in the form "a set of naturals that has 0 and the successor*)
(* of each of its members has all of them".                                *)
(***************************************************************************)
EXTENDS ClipboardPersist, WellFoundedInduction, TLAPS

(* A set of naturals that is not empty has a least element. *)
LEMMA LeastNatural ==
  ASSUME NEW S, S \subseteq Nat, S # {}
  PROVE  \E m \in S : \A k \in S : m <= k
<1> DEFINE R == OpToRel(<, Nat)
<1>1. IsWellFoundedOn(R, Nat)
  BY NatLessThanWellFounded, Zenon
<1>2. \A i, j \in Nat : i < j => <<i, j>> \in R
  BY DEF OpToRel
<1> HIDE DEF R
<1>3. PICK x \in S : \A y \in S : ~ (<<y, x>> \in R)
  BY <1>1, WFMin, Zenon
<1>4. ASSUME NEW y \in S PROVE x <= y
  <2>1. x \in Nat /\ y \in Nat
    OBVIOUS
  <2>2. ~(y < x)
    BY <1>2, <1>3, <2>1, Zenon
  <2> QED BY <2>1, <2>2
<1> QED BY <1>4

(* A set that has 0 and with each natural its successor has all naturals. *)
LEMMA SetInduction ==
  ASSUME NEW S, 0 \in S, \A n \in Nat : n \in S => n + 1 \in S
  PROVE  Nat \subseteq S
<1> SUFFICES ASSUME Nat \ S # {} PROVE FALSE
  OBVIOUS
<1>1. PICK m \in Nat \ S : \A k \in Nat \ S : m <= k
  BY LeastNatural, Zenon
<1>2. m # 0 /\ m - 1 \in Nat /\ m - 1 \in S
  BY <1>1
<1> QED BY <1>1, <1>2

(* A bounded set of naturals that is not empty has a greatest element. *)
LEMMA GreatestNatural ==
  ASSUME NEW S, S \subseteq Nat, S # {}, NEW b \in Nat, \A k \in S : k <= b
  PROVE  \E m \in S : \A k \in S : k <= m
<1> DEFINE T == {b - k : k \in S}
<1>1. T \subseteq Nat /\ T # {}
  <2>1. \A k \in S : k \in Nat /\ b - k \in Nat
    OBVIOUS
  <2> QED BY <2>1
<1> HIDE DEF T
<1>2. PICK t \in T : \A u \in T : t <= u
  BY <1>1, LeastNatural, Zenon
<1>3. PICK m \in S : t = b - m
  BY DEF T
<1>4. \A k \in S : b - k \in T
  BY DEF T
<1>5. \A k \in S : k <= m
  BY <1>2, <1>3, <1>4
<1> QED BY <1>5

(* f starts with a and takes a step from each index to the next. *)
Runs(f, V, n, a, step) ==
  f \in [0..n -> V] /\ f[0] = a /\ \A i \in 1..n : f[i] = step[i][f[i - 1]]

(* Recursion: for any steps on the values V there is such a function. *)
LEMMA Recursion ==
  ASSUME NEW V, NEW a \in V, NEW n \in Nat, NEW step \in [1..n -> [V -> V]]
  PROVE  \E f : Runs(f, V, n, a, step)
<1> DEFINE Upto(f, k) == f[0] = a /\ \A i \in 1..k : f[i] = step[i][f[i - 1]]
           S == {k \in Nat : k <= n => \E f \in [0..k -> V] : Upto(f, k)}
<1>1. 0 \in S
  <2>1. [i \in 0..0 |-> a] \in [0..0 -> V] /\ Upto([i \in 0..0 |-> a], 0)
    OBVIOUS
  <2> QED BY <2>1, Zenon
<1>2. ASSUME NEW k \in Nat, k \in S PROVE k + 1 \in S
  <2> SUFFICES ASSUME k + 1 <= n PROVE \E f \in [0..(k + 1) -> V] : Upto(f, k + 1)
    OBVIOUS
  <2>1. PICK f \in [0..k -> V] : Upto(f, k)
    BY <1>2
  <2> DEFINE g == [i \in 0..(k + 1) |-> IF i <= k THEN f[i] ELSE step[k + 1][f[k]]]
  <2>2. step[k + 1][f[k]] \in V
    OBVIOUS
  <2>3. g \in [0..(k + 1) -> V]
    BY <2>2
  <2>4. g[0] = a
    BY <2>1
  <2>5. ASSUME NEW i \in 1..(k + 1) PROVE g[i] = step[i][g[i - 1]]
    <3>1. CASE i <= k
      <4>1. i \in 1..k /\ i - 1 \in 0..k /\ i \in 0..k
        BY <3>1
      <4>2. g[i] = f[i] /\ g[i - 1] = f[i - 1]
        BY <4>1
      <4> QED BY <2>1, <4>1, <4>2
    <3>2. CASE i = k + 1
      BY <3>2
    <3> QED BY <3>1, <3>2
  <2> QED BY <2>3, <2>4, <2>5, Zenon
<1> HIDE DEF S
<1>3. n \in S
  BY <1>1, <1>2, SetInduction
<1> QED BY <1>3 DEF S, Runs

(* f starts in V, and its steps stay in V. *)
Stays(f, V, n) == f[0] \in V /\ \A i \in 1..n : f[i - 1] \in V => f[i] \in V

(* Such a function has its values in V. *)
LEMMA RecursionStays ==
  ASSUME NEW V, NEW n \in Nat, NEW f, Stays(f, V, n)
  PROVE  \A i \in 0..n : f[i] \in V
<1> DEFINE S == {k \in Nat : k <= n => f[k] \in V}
<1>1. 0 \in S
  BY DEF Stays
<1>2. ASSUME NEW k \in Nat, k \in S PROVE k + 1 \in S
  <2>1. k + 1 <= n => k + 1 \in 1..n /\ f[k] \in V
    BY <1>2
  <2>2. (k + 1) - 1 = k
    OBVIOUS
  <2> QED BY <2>1, <2>2 DEF Stays
<1> HIDE DEF S
<1>3. Nat \subseteq S
  BY <1>1, <1>2, SetInduction
<1> QED BY <1>3 DEF S
-----------------------------------------------------------------------------
(* The function Cap is what its definition says: the capacity after i
   doublings, which is more than i. *)
LEMMA CapFacts ==
  /\ Cap = [i \in 0..(Limit + PipeSize) |-> IF i = 0 THEN 1 ELSE 2 * Cap[i - 1]]
  /\ \A i \in 0..(Limit + PipeSize) : Cap[i] \in Nat /\ Cap[i] > i
<1> DEFINE n == Limit + PipeSize
           Doubles(g) == g = [i \in 0..n |-> IF i = 0 THEN 1 ELSE 2 * g[i - 1]]
           step == [i \in 1..n |-> [v \in Nat |-> 2 * v]]
<1>1. n \in Nat
  BY ClipboardAssumption
<1>8. Doubles(Cap) <=> Cap = [i \in 0..(Limit + PipeSize) |-> IF i = 0 THEN 1 ELSE 2 * Cap[i - 1]]
  OBVIOUS
<1>9. Cap = CHOOSE g : Doubles(g)
  BY DEF Cap
<1> HIDE DEF n
<1>2. step \in [1..n -> [Nat -> Nat]]
  OBVIOUS
<1>3. \E f : Doubles(f)
  <2>1. \A i \in 1..n : \A v \in Nat : step[i][v] = 2 * v
    OBVIOUS
  <2> HIDE DEF step
  <2>2. PICK f : Runs(f, Nat, n, 1, step)
    BY <1>1, <1>2, Recursion, Zenon
  <2>3. ASSUME NEW i \in 1..n PROVE f[i] = 2 * f[i - 1]
    <3>1. i - 1 \in 0..n
      BY <1>1
    <3>2. f[i - 1] \in Nat
      BY <2>2, <3>1 DEF Runs
    <3> QED BY <2>1, <2>2, <3>2, Zenon DEF Runs
  <2>4. \A i \in 0..n : f[i] = IF i = 0 THEN 1 ELSE 2 * f[i - 1]
    BY <1>1, <2>2, <2>3 DEF Runs
  <2> QED BY <2>2, <2>4, Zenon DEF Runs
<1>4. Doubles(Cap)
  BY <1>9, <1>3, Zenon
<1>5. \A i \in 0..n : Cap[i] \in Nat /\ Cap[i] > i
  <2> DEFINE S == {k \in Nat : k <= n => Cap[k] \in Nat /\ Cap[k] > k}
  <2>1. 0 \in S
    BY <1>1, <1>4
  <2>2. ASSUME NEW k \in Nat, k \in S PROVE k + 1 \in S
    <3> SUFFICES ASSUME k + 1 <= n PROVE Cap[k + 1] \in Nat /\ Cap[k + 1] > k + 1
      OBVIOUS
    <3>1. Cap[k + 1] = 2 * Cap[k]
      BY <1>1, <1>4
    <3> QED BY <1>1, <2>2, <3>1
  <2> HIDE DEF S
  <2>3. Nat \subseteq S
    BY <2>1, <2>2, SetInduction
  <2> QED BY <1>1, <2>3 DEF S
<1> QED BY <1>8, <1>4, <1>5, Zenon DEF n

(* The capacity a buffer of n grows to is a natural above n. *)
LEMMA CapForFacts ==
  ASSUME NEW n \in 0..(Limit + PipeSize)
  PROVE  CapFor(n) \in Nat /\ CapFor(n) > n
<1> DEFINE S == {c \in Caps : c > n}
<1>1. \A c \in Caps : c \in Nat
  BY CapFacts DEF Caps
<1>2. Cap[n] \in S
  BY CapFacts DEF Caps
<1>3. CapFor(n) = CHOOSE x \in S : \A y \in S : x <= y
  BY DEF CapFor, Min
<1> HIDE DEF S
<1>4. \E m \in S : \A k \in S : m <= k
  <2>1. S \subseteq Nat /\ S # {}
    BY <1>1, <1>2 DEF S
  <2> QED BY <2>1, LeastNatural, Zenon
<1>5. CapFor(n) \in S
  BY <1>3, <1>4
<1> QED BY <1>1, <1>5 DEF S

(* Max of a bounded set of naturals is a member of it. *)
LEMMA MaxFacts ==
  ASSUME NEW S, S \subseteq Nat, S # {}, NEW b \in Nat, \A k \in S : k <= b
  PROVE  Max(S) \in S
<1>1. \E m \in S : \A k \in S : k <= m
  BY GreatestNatural, Zenon
<1>2. \E m \in S : \A k \in S : m >= k
  BY <1>1
<1> QED BY <1>2, Zenon DEF Max
-----------------------------------------------------------------------------
(* The list of mime types is a sequence. *)
LEMMA ListFacts ==
  /\ Len(MimeList) \in Nat
  /\ \A i \in 1..Len(MimeList) : MimeList[i] \in Mimes
  /\ \A m \in Mimes : \E i \in 1..Len(MimeList) : MimeList[i] = m
  /\ \A i, j \in 1..Len(MimeList) : MimeList[i] = MimeList[j] => i = j
<1>1. MimeList \in Seq(Mimes) /\ IsInjective(MimeList)
  BY ClipboardAssumption
<1>2. DOMAIN MimeList = 1..Len(MimeList) /\ Len(MimeList) \in Nat
  BY <1>1
<1>3. Mimes = {MimeList[i] : i \in 1..Len(MimeList)}
  BY <1>2 DEF Mimes, Range
<1> QED BY <1>1, <1>2, <1>3 DEF IsInjective

(* The running sum of sizes is what its definition says. *)
LEMMA RunningFacts ==
  ASSUME NEW k \in [Mimes -> Nat]
  PROVE  /\ Running(k)[0] = 0
         /\ \A i \in 1..Len(MimeList) :
              Running(k)[i] = Running(k)[i - 1] + k[MimeList[i]]
         /\ \A i \in 0..Len(MimeList) : Running(k)[i] \in Nat
<1> DEFINE n == Len(MimeList)
           Adds(g) == g = [i \in 0..n |-> IF i = 0 THEN 0 ELSE g[i - 1] + k[MimeList[i]]]
           step == [i \in 1..n |-> [v \in Nat |-> v + k[MimeList[i]]]]
           f == Running(k)
<1>1. n \in Nat /\ \A i \in 1..n : k[MimeList[i]] \in Nat
  BY ListFacts
<1>2. f = CHOOSE g : Adds(g)
  BY DEF Running
<1> HIDE DEF n, f
<1>3. step \in [1..n -> [Nat -> Nat]]
  BY <1>1
<1>4. \E g : Adds(g)
  <2>1. \A i \in 1..n : \A v \in Nat : step[i][v] = v + k[MimeList[i]]
    OBVIOUS
  <2> HIDE DEF step
  <2>2. PICK g : Runs(g, Nat, n, 0, step)
    BY <1>1, <1>3, Recursion, Zenon
  <2>3. ASSUME NEW i \in 1..n PROVE g[i] = g[i - 1] + k[MimeList[i]]
    <3>1. i - 1 \in 0..n
      BY <1>1
    <3>2. g[i - 1] \in Nat
      BY <2>2, <3>1 DEF Runs
    <3> QED BY <2>1, <2>2, <3>2, Zenon DEF Runs
  <2>4. \A i \in 0..n : g[i] = IF i = 0 THEN 0 ELSE g[i - 1] + k[MimeList[i]]
    BY <1>1, <2>2, <2>3 DEF Runs
  <2>5. g = [i \in 0..n |-> IF i = 0 THEN 0 ELSE g[i - 1] + k[MimeList[i]]]
    BY <2>2, <2>4 DEF Runs
  <2> QED BY <2>5, Zenon
<1>5. Adds(f)
  BY <1>2, <1>4, Zenon
<1>6. f[0] = 0 /\ \A i \in 1..n : f[i] = f[i - 1] + k[MimeList[i]]
  BY <1>1, <1>5
<1>7. \A i \in 0..n : f[i] \in Nat
  <2>1. Stays(f, Nat, n)
    BY <1>1, <1>6 DEF Stays
  <2> QED BY <1>1, <2>1, RecursionStays, Zenon
<1> QED BY <1>6, <1>7 DEF n, f

(* Changing one of the sizes changes the sum by as much. *)
LEMMA SumUpdate ==
  ASSUME NEW k \in [Mimes -> Nat], NEW m \in Mimes, NEW v \in Nat
  PROVE  /\ Sum(k) \in Nat /\ Sum([k EXCEPT ![m] = v]) \in Nat
         /\ Sum([k EXCEPT ![m] = v]) = Sum(k) - k[m] + v
<1> DEFINE n == Len(MimeList)
           l == [k EXCEPT ![m] = v]
           f == Running(k)
           g == Running(l)
<1>1. n \in Nat /\ l \in [Mimes -> Nat] /\ k[m] \in Nat
  BY ListFacts
<1>2. PICK p \in 1..n : MimeList[p] = m
  BY ListFacts
<1>3. \A i \in 1..n : l[MimeList[i]] = IF i = p THEN v ELSE k[MimeList[i]]
  BY <1>2, ListFacts
<1> HIDE DEF l
<1>4. /\ f[0] = 0 /\ g[0] = 0
      /\ \A i \in 1..n : f[i] = f[i - 1] + k[MimeList[i]]
      /\ \A i \in 1..n : g[i] = g[i - 1] + l[MimeList[i]]
      /\ \A i \in 0..n : f[i] \in Nat /\ g[i] \in Nat
  BY <1>1, RunningFacts
<1>5. Sum(k) = f[n] /\ Sum(l) = g[n]
  BY DEF Sum
<1> HIDE DEF n, f, g
<1> DEFINE S == {i \in Nat : i <= n => g[i] = IF i >= p THEN f[i] - k[m] + v ELSE f[i]}
<1>6. 0 \in S
  BY <1>2, <1>4
<1>7. ASSUME NEW i \in Nat, i \in S PROVE i + 1 \in S
  <2> SUFFICES ASSUME i + 1 <= n
               PROVE  g[i + 1] = IF i + 1 >= p THEN f[i + 1] - k[m] + v ELSE f[i + 1]
    OBVIOUS
  <2>1. i \in 0..n /\ i + 1 \in 1..n /\ (i + 1) - 1 = i
    BY <1>1
  <2>2. f[i] \in Nat /\ g[i] \in Nat
    BY <1>4, <2>1
  <2>3. f[i + 1] = f[i] + k[MimeList[i + 1]] /\ g[i + 1] = g[i] + l[MimeList[i + 1]]
    BY <1>4, <2>1
  <2>4. g[i] = IF i >= p THEN f[i] - k[m] + v ELSE f[i]
    BY <1>7, <2>1
  <2>5. k[MimeList[i + 1]] \in Nat
    BY <2>1, ListFacts DEF n
  <2>6. l[MimeList[i + 1]] = IF i + 1 = p THEN v ELSE k[MimeList[i + 1]]
    BY <1>3, <2>1
  <2>7. i + 1 = p => k[MimeList[i + 1]] = k[m]
    BY <1>2
  <2> QED BY <1>1, <2>2, <2>3, <2>4, <2>5, <2>6, <2>7
<1> HIDE DEF S
<1>8. n \in S
  BY <1>1, <1>6, <1>7, SetInduction
<1>9. g[n] = f[n] - k[m] + v
  BY <1>1, <1>8 DEF S
<1> QED BY <1>1, <1>4, <1>5, <1>9 DEF l

(* The sum is monotone. *)
LEMMA SumMonotone ==
  ASSUME NEW k \in [Mimes -> Nat], NEW l \in [Mimes -> Nat], \A m \in Mimes : k[m] <= l[m]
  PROVE  Sum(k) <= Sum(l)
<1> DEFINE n == Len(MimeList)
           f == Running(k)
           g == Running(l)
<1>1. n \in Nat /\ \A i \in 1..n : MimeList[i] \in Mimes
  BY ListFacts
<1>2. /\ f[0] = 0 /\ g[0] = 0
      /\ \A i \in 1..n : f[i] = f[i - 1] + k[MimeList[i]]
      /\ \A i \in 1..n : g[i] = g[i - 1] + l[MimeList[i]]
      /\ \A i \in 0..n : f[i] \in Nat /\ g[i] \in Nat
  BY RunningFacts
<1>3. Sum(k) = f[n] /\ Sum(l) = g[n]
  BY DEF Sum
<1> HIDE DEF n, f, g
<1> DEFINE S == {i \in Nat : i <= n => f[i] <= g[i]}
<1>4. 0 \in S
  BY <1>2
<1>5. ASSUME NEW i \in Nat, i \in S PROVE i + 1 \in S
  <2> SUFFICES ASSUME i + 1 <= n PROVE f[i + 1] <= g[i + 1]
    OBVIOUS
  <2>1. i \in 0..n /\ i + 1 \in 1..n /\ (i + 1) - 1 = i
    BY <1>1
  <2>2. f[i] \in Nat /\ g[i] \in Nat /\ f[i] <= g[i]
    BY <1>2, <1>5, <2>1
  <2>3. f[i + 1] = f[i] + k[MimeList[i + 1]] /\ g[i + 1] = g[i] + l[MimeList[i + 1]]
    BY <1>2, <2>1
  <2>4. /\ k[MimeList[i + 1]] \in Nat /\ l[MimeList[i + 1]] \in Nat
        /\ k[MimeList[i + 1]] <= l[MimeList[i + 1]]
    BY <1>1, <2>1
  <2> QED BY <2>2, <2>3, <2>4
<1> HIDE DEF S
<1>6. n \in S
  BY <1>1, <1>4, <1>5, SetInduction
<1> QED BY <1>1, <1>3, <1>6 DEF S

(* No size is more than the sum, and the sum of zeros is zero. *)
LEMMA SumBounds ==
  ASSUME NEW k \in [Mimes -> Nat]
  PROVE  /\ Sum(k) \in Nat
         /\ \A m \in Mimes : k[m] <= Sum(k)
         /\ (\A m \in Mimes : k[m] = 0) => Sum(k) = 0
<1>1. Sum(k) \in Nat
  BY RunningFacts, ListFacts DEF Sum
<1>2. ASSUME NEW m \in Mimes PROVE k[m] <= Sum(k)
  <2>1. Sum([k EXCEPT ![m] = 0]) \in Nat
        /\ Sum([k EXCEPT ![m] = 0]) = Sum(k) - k[m] + 0
    BY SumUpdate, Zenon
  <2> QED BY <1>1, <2>1
<1>3. ASSUME \A m \in Mimes : k[m] = 0 PROVE Sum(k) = 0
  <2> DEFINE f == Running(k)
             n == Len(MimeList)
  <2>1. /\ f[0] = 0 /\ \A i \in 1..n : f[i] = f[i - 1] + k[MimeList[i]]
        /\ n \in Nat /\ \A i \in 1..n : k[MimeList[i]] = 0
    BY <1>3, RunningFacts, ListFacts
  <2>2. Sum(k) = f[n]
    BY DEF Sum
  <2> HIDE DEF f, n
  <2>3. \A i \in 0..n : f[i] \in {0}
    <3>1. Stays(f, {0}, n)
      BY <2>1 DEF Stays
    <3> QED BY <2>1, <3>1, RecursionStays, Zenon
  <2> QED BY <2>1, <2>2, <2>3
<1> QED BY <1>1, <1>2, <1>3
-----------------------------------------------------------------------------
(* The inductive invariant.                                                *)

(* The buffers of the cache c. *)
Capacity(c) == [m \in Mimes |-> c.entry[m].cap]

(* The data of an entry fits its buffer; the pipe is closed when reading is
   over, and empty when all was read. *)
EntryOK(e) ==
  /\ e.size <= e.cap
  /\ e.st # "reading" => e.open = FALSE
  /\ e.st = "complete" => e.avail = 0

(* The cache c keeps its limit. *)
CacheOK(c) ==
  /\ c \in Caches
  /\ c.total <= Limit
  /\ Sum(Capacity(c)) <= c.total
  /\ \A m \in Mimes : EntryOK(c.entry[m])

(* The cache is of the last content a client put on the clipboard; it is not
   taken over twice. *)
CacheInv ==
  cache # NoCache =>
    /\ CacheOK(cache)
    /\ cache.id = lastCopy
    /\ cache.managed <=> seat = "up"
    /\ cache.install => cache.owned = FALSE

(* The idle callback is that of the cache. *)
IdleInv ==
  idle = {i \in 1..MaxCopies : cache # NoCache /\ cache.install /\ cache.id = i}

(* A selection has the number of a content, and one of the compositor's is
   newer than the last of a client. *)
SelInv ==
  /\ lastCopy <= copies
  /\ sel.by = "nobody" => sel.id = 0
  /\ sel.by # "nobody" => sel.id \in 1..copies
  /\ sel.by = "compositor" => lastCopy < sel.id

(* The transfer t is of a content put on the clipboard before, and of the cache
   only after it has taken over; it goes on only as long as the selection stays,
   and then to the end. *)
TransferOK(t) ==
  /\ t.id <= copies /\ t.off <= t.size
  /\ t.id = 0 => t = NoPaste
  /\ t.writing => sel.id = t.id
  /\ cache # NoCache /\ t.id = cache.id => cache.owned
  /\ t # NoPaste /\ ~t.writing /\ sel.id = t.id => t.off = t.size

PasteInv == \A r \in Readers : TransferOK(paste[r])

CInv == TypeOK /\ CacheInv /\ IdleInv /\ SelInv /\ PasteInv /\ OfferIsWhole
-----------------------------------------------------------------------------
(* Operations on a cache.                                                  *)

(* The cache c with entry e for m and the total t. *)
Changed(c, m, e, t) == [c EXCEPT !.total = t, !.entry[m] = e]

(* x is a later state of the entries of c. *)
Alike(x, c) ==
  x.id = c.id /\ x.owned = c.owned /\ x.install = c.install /\ x.managed = c.managed

(* The type of an entry, field by field. *)
LEMMA EntryType ==
  ASSUME NEW e \in Entries
  PROVE  /\ e.st \in {"none", "reading", "complete", "failed"}
         /\ e.size \in Nat /\ e.cap \in Nat /\ e.avail \in 0..PipeSize /\ e.left \in Nat
         /\ e.open \in BOOLEAN
BY DEF Entries

(* The type of a cache, field by field. *)
LEMMA CacheType ==
  ASSUME NEW c \in Caches
  PROVE  /\ c.id \in 1..MaxCopies /\ c.total \in Nat
         /\ c.owned \in BOOLEAN /\ c.install \in BOOLEAN /\ c.managed \in BOOLEAN
         /\ c.entry \in [Mimes -> Entries]
         /\ \A m \in Mimes : c.entry[m] \in Entries
         /\ Capacity(c) \in [Mimes -> Nat]
         /\ \A m \in Mimes : Capacity(c)[m] = c.entry[m].cap
         /\ c # NoCache
<1>1. /\ c.id \in 1..MaxCopies /\ c.total \in Nat
      /\ c.owned \in BOOLEAN /\ c.install \in BOOLEAN /\ c.managed \in BOOLEAN
      /\ c.entry \in [Mimes -> Entries]
  BY DEF Caches
<1>2. \A m \in Mimes : c.entry[m] \in Entries
  BY <1>1
<1>3. \A m \in Mimes : c.entry[m].cap \in Nat
  BY <1>2, EntryType
<1>4. c # NoCache
  BY NoCacheAssumption
<1> QED BY <1>1, <1>2, <1>3, <1>4 DEF Capacity

(* An entry of a cache has its buffer within the total. *)
LEMMA BufferFacts ==
  ASSUME NEW c, CacheOK(c), NEW m \in Mimes
  PROVE  /\ c.entry[m] \in Entries /\ EntryOK(c.entry[m])
         /\ c.entry[m].cap <= c.total
         /\ c.total \in Nat /\ c.total <= Limit /\ Limit \in Nat /\ PipeSize \in Nat
<1>1. c \in Caches /\ c.total <= Limit /\ Sum(Capacity(c)) <= c.total /\ EntryOK(c.entry[m])
  BY DEF CacheOK
<1>2. /\ Capacity(c) \in [Mimes -> Nat] /\ Capacity(c)[m] = c.entry[m].cap
      /\ c.total \in Nat /\ c.entry[m] \in Entries
  BY <1>1, CacheType
<1>3. Sum(Capacity(c)) \in Nat /\ Capacity(c)[m] <= Sum(Capacity(c))
  BY <1>2, SumBounds
<1>4. c.entry[m].cap \in Nat
  BY <1>2, EntryType
<1>5. Limit \in Nat /\ PipeSize \in Nat
  BY ClipboardAssumption
<1> QED BY <1>1, <1>2, <1>3, <1>4, <1>5

(* Changing one entry and the total by as much as its buffer keeps the limit
   (persist->total += cap - entry->cap). *)
LEMMA ChangedFacts ==
  ASSUME NEW c, CacheOK(c), NEW m \in Mimes, NEW e \in Entries, EntryOK(e),
         NEW t, t = c.total - c.entry[m].cap + e.cap, t <= Limit
  PROVE  CacheOK(Changed(c, m, e, t)) /\ Alike(Changed(c, m, e, t), c)
<1> DEFINE x == Changed(c, m, e, t)
<1>1. /\ c \in Caches /\ Sum(Capacity(c)) <= c.total
      /\ \A k \in Mimes : EntryOK(c.entry[k])
  BY DEF CacheOK
<1>2. /\ c.total \in Nat /\ c.entry \in [Mimes -> Entries]
      /\ Capacity(c) \in [Mimes -> Nat] /\ Capacity(c)[m] = c.entry[m].cap
  BY <1>1, CacheType
<1>3. c.entry[m].cap \in Nat /\ e.cap \in Nat /\ c.entry[m].cap <= c.total
  BY <1>2, EntryType, BufferFacts
<1>4. t \in Nat
  BY <1>2, <1>3
<1>5. x \in Caches
  BY <1>1, <1>4, Zenon DEF Changed, Caches
<1>6. x.total = t /\ x.entry = [c.entry EXCEPT ![m] = e] /\ Alike(x, c)
  BY <1>1 DEF Changed, Caches, Alike
<1> HIDE DEF x
<1>7. \A k \in Mimes : EntryOK(x.entry[k])
  BY <1>1, <1>2, <1>6
<1>8. Capacity(x) = [Capacity(c) EXCEPT ![m] = e.cap]
  BY <1>2, <1>6, Zenon DEF Capacity
<1>9. /\ Sum(Capacity(c)) \in Nat
      /\ Sum(Capacity(x)) = Sum(Capacity(c)) - Capacity(c)[m] + e.cap
  <2> DEFINE k == Capacity(c)
             v == e.cap
  <2>1. k \in [Mimes -> Nat] /\ v \in Nat /\ Capacity(x) = [k EXCEPT ![m] = v]
    BY <1>2, <1>3, <1>8
  <2> HIDE DEF k, v
  <2>2. Sum(k) \in Nat /\ Sum([k EXCEPT ![m] = v]) = Sum(k) - k[m] + v
    BY <2>1, SumUpdate, Zenon
  <2>3. Sum(k) \in Nat /\ Sum(Capacity(x)) = Sum(k) - k[m] + v
    BY <2>1, <2>2
  <2> QED BY <2>3 DEF k, v
<1>10. Sum(Capacity(x)) <= t
  BY <1>1, <1>2, <1>3, <1>9
<1>11. CacheOK(x)
  BY <1>5, <1>6, <1>7, <1>10 DEF CacheOK
<1> QED BY <1>6, <1>11 DEF x

(* A change of an entry that keeps its buffer. *)
LEMMA EntryChanged ==
  ASSUME NEW c, CacheOK(c), NEW m \in Mimes, NEW e \in Entries, EntryOK(e),
         e.cap = c.entry[m].cap
  PROVE  CacheOK([c EXCEPT !.entry[m] = e]) /\ Alike([c EXCEPT !.entry[m] = e], c)
<1>1. c.total \in Nat /\ c.total <= Limit /\ c.entry[m] \in Entries
  BY BufferFacts
<1>2. c.entry[m].cap \in Nat
  BY <1>1, EntryType
<1>3. c.total = c.total - c.entry[m].cap + e.cap
  BY <1>1, <1>2
<1>4. CacheOK(Changed(c, m, e, c.total)) /\ Alike(Changed(c, m, e, c.total), c)
  BY <1>1, <1>3, ChangedFacts
<1>5. c \in Caches
  BY DEF CacheOK
<1>6. [c EXCEPT !.total = c.total] = c
  BY <1>5 DEF Caches
<1>7. Changed(c, m, e, c.total) = [[c EXCEPT !.total = c.total] EXCEPT !.entry[m] = e]
  BY <1>5 DEF Changed, Caches
<1> QED BY <1>4, <1>6, <1>7, Zenon

(* persist_entry_drain keeps the limit, whether it reads all, meets the end of
   the data or gives up. *)
LEMMA DrainFacts ==
  ASSUME NEW c, CacheOK(c), NEW m \in Mimes
  PROVE  CacheOK(Drain(c, m)) /\ Alike(Drain(c, m), c)
<1> DEFINE e == c.entry[m]
           n == e.size + e.avail
           grown == {x \in Caps : x > e.cap /\ Allowed(c, e, x)}
           largest == Max(grown \cup {e.cap})
           cap == CapFor(n)
           failed == [e EXCEPT !.st = "failed", !.size = largest, !.cap = largest,
                               !.avail = 0, !.left = 0, !.open = FALSE]
           readTo == [e EXCEPT !.st = IF e.open THEN "reading" ELSE "complete",
                               !.size = n, !.cap = cap, !.avail = 0]
<1>1. /\ e \in Entries /\ EntryOK(e) /\ e.cap <= c.total
      /\ c.total \in Nat /\ c.total <= Limit /\ Limit \in Nat /\ PipeSize \in Nat
  BY BufferFacts
<1>2. /\ e.size \in Nat /\ e.cap \in Nat /\ e.avail \in 0..PipeSize /\ e.left \in Nat
      /\ e.open \in BOOLEAN /\ e.size <= e.cap
  BY <1>1, EntryType DEF EntryOK
<1>3. n \in 0..(Limit + PipeSize)
  BY <1>1, <1>2
<1>4. cap \in Nat /\ cap > n
  BY <1>3, CapForFacts
<1>5. largest \in Nat /\ c.total - e.cap + largest <= Limit
  <2> DEFINE S == grown \cup {e.cap}
  <2>1. \A x \in Caps : x \in Nat
    BY CapFacts DEF Caps
  <2>2. \A x \in S : x \in Nat /\ c.total - e.cap + x <= Limit
    BY <1>1, <1>2, <2>1 DEF Allowed
  <2>3. S \subseteq Nat /\ S # {} /\ \A x \in S : x <= Limit
    BY <1>1, <1>2, <2>2
  <2> HIDE DEF S
  <2>4. Max(S) \in S
    BY <1>1, <2>3, MaxFacts, Zenon
  <2>5. largest = Max(S)
    BY DEF S
  <2> QED BY <2>2, <2>4, <2>5
<1>6. /\ e.st # "reading" => Drain(c, m) = c
      /\ e.st = "reading" /\ cap > e.cap /\ ~Allowed(c, e, cap)
           => Drain(c, m) = [c EXCEPT !.total = @ - e.cap + largest, !.entry[m] = failed]
      /\ e.st = "reading" /\ ~(cap > e.cap /\ ~Allowed(c, e, cap))
           => Drain(c, m) = [c EXCEPT !.total = @ - e.cap + cap, !.entry[m] = readTo]
  BY Zenon DEF Drain
<1>7. failed \in Entries /\ failed.cap = largest /\ EntryOK(failed)
  <2> HIDE DEF largest, e, cap, n, grown, readTo
  <2>1. failed \in Entries
    <3>1. "failed" \in {"none", "reading", "complete", "failed"} /\ 0 \in 0..PipeSize
          /\ 0 \in Nat /\ FALSE \in BOOLEAN
      BY <1>1
    <3> QED BY <1>1, <1>5, <3>1, Zenon DEF Entries
  <2>2. /\ failed.cap = largest /\ failed.size = largest /\ failed.open = FALSE
        /\ failed.avail = 0
    BY <1>1 DEF Entries
  <2> QED BY <1>5, <2>1, <2>2 DEF EntryOK
<1>8. readTo \in Entries /\ readTo.cap = cap /\ EntryOK(readTo)
  <2> HIDE DEF cap, n, e, largest, grown, failed
  <2>1. readTo \in Entries
    <3>1. (IF e.open THEN "reading" ELSE "complete") \in {"none", "reading", "complete", "failed"}
          /\ 0 \in 0..PipeSize /\ n \in Nat
      BY <1>1, <1>3
    <3> QED BY <1>1, <1>4, <3>1, Zenon DEF Entries
  <2>2. /\ readTo.cap = cap /\ readTo.size = n /\ readTo.avail = 0 /\ readTo.open = e.open
        /\ readTo.st = IF e.open THEN "reading" ELSE "complete"
    BY <1>1 DEF Entries
  <2> QED BY <1>2, <1>3, <1>4, <2>1, <2>2 DEF EntryOK
<1>9. \A x, t : Changed(c, m, x, c.total - e.cap + t)
                 = [c EXCEPT !.total = @ - e.cap + t, !.entry[m] = x]
  BY DEF Changed
<1> HIDE DEF e, n, grown, largest, cap, failed, readTo
<1>10. CASE e.st # "reading"
  <2>1. c \in Caches
    BY DEF CacheOK
  <2> QED BY <1>6, <1>10 DEF Alike
<1>11. CASE e.st = "reading" /\ cap > e.cap /\ ~Allowed(c, e, cap)
  <2>1. Drain(c, m) = Changed(c, m, failed, c.total - e.cap + largest)
    BY <1>6, <1>9, <1>11, Zenon
  <2>2. c.total - e.cap + largest = c.total - c.entry[m].cap + failed.cap
    BY <1>7 DEF e
  <2> QED BY <1>5, <1>7, <2>1, <2>2, ChangedFacts, SMTT(30)
<1>12. CASE e.st = "reading" /\ ~(cap > e.cap /\ ~Allowed(c, e, cap))
  <2>1. Drain(c, m) = Changed(c, m, readTo, c.total - e.cap + cap)
    BY <1>6, <1>9, <1>12, Zenon
  <2>2. c.total - e.cap + cap = c.total - c.entry[m].cap + readTo.cap
    BY <1>8 DEF e
  <2>3. c.total - e.cap + cap <= Limit
    BY <1>1, <1>2, <1>4, <1>12 DEF Allowed
  <2> QED BY <1>8, <2>1, <2>2, <2>3, ChangedFacts, SMTT(30)
<1> QED BY <1>10, <1>11, <1>12

(* The loop of handle_install over the entries keeps the limit. *)
LEMMA DrainedFacts ==
  ASSUME NEW c, CacheOK(c)
  PROVE  /\ CacheOK(Drained(c)[Len(MimeList)])
         /\ Alike(Drained(c)[Len(MimeList)], c)
<1> DEFINE n == Len(MimeList)
           V == {x \in Caches : CacheOK(x) /\ Alike(x, c)}
           Steps(g) == g = [i \in 0..n |->
             IF i = 0 THEN c ELSE CHOOSE d \in {Drain(x, Round(i)) : x \in {g[i - 1]}} : TRUE]
           step == [i \in 1..n |-> [x \in V |-> Drain(x, Round(i))]]
           f == Drained(c)
<1>1. n \in Nat /\ \A i \in 1..n : Round(i) \in Mimes
  BY ListFacts DEF Round
<1>2. f = CHOOSE g : Steps(g)
  BY DEF Drained
<1>3. \A x, i : (CHOOSE d \in {Drain(y, Round(i)) : y \in {x}} : TRUE) = Drain(x, Round(i))
  OBVIOUS
<1>4. ASSUME NEW i \in 1..n, NEW x \in V PROVE Drain(x, Round(i)) \in V
  <2>1. CacheOK(Drain(x, Round(i))) /\ Alike(Drain(x, Round(i)), x)
    BY <1>1, DrainFacts
  <2>2. Drain(x, Round(i)) \in Caches
    BY <2>1 DEF CacheOK
  <2>3. Alike(Drain(x, Round(i)), c)
    BY <2>1 DEF Alike
  <2> QED BY <2>1, <2>2, <2>3
<1>5. c \in V
  BY DEF CacheOK, Alike
<1> HIDE DEF n, f, V
<1>6. step \in [1..n -> [V -> V]]
  BY <1>4
<1>7. \E g : Steps(g)
  <2>1. \A i \in 1..n : \A x \in V : step[i][x] = Drain(x, Round(i))
    OBVIOUS
  <2> HIDE DEF step
  <2>2. PICK g : Runs(g, V, n, c, step)
    BY <1>1, <1>5, <1>6, Recursion
  <2>3. ASSUME NEW i \in 1..n PROVE g[i] = Drain(g[i - 1], Round(i))
    <3>1. i - 1 \in 0..n
      BY <1>1
    <3>2. g[i - 1] \in V
      BY <2>2, <3>1 DEF Runs
    <3> QED BY <2>1, <2>2, <3>2 DEF Runs
  <2>4. \A i \in 0..n : g[i] = IF i = 0 THEN c
          ELSE CHOOSE d \in {Drain(x, Round(i)) : x \in {g[i - 1]}} : TRUE
    BY <1>1, <1>3, <2>2, <2>3 DEF Runs
  <2>5. g = [i \in 0..n |-> IF i = 0 THEN c
          ELSE CHOOSE d \in {Drain(x, Round(i)) : x \in {g[i - 1]}} : TRUE]
    BY <2>2, <2>4 DEF Runs
  <2> QED BY <2>5, Zenon
<1>8. Steps(f)
  BY <1>2, <1>7, Zenon
<1>9. f[0] = c /\ \A i \in 1..n : f[i] = Drain(f[i - 1], Round(i))
  BY <1>1, <1>3, <1>8
<1>10. Stays(f, V, n)
  BY <1>1, <1>4, <1>5, <1>9 DEF Stays
<1>11. f[n] \in V
  BY <1>1, <1>10, RecursionStays
<1> QED BY <1>11 DEF f, n, V

(* An entry that is offered by a selection that was taken over. *)
Whole(e) == e = NoEntry \/ (Usable(e) /\ e.avail = 0 /\ e.open = FALSE)

(* A destroyed entry is an entry. *)
LEMMA NoEntryFacts ==
  NoEntry \in Entries /\ EntryOK(NoEntry) /\ NoEntry.cap = 0 /\ Whole(NoEntry)
<1>1. 0 \in 0..PipeSize
  BY ClipboardAssumption
<1>2. NoEntry \in Entries
  BY <1>1 DEF NoEntry, Entries
<1>3. EntryOK(NoEntry) /\ NoEntry.cap = 0
  BY DEF NoEntry, EntryOK
<1> QED BY <1>2, <1>3 DEF Whole

(* The entries handle_install keeps were read to their end. *)
LEMMA HarvestFacts ==
  ASSUME NEW d, CacheOK(d)
  PROVE  /\ CacheOK(Harvest(d)) /\ Alike(Harvest(d), d)
         /\ \A m \in Mimes : Whole(Harvest(d).entry[m])
<1> DEFINE x == Harvest(d)
           kept == [m \in Mimes |-> IF Usable(d.entry[m]) THEN d.entry[m] ELSE NoEntry]
<1>1. /\ d \in Caches /\ d.total <= Limit /\ Sum(Capacity(d)) <= d.total
      /\ \A m \in Mimes : EntryOK(d.entry[m])
  BY DEF CacheOK
<1>2. /\ d.total \in Nat /\ \A m \in Mimes : d.entry[m] \in Entries
      /\ Capacity(d) \in [Mimes -> Nat]
      /\ \A m \in Mimes : Capacity(d)[m] = d.entry[m].cap
  BY <1>1, CacheType
<1>3. x = [d EXCEPT !.entry = kept]
  BY DEF Harvest
<1>4. ASSUME NEW m \in Mimes
      PROVE  /\ kept[m] \in Entries /\ EntryOK(kept[m]) /\ Whole(kept[m])
             /\ kept[m].cap <= d.entry[m].cap
  <2>1. d.entry[m].cap \in Nat
    BY <1>2, EntryType
  <2>2. CASE Usable(d.entry[m])
    <3>1. kept[m] = d.entry[m]
      BY <2>2
    <3>2. d.entry[m].avail = 0 /\ d.entry[m].open = FALSE
      BY <1>1, <2>2 DEF EntryOK, Usable
    <3> HIDE DEF kept
    <3> QED BY <1>1, <1>2, <2>1, <2>2, <3>1, <3>2 DEF Whole
  <2>3. CASE ~Usable(d.entry[m])
    <3>1. kept[m] = NoEntry
      BY <2>3
    <3> HIDE DEF kept
    <3> QED BY <2>1, <3>1, NoEntryFacts
  <2> QED BY <2>2, <2>3
<1>5. kept \in [Mimes -> Entries]
  BY <1>4
<1> HIDE DEF kept, x
<1>6. x \in Caches /\ x.entry = kept /\ x.total = d.total /\ Alike(x, d)
  BY <1>1, <1>3, <1>5 DEF Caches, Alike
<1>7. Capacity(x) \in [Mimes -> Nat] /\ \A m \in Mimes : Capacity(x)[m] = kept[m].cap
  BY <1>6, CacheType
<1>8. \A m \in Mimes : Capacity(x)[m] <= Capacity(d)[m]
  BY <1>2, <1>4, <1>7
<1>9. Sum(Capacity(x)) <= Sum(Capacity(d))
  BY <1>2, <1>7, <1>8, SumMonotone
<1>10. Sum(Capacity(x)) \in Nat /\ Sum(Capacity(d)) \in Nat
  BY <1>2, <1>7, SumBounds
<1>11. Sum(Capacity(x)) <= x.total
  BY <1>1, <1>2, <1>6, <1>9, <1>10
<1>12. CacheOK(x)
  BY <1>1, <1>4, <1>6, <1>11 DEF CacheOK
<1> QED BY <1>4, <1>6, <1>12 DEF x

(* A new cache has empty buffers. *)
LEMMA NewCacheFacts ==
  ASSUME NEW id \in 1..MaxCopies, NEW offers
  PROVE  NewCache(id, offers) # NoCache =>
           /\ CacheOK(NewCache(id, offers)) /\ NewCache(id, offers).id = id
           /\ NewCache(id, offers).owned = FALSE /\ NewCache(id, offers).install = FALSE
           /\ NewCache(id, offers).managed = TRUE
<1> DEFINE reading(m) == [NoEntry EXCEPT !.st = "reading", !.left = Length[m], !.open = TRUE]
           entry == [m \in Mimes |-> IF m \in offers THEN reading(m) ELSE NoEntry]
           x == [id |-> id, owned |-> FALSE, install |-> FALSE, managed |-> TRUE, total |-> 0,
                 entry |-> entry]
<1>1. SUFFICES ASSUME offers # {} PROVE NewCache(id, offers) = x /\ CacheOK(x)
  <2>1. offers = {} => NewCache(id, offers) = NoCache
    BY SMTT(30) DEF NewCache
  <2>2. /\ x.id = id /\ x.owned = FALSE /\ x.install = FALSE /\ x.managed = TRUE
    BY ZenonT(40)
  <2> HIDE DEF x
  <2> QED BY <2>1, <2>2
<1>2. NewCache(id, offers) = x
  BY <1>1, Zenon DEF NewCache
<1>3. ASSUME NEW m \in Mimes
      PROVE  entry[m] \in Entries /\ EntryOK(entry[m]) /\ entry[m].cap = 0
  <2>1. Length[m] \in Nat /\ 0 \in 0..PipeSize
    BY ClipboardAssumption
  <2>2. reading(m) \in Entries
    <3>1. "reading" \in {"none", "reading", "complete", "failed"} /\ TRUE \in BOOLEAN
      OBVIOUS
    <3> QED BY <2>1, <3>1, NoEntryFacts, Zenon DEF Entries
  <2>3. EntryOK(reading(m)) /\ reading(m).cap = 0
    <3>1. reading(m).cap = NoEntry.cap /\ reading(m).size = NoEntry.size
          /\ reading(m).st = "reading"
      BY NoEntryFacts DEF Entries
    <3>2. NoEntry.cap = 0 /\ NoEntry.size = 0
      BY DEF NoEntry
    <3> HIDE DEF reading
    <3> QED BY <3>1, <3>2 DEF EntryOK
  <2>4. entry[m] = IF m \in offers THEN reading(m) ELSE NoEntry
    BY SMTT(30)
  <2> HIDE DEF entry, reading
  <2> QED BY <2>2, <2>3, <2>4, NoEntryFacts
<1>4. entry \in [Mimes -> Entries]
  BY <1>3, Zenon
<1> HIDE DEF entry
<1>5. x \in Caches /\ x.entry = entry /\ x.total = 0
  BY <1>4 DEF Caches
<1> HIDE DEF x
<1>6. Capacity(x) \in [Mimes -> Nat] /\ \A m \in Mimes : Capacity(x)[m] = 0
  BY <1>3, <1>5, CacheType
<1>7. Sum(Capacity(x)) = 0
  BY <1>6, SumBounds
<1>8. CacheOK(x)
  BY <1>3, <1>5, <1>7, ClipboardAssumption DEF CacheOK
<1> QED BY <1>2, <1>8
-----------------------------------------------------------------------------
(* Operations on transfers.                                                *)

(* The smaller of two naturals. *)
LEMMA MinPair ==
  ASSUME NEW a \in Nat, NEW b \in Nat
  PROVE  Min({a, b}) \in {a, b} /\ Min({a, b}) <= a /\ Min({a, b}) <= b
<1>1. \E x \in {a, b} : \A y \in {a, b} : x <= y
  OBVIOUS
<1> QED BY <1>1 DEF Min

(* selection_writer_flush ends with the last byte, or has more to write. *)
LEMMA FlushFacts ==
  ASSUME NEW t \in Transfers, t.off <= t.size
  PROVE  /\ Flush(t) \in Transfers /\ Flush(t).id = t.id
         /\ Flush(t).off <= Flush(t).size
         /\ Flush(t).writing = FALSE => Flush(t).off = Flush(t).size
<1> DEFINE n == Min({t.size - t.off, PipeSize - t.buf})
<1>1. /\ t.size \in Nat /\ t.off \in Nat /\ t.buf \in 0..PipeSize /\ PipeSize \in Nat
      /\ t.writing \in BOOLEAN
  BY ClipboardAssumption DEF Transfers
<1>2. n \in Nat /\ n <= t.size - t.off /\ n <= PipeSize - t.buf
  BY <1>1, MinPair
<1>3. Flush(t) = [t EXCEPT !.off = @ + n, !.buf = @ + n, !.writing = (t.off + n < t.size)]
  BY DEF Flush
<1> HIDE DEF n
<1>4. t.off + n \in Nat /\ t.buf + n \in 0..PipeSize /\ t.off + n <= t.size
  BY <1>1, <1>2
<1>5. (t.off + n < t.size) \in BOOLEAN
  OBVIOUS
<1>6. /\ Flush(t).id = t.id /\ Flush(t).size = t.size /\ Flush(t).off = t.off + n
      /\ Flush(t).buf = t.buf + n
  BY <1>3 DEF Transfers
<1>7. Flush(t).writing = (t.off + n < t.size)
  BY <1>3, Zenon DEF Transfers
<1>8. Flush(t) \in Transfers
  BY <1>3, <1>4, <1>5, Zenon DEF Transfers
<1>9. Flush(t).writing = FALSE => t.off + n = t.size
  <2>1. Flush(t).writing = FALSE => ~(t.off + n < t.size)
    BY <1>7, Zenon
  <2> QED BY <1>1, <1>2, <1>4, <2>1
<1> QED BY <1>1, <1>4, <1>6, <1>8, <1>9

(* A reader without a transfer. *)
LEMMA NoPasteFacts ==
  /\ NoPaste \in Transfers /\ NoPaste.id = 0 /\ NoPaste.off = 0 /\ NoPaste.size = 0
  /\ NoPaste.writing = FALSE
<1>1. 0 \in 0..PipeSize /\ 0 \in 0..MaxCopies
  BY ClipboardAssumption
<1> QED BY <1>1 DEF NoPaste, Transfers

(* The transfer t is u, finished if it is of content id. *)
IsFinished(t, u, id) ==
  /\ u.id # id => t = u
  /\ u.id = id => t.writing = FALSE
  /\ u = NoPaste => t = NoPaste
  /\ t.id = u.id /\ t.size = u.size /\ t.off = u.off

(* selection_writers_finish ends the transfers of a content and changes
   nothing else. *)
LEMMA FinishedFacts ==
  ASSUME NEW p \in [Readers -> Transfers], NEW id
  PROVE  /\ Finished(p, id) \in [Readers -> Transfers]
         /\ \A r \in Readers : IsFinished(Finished(p, id)[r], p[r], id)
<1> DEFINE q == Finished(p, id)
<1>1. \A r \in Readers : q[r] = IF p[r].id = id THEN [p[r] EXCEPT !.writing = FALSE] ELSE p[r]
  BY DEF Finished
<1>2. ASSUME NEW r \in Readers
      PROVE  /\ [p[r] EXCEPT !.writing = FALSE] \in Transfers
             /\ [p[r] EXCEPT !.writing = FALSE].id = p[r].id
             /\ [p[r] EXCEPT !.writing = FALSE].size = p[r].size
             /\ [p[r] EXCEPT !.writing = FALSE].off = p[r].off
             /\ [p[r] EXCEPT !.writing = FALSE].writing = FALSE
  <2>1. p[r] \in Transfers
    OBVIOUS
  <2> QED BY <2>1, Zenon DEF Transfers
<1>3. [NoPaste EXCEPT !.writing = FALSE] = NoPaste
  <2>1. NoPaste.writing = FALSE
    BY DEF NoPaste
  <2> QED BY <2>1, NoPasteFacts DEF Transfers
<1>4. q \in [Readers -> Transfers]
  BY <1>2 DEF Finished
<1> HIDE DEF q
<1>5. ASSUME NEW r \in Readers
      PROVE  IsFinished(q[r], p[r], id)
  BY <1>1, <1>2, <1>3, Zenon DEF IsFinished
<1> QED BY <1>4, <1>5 DEF q
-----------------------------------------------------------------------------
(* What the steps have in common.                                          *)

(* The constants, and the variables' types one by one. *)
LEMMA Constants ==
  /\ Limit \in Nat /\ PipeSize \in Nat /\ MaxCopies \in Nat /\ ShotSize \in Nat
  /\ "persist" \notin Clients /\ "nobody" \notin Clients /\ "compositor" \notin Clients
BY ClipboardAssumption

(* A cache with the entries and the total of another keeps the limit. *)
LEMMA Relabelled ==
  ASSUME NEW c, CacheOK(c), NEW x \in Caches, x.total = c.total, x.entry = c.entry
  PROVE  CacheOK(x)
<1>1. Capacity(x) = Capacity(c)
  BY DEF Capacity
<1> QED BY <1>1 DEF CacheOK

(* When the cache goes, no idle callback is pending. *)
LEMMA NoneLeft ==
  ASSUME TypeOK, IdleInv
  PROVE  /\ WithoutInstall(idle, cache) = {}
         /\ cache = NoCache => idle = {}
         /\ cache # NoCache => cache.id \in 1..MaxCopies
         /\ cache # NoCache /\ ~cache.install => idle = {}
         /\ cache # NoCache /\ cache.install => idle = {cache.id}
<1>1. cache # NoCache => cache \in Caches
  BY DEF TypeOK
<1>2. cache # NoCache => cache.id \in 1..MaxCopies
  BY <1>1, CacheType
<1> QED BY <1>2 DEF WithoutInstall, IdleInv

(* The selection is replaced and its transfers are finished. *)
LEMMA Replaced ==
  ASSUME CInv, paste' = Finished(paste, sel.id), copies' \in Nat, copies <= copies',
         \A r \in Readers : paste[r] # NoPaste => paste[r].id # sel'.id,
         cache' # NoCache => \A r \in Readers : paste[r].id = cache'.id => cache'.owned
  PROVE  PasteInv' /\ paste' \in [Readers -> Transfers]
<1>1. paste \in [Readers -> Transfers] /\ copies \in Nat
  BY DEF CInv, TypeOK
<1>2. paste' \in [Readers -> Transfers]
  BY <1>1, FinishedFacts
<1>3. ASSUME NEW r \in Readers PROVE TransferOK(paste[r])'
  <2>9. IsFinished(paste'[r], paste[r], sel.id)
    BY <1>1, FinishedFacts
  <2>1. /\ paste[r].id # sel.id => paste'[r] = paste[r]
        /\ paste[r].id = sel.id => paste'[r].writing = FALSE
        /\ paste[r] = NoPaste => paste'[r] = NoPaste
        /\ paste'[r].id = paste[r].id
        /\ paste'[r].size = paste[r].size
        /\ paste'[r].off = paste[r].off
    BY <2>9 DEF IsFinished
  <2>2. TransferOK(paste[r])
    BY DEF CInv, PasteInv
  <2>3. paste[r].id \in Nat /\ paste[r] \in Transfers
    BY <1>1 DEF Transfers
  <2>4. paste'[r].id <= copies' /\ paste'[r].off <= paste'[r].size
    BY <1>1, <2>1, <2>2, <2>3 DEF TransferOK
  <2>5. paste'[r].id = 0 => paste'[r] = NoPaste
    BY <2>1, <2>2 DEF TransferOK
  <2>6. ~paste'[r].writing
    <3>1. CASE paste[r].id = sel.id
      BY <2>1, <3>1
    <3>2. CASE paste[r].id # sel.id
      BY <2>1, <2>2, <3>2 DEF TransferOK
    <3> QED BY <3>1, <3>2
  <2>7. cache' # NoCache /\ paste'[r].id = cache'.id => cache'.owned
    BY <2>1, Zenon
  <2>8. paste'[r] # NoPaste => sel'.id # paste'[r].id
    BY <2>1
  <2> QED BY <2>4, <2>5, <2>6, <2>7, <2>8 DEF TransferOK
<1> QED BY <1>2, <1>3 DEF PasteInv

(* Only entries of a cache that has not taken over change. *)
LEMMA EntriesStep ==
  ASSUME CInv, cache # NoCache, CacheOK(cache'), Alike(cache', cache), sel.by # "persist",
         UNCHANGED <<sel, idle, alive, seat, paste, copies, lastCopy>>
  PROVE  CInv'
<1>1. cache' \in Caches /\ cache' # NoCache
  BY CacheType DEF CacheOK
<1>2. /\ cache'.id = cache.id /\ cache'.owned = cache.owned /\ cache'.install = cache.install
      /\ cache'.managed = cache.managed
  BY DEF Alike
<1>3. TypeOK'
  BY <1>1 DEF CInv, TypeOK
<1>4. CacheInv'
  BY <1>1, <1>2 DEF CInv, CacheInv
<1>5. IdleInv'
  BY <1>1, <1>2 DEF CInv, IdleInv
<1>6. SelInv'
  BY DEF CInv, SelInv
<1>7. PasteInv'
  BY <1>1, <1>2 DEF CInv, PasteInv, TransferOK
<1>8. OfferIsWhole'
  BY DEF OfferIsWhole
<1> QED BY <1>3, <1>4, <1>5, <1>6, <1>7, <1>8 DEF CInv

(* Only the transfer of one reader changes. *)
LEMMA TransferStep ==
  ASSUME CInv, NEW r \in Readers, NEW t \in Transfers, TransferOK(t),
         paste' = [paste EXCEPT ![r] = t],
         UNCHANGED <<sel, cache, idle, alive, seat, copies, lastCopy>>
  PROVE  CInv'
<1>1. paste \in [Readers -> Transfers]
  BY DEF CInv, TypeOK
<1>2. paste' \in [Readers -> Transfers]
  BY <1>1
<1>3. \A q \in Readers : paste'[q] = IF q = r THEN t ELSE paste[q]
  BY <1>1
<1>4. PasteInv'
  <2> SUFFICES ASSUME NEW q \in Readers PROVE TransferOK(paste[q])'
    BY DEF PasteInv
  <2>1. TransferOK(paste[q])
    BY DEF CInv, PasteInv
  <2>2. CASE q = r
    BY <1>3, <2>2 DEF TransferOK
  <2>3. CASE q # r
    BY <1>3, <2>1, <2>3 DEF TransferOK
  <2> QED BY <2>2, <2>3
<1>5. TypeOK'
  BY <1>2 DEF CInv, TypeOK
<1>6. CacheInv' /\ IdleInv' /\ SelInv' /\ OfferIsWhole'
  BY DEF CInv, CacheInv, IdleInv, SelInv, OfferIsWhole
<1> QED BY <1>4, <1>5, <1>6 DEF CInv
-----------------------------------------------------------------------------
(* One lemma per action, in the order of Next.                             *)

(* Before a takeover no entry is closed for good: while one is read or open the
   selection is not the cache's. *)
LEMMA StillReading ==
  ASSUME CInv, cache # NoCache, NEW m \in Mimes,
         cache.entry[m].st = "reading" \/ cache.entry[m].open
  PROVE  sel.by # "persist"
<1>1. cache.entry[m] # NoEntry
  BY DEF NoEntry
<1>2. ~Usable(cache.entry[m]) \/ cache.entry[m].open
  BY DEF Usable
<1> QED BY <1>1, <1>2 DEF CInv, OfferIsWhole

(* handle_readable. *)
LEMMA ReadableStep ==
  ASSUME CInv, NEW m \in Mimes, Readable(m)
  PROVE  CInv'
<1>1. /\ cache # NoCache /\ cache.entry[m].st = "reading" /\ cache' = Drain(cache, m)
      /\ UNCHANGED <<sel, idle, alive, seat, paste, copies, lastCopy>>
  BY DEF Readable, Ready
<1>2. CacheOK(cache)
  BY <1>1 DEF CInv, CacheInv
<1>3. CacheOK(cache') /\ Alike(cache', cache)
  BY <1>1, <1>2, DrainFacts
<1> QED BY <1>1, <1>3, StillReading, EntriesStep

(* An entry e of the cache changes into x, with the same buffer. *)
LEMMA EntryStep ==
  ASSUME CInv, cache # NoCache, NEW m \in Mimes, sel.by # "persist", NEW x \in Entries,
         EntryOK(x), x.cap = cache.entry[m].cap, cache' = [cache EXCEPT !.entry[m] = x],
         UNCHANGED <<sel, idle, alive, seat, paste, copies, lastCopy>>
  PROVE  CInv'
<1>1. CacheOK(cache)
  BY DEF CInv, CacheInv
<1>2. CacheOK(cache') /\ Alike(cache', cache)
  BY <1>1, EntryChanged
<1> QED BY <1>2, EntriesStep

(* handle_readable, failing. *)
LEMMA ReadableFailsStep ==
  ASSUME CInv, NEW m \in Mimes, ReadableFails(m)
  PROVE  CInv'
<1> DEFINE e == cache.entry[m]
           x == [e EXCEPT !.st = "failed", !.avail = 0, !.left = 0, !.open = FALSE]
<1>1. /\ cache # NoCache /\ e.st = "reading"
      /\ cache' = [cache EXCEPT !.entry[m] = [@ EXCEPT !.st = "failed", !.avail = 0,
                                                       !.left = 0, !.open = FALSE]]
      /\ UNCHANGED <<sel, idle, alive, seat, paste, copies, lastCopy>>
  BY DEF ReadableFails, Ready
<1>2. CacheOK(cache) /\ cache \in Caches
  BY <1>1 DEF CInv, CacheInv, CacheOK
<1>3. e \in Entries /\ EntryOK(e)
  BY <1>2, BufferFacts
<1>4. cache' = [cache EXCEPT !.entry[m] = x]
  BY <1>1, <1>2, Zenon
<1> HIDE DEF e
<1>5. x \in Entries
  <2>1. /\ "failed" \in {"none", "reading", "complete", "failed"}
        /\ 0 \in 0..PipeSize /\ 0 \in Nat /\ FALSE \in BOOLEAN
    BY Constants
  <2> QED BY <1>3, <2>1, Zenon DEF Entries
<1>6. x.cap = e.cap /\ x.size = e.size /\ x.st = "failed" /\ x.open = FALSE /\ x.avail = 0
  BY <1>3 DEF Entries
<1> HIDE DEF x
<1>7. EntryOK(x)
  BY <1>3, <1>6 DEF EntryOK
<1>8. sel.by # "persist"
  BY <1>1, StillReading DEF e
<1> QED BY <1>1, <1>4, <1>5, <1>6, <1>7, <1>8, EntryStep DEF e

(* A client writes to its pipe. *)
LEMMA WriteStep ==
  ASSUME CInv, NEW m \in Mimes, Write(m)
  PROVE  CInv'
<1> DEFINE e == cache.entry[m]
           x == [e EXCEPT !.left = @ - 1, !.avail = @ + 1]
<1>1. /\ cache # NoCache /\ e.open /\ e.left > 0 /\ e.avail < PipeSize
      /\ cache' = [cache EXCEPT !.entry[m].left = @ - 1, !.entry[m].avail = @ + 1]
      /\ UNCHANGED <<sel, idle, alive, seat, paste, copies, lastCopy>>
  BY DEF Write
<1>2. CacheOK(cache) /\ cache \in Caches
  BY <1>1 DEF CInv, CacheInv, CacheOK
<1>3. e \in Entries /\ EntryOK(e) /\ cache.entry \in [Mimes -> Entries]
  BY <1>2, BufferFacts, CacheType
<1>4. cache' = [cache EXCEPT !.entry[m] = x]
  BY <1>1, <1>2, <1>3, Zenon DEF Caches, Entries
<1> HIDE DEF e
<1>5. e.left - 1 \in Nat /\ e.avail + 1 \in 0..PipeSize
  BY <1>1, <1>3, EntryType, Constants
<1>6. x \in Entries
  BY <1>3, <1>5, Zenon DEF Entries
<1>7. x.cap = e.cap /\ x.size = e.size /\ x.st = e.st /\ x.open = e.open
  BY <1>3 DEF Entries
<1> HIDE DEF x
<1>8. e.st = "reading"
  BY <1>1, <1>3 DEF EntryOK
<1>9. EntryOK(x)
  BY <1>3, <1>7, <1>8 DEF EntryOK
<1>10. sel.by # "persist"
  BY <1>1, StillReading DEF e
<1> QED BY <1>1, <1>4, <1>6, <1>7, <1>9, <1>10, EntryStep, Zenon DEF e

(* A client closes its pipe. *)
LEMMA CloseEndStep ==
  ASSUME CInv, NEW m \in Mimes, CloseEnd(m)
  PROVE  CInv'
<1> DEFINE e == cache.entry[m]
           x == [e EXCEPT !.left = 0, !.open = FALSE]
<1>1. /\ cache # NoCache /\ e.open
      /\ cache' = [cache EXCEPT !.entry[m].left = 0, !.entry[m].open = FALSE]
      /\ UNCHANGED <<sel, idle, alive, seat, paste, copies, lastCopy>>
  BY DEF CloseEnd
<1>2. CacheOK(cache) /\ cache \in Caches
  BY <1>1 DEF CInv, CacheInv, CacheOK
<1>3. e \in Entries /\ EntryOK(e) /\ cache.entry \in [Mimes -> Entries]
  BY <1>2, BufferFacts, CacheType
<1>4. cache' = [cache EXCEPT !.entry[m] = x]
  BY <1>1, <1>2, <1>3, Zenon DEF Caches, Entries
<1> HIDE DEF e
<1>5. x \in Entries
  <2>1. 0 \in Nat /\ FALSE \in BOOLEAN
    OBVIOUS
  <2> QED BY <1>3, <2>1, Zenon DEF Entries
<1>6. x.cap = e.cap /\ x.size = e.size /\ x.st = e.st /\ x.open = FALSE /\ x.avail = e.avail
  BY <1>3 DEF Entries
<1> HIDE DEF x
<1>7. EntryOK(x)
  BY <1>3, <1>6 DEF EntryOK
<1>8. sel.by # "persist"
  BY <1>1, StillReading DEF e
<1> QED BY <1>1, <1>4, <1>5, <1>6, <1>7, <1>8, EntryStep, Zenon DEF e

(* Every transfer is of a content that was put on the clipboard. *)
LEMMA TransferIds ==
  ASSUME CInv
  PROVE  /\ copies \in 0..MaxCopies /\ lastCopy \in 0..MaxCopies /\ lastCopy <= copies
         /\ \A r \in Readers : paste[r].id \in Nat /\ paste[r].id <= copies
         /\ \A r \in Readers : paste[r] # NoPaste => paste[r].id # 0
         /\ \A r \in Readers : paste[r].id # copies + 1
<1>1. copies \in 0..MaxCopies /\ lastCopy \in 0..MaxCopies /\ lastCopy <= copies
  BY DEF CInv, TypeOK, SelInv
<1>2. ASSUME NEW r \in Readers
      PROVE  paste[r].id \in Nat /\ paste[r].id <= copies /\ (paste[r].id = 0 => paste[r] = NoPaste)
  <2>1. paste[r] \in Transfers /\ TransferOK(paste[r])
    BY DEF CInv, TypeOK, PasteInv
  <2>2. paste[r].id \in 0..MaxCopies
    BY <2>1 DEF Transfers
  <2> QED BY <2>1, <2>2 DEF TransferOK
<1>3. copies \in Nat
  BY <1>1
<1>4. \A r \in Readers : paste[r].id # copies + 1
  BY <1>2, <1>3
<1> QED BY <1>1, <1>2, <1>4

(* handle_request_set_selection. *)
LEMMA CopyStep ==
  ASSUME CInv, NEW c \in Clients, NEW offers, Copy(c, offers)
  PROVE  CInv'
<1> DEFINE id == copies + 1
           new == NewCache(id, offers)
<1>1. /\ seat = "up" /\ seat' = "up" /\ copies < MaxCopies /\ copies' = id /\ lastCopy' = id
      /\ sel' = [by |-> c, id |-> id] /\ paste' = Finished(paste, sel.id) /\ cache' = new
      /\ idle' = WithoutInstall(idle, cache) /\ alive' = alive
  BY DEF Copy, Recached
<1>2. /\ copies \in 0..MaxCopies /\ \A r \in Readers : paste[r].id # id
      /\ id \in 1..MaxCopies
  BY <1>1, TransferIds, Constants
<1> HIDE DEF id
<1>3. new # NoCache =>
        /\ CacheOK(new) /\ new.id = id /\ new.owned = FALSE /\ new.install = FALSE
        /\ new.managed = TRUE
  BY <1>2, NewCacheFacts, Zenon
<1> HIDE DEF new
<1>4. idle' = {}
  BY <1>1, NoneLeft DEF CInv
<1>5. copies <= id /\ id \in Nat
  BY <1>2 DEF id
<1>6. PasteInv' /\ paste' \in [Readers -> Transfers]
  BY <1>1, <1>2, <1>3, <1>5, Replaced
<1>7. new # NoCache => new \in Caches
  BY <1>3 DEF CacheOK
<1>8. TypeOK'
  BY <1>1, <1>2, <1>4, <1>6, <1>7 DEF CInv, TypeOK
<1>9. CacheInv'
  BY <1>1, <1>3 DEF CacheInv
<1>10. IdleInv'
  BY <1>1, <1>3, <1>4 DEF IdleInv
<1>11. SelInv'
  BY <1>1, <1>2, <1>5, Constants DEF SelInv
<1>12. OfferIsWhole'
  BY <1>1, Constants DEF OfferIsWhole
<1> QED BY <1>6, <1>8, <1>9, <1>10, <1>11, <1>12 DEF CInv

(* seat_set_selection_data. *)
LEMMA ScreenshotStep ==
  ASSUME CInv, Screenshot
  PROVE  CInv'
<1> DEFINE id == copies + 1
<1>1. /\ copies < MaxCopies /\ copies' = id
      /\ sel' = [by |-> "compositor", id |-> id] /\ paste' = Finished(paste, sel.id)
      /\ alive' = alive /\ seat' = seat /\ lastCopy' = lastCopy
      /\ IF sel.by = "persist"
         THEN cache' = NoCache /\ idle' = WithoutInstall(idle, cache)
         ELSE cache' = cache /\ idle' = idle
  BY DEF Screenshot
<1>2. /\ copies \in 0..MaxCopies /\ \A r \in Readers : paste[r].id # id
      /\ id \in 1..MaxCopies /\ lastCopy < id /\ copies <= id /\ id \in Nat
      /\ lastCopy \in 0..MaxCopies
  BY <1>1, TransferIds, Constants
<1> HIDE DEF id
<1>3. cache' # NoCache => cache' = cache /\ idle' = idle
  BY <1>1
<1>4. cache' = NoCache => idle' = {}
  BY <1>1, NoneLeft DEF CInv
<1>5. cache # NoCache => \A r \in Readers : paste[r].id = cache.id => cache.owned
  BY DEF CInv, PasteInv, TransferOK
<1>6. PasteInv' /\ paste' \in [Readers -> Transfers]
  BY <1>1, <1>2, <1>3, <1>5, Replaced
<1>7. TypeOK'
  <2>1. idle' \subseteq 1..MaxCopies /\ cache' \in Caches \cup {NoCache}
    BY <1>3, <1>4, Zenon DEF CInv, TypeOK
  <2> QED BY <1>1, <1>2, <1>6, <2>1 DEF CInv, TypeOK
<1>8. CacheInv'
  BY <1>1, <1>3 DEF CInv, CacheInv
<1>9. IdleInv'
  BY <1>3, <1>4 DEF CInv, IdleInv
<1>10. SelInv'
  BY <1>1, <1>2 DEF SelInv
<1>11. OfferIsWhole'
  BY <1>1 DEF OfferIsWhole
<1> QED BY <1>6, <1>7, <1>8, <1>9, <1>10, <1>11 DEF CInv

(* handle_set_selection without a source. *)
LEMMA EmptiedStep ==
  ASSUME CInv, Emptied, alive' \subseteq Clients, UNCHANGED <<seat, copies, lastCopy>>
  PROVE  CInv'
<1> DEFINE new == [cache EXCEPT !.install = TRUE]
<1>1. /\ sel' = NoSelection /\ paste' = Finished(paste, sel.id)
      /\ \/ cache' = NoCache /\ idle' = WithoutInstall(idle, cache)
         \/ Schedulable(cache) /\ cache' = new /\ idle' = idle \cup {cache.id}
         \/ cache' = cache /\ idle' = idle
  BY DEF Emptied
<1>2. sel'.by = "nobody" /\ sel'.id = 0
  BY <1>1 DEF NoSelection
<1>3. Schedulable(cache) =>
        /\ CacheOK(new) /\ new # NoCache /\ new.id = cache.id /\ new.owned = cache.owned
        /\ new.install = TRUE /\ new.managed = cache.managed
        /\ cache # NoCache /\ ~cache.owned /\ ~cache.install
  <2> SUFFICES ASSUME Schedulable(cache)
               PROVE  /\ CacheOK(new) /\ new # NoCache /\ new.id = cache.id
                      /\ new.owned = cache.owned
                      /\ new.install = TRUE /\ new.managed = cache.managed
    BY DEF Schedulable
  <2>1. cache # NoCache /\ CacheOK(cache) /\ cache \in Caches
    BY DEF Schedulable, CInv, CacheInv, CacheOK
  <2>2. new \in Caches
    <3>1. TRUE \in BOOLEAN
      OBVIOUS
    <3> QED BY <2>1, <3>1, Zenon DEF Caches
  <2>3. /\ new.id = cache.id /\ new.owned = cache.owned /\ new.install = TRUE
        /\ new.managed = cache.managed /\ new.total = cache.total /\ new.entry = cache.entry
    BY <2>1 DEF Caches
  <2> HIDE DEF new
  <2> QED BY <2>1, <2>2, <2>3, Relabelled, CacheType
<1> HIDE DEF new
<1>4. cache # NoCache => \A r \in Readers : paste[r].id = cache.id => cache.owned
  BY DEF CInv, PasteInv, TransferOK
<1>5. cache' # NoCache => cache # NoCache /\ cache'.id = cache.id /\ cache'.owned = cache.owned
  BY <1>1, <1>3
<1>6. PasteInv' /\ paste' \in [Readers -> Transfers]
  <2>1. \A r \in Readers : paste[r] # NoPaste => paste[r].id # sel'.id
    BY <1>2, TransferIds
  <2>2. copies' \in Nat /\ copies <= copies'
    BY TransferIds
  <2>3. cache' # NoCache => \A r \in Readers : paste[r].id = cache'.id => cache'.owned
    BY <1>4, <1>5
  <2> QED BY <1>1, <2>1, <2>2, <2>3, Replaced
<1>7. TypeOK' /\ CacheInv' /\ IdleInv'
  <2>1. CASE cache' = NoCache /\ idle' = WithoutInstall(idle, cache)
    <3>1. idle' = {}
      BY <2>1, NoneLeft DEF CInv
    <3>2. TypeOK'
      BY <1>1, <1>6, <2>1, <3>1, Constants DEF CInv, TypeOK, NoSelection
    <3> QED BY <2>1, <3>1, <3>2 DEF CacheInv, IdleInv
  <2>2. CASE Schedulable(cache) /\ cache' = new /\ idle' = idle \cup {cache.id}
    <3>1. idle' = {cache.id} /\ cache.id \in 1..MaxCopies
      BY <1>3, <2>2, NoneLeft DEF CInv
    <3>2. cache' \in Caches
      BY <1>3, <2>2 DEF CacheOK
    <3>3. TypeOK'
      BY <1>1, <1>6, <3>1, <3>2, Constants DEF CInv, TypeOK, NoSelection
    <3>4. CacheInv'
      <4>1. cache.owned \in BOOLEAN
        BY <1>3, <2>2, CacheType DEF CInv, TypeOK
      <4> QED BY <1>3, <2>2, <4>1 DEF CInv, CacheInv
    <3>5. IdleInv'
      BY <1>3, <2>2, <3>1 DEF IdleInv
    <3> QED BY <3>3, <3>4, <3>5
  <2>3. CASE cache' = cache /\ idle' = idle
    <3>1. TypeOK'
      BY <1>1, <1>6, <2>3, Constants DEF CInv, TypeOK, NoSelection
    <3> QED BY <2>3, <3>1 DEF CInv, CacheInv, IdleInv
  <2> QED BY <1>1, <2>1, <2>2, <2>3
<1>8. SelInv'
  BY <1>2 DEF CInv, SelInv
<1>9. OfferIsWhole'
  BY <1>2 DEF OfferIsWhole
<1> QED BY <1>6, <1>7, <1>8, <1>9 DEF CInv

(* A client empties the selection. *)
LEMMA ClearStep ==
  ASSUME CInv, Clear
  PROVE  CInv'
BY EmptiedStep DEF Clear, CInv, TypeOK

(* A client disconnects, and its selection goes with it. *)
LEMMA DisconnectStep ==
  ASSUME CInv, NEW c \in Clients, Disconnect(c)
  PROVE  CInv'
<1>1. alive' \subseteq Clients /\ UNCHANGED <<seat, copies, lastCopy>>
  BY DEF Disconnect, CInv, TypeOK
<1>2. CASE Emptied
  BY <1>1, <1>2, EmptiedStep, SMTT(30)
<1>3. CASE UNCHANGED <<sel, cache, idle, paste>>
  BY <1>1, <1>3 DEF CInv, TypeOK, CacheInv, IdleInv, SelInv, PasteInv, TransferOK, OfferIsWhole
<1> QED BY <1>2, <1>3 DEF Disconnect

(* handle_install. *)
LEMMA InstallStep ==
  ASSUME CInv, Install
  PROVE  CInv'
<1>1. /\ seat = "up" /\ cache # NoCache /\ cache.id \in idle /\ idle' = idle \ {cache.id}
      /\ alive' = alive /\ seat' = seat /\ copies' = copies /\ lastCopy' = lastCopy
  BY DEF Install
<1>2. /\ CacheOK(cache) /\ cache \in Caches /\ cache.id = lastCopy
      /\ (cache.managed <=> seat = "up")
      /\ (cache.install => cache.owned = FALSE)
  BY <1>1 DEF CInv, CacheInv, CacheOK
<1>3. cache.install /\ idle' = {} /\ cache.id \in 1..MaxCopies
  BY <1>1, NoneLeft DEF CInv
<1>4. cache.owned = FALSE
  BY <1>2, <1>3
<1>5. ASSUME NEW c, CacheOK(c), Alike(c, cache)
      PROVE  /\ CacheOK(Uninstalled(c)) /\ Uninstalled(c) # NoCache
             /\ Uninstalled(c).id = cache.id /\ Uninstalled(c).owned = cache.owned
             /\ Uninstalled(c).install = FALSE /\ Uninstalled(c).managed = cache.managed
             /\ Uninstalled(c).entry = c.entry /\ Uninstalled(c).total = c.total
             /\ Uninstalled(c) \in Caches
  <2>1. c \in Caches
    BY <1>5 DEF CacheOK
  <2>2. Uninstalled(c) \in Caches
    <3>1. FALSE \in BOOLEAN
      OBVIOUS
    <3> QED BY <2>1, <3>1, Zenon DEF Caches, Uninstalled
  <2>3. /\ Uninstalled(c).id = c.id /\ Uninstalled(c).owned = c.owned
        /\ Uninstalled(c).install = FALSE /\ Uninstalled(c).managed = c.managed
        /\ Uninstalled(c).entry = c.entry /\ Uninstalled(c).total = c.total
    BY <2>1 DEF Caches, Uninstalled
  <2> QED BY <1>5, <2>2, <2>3, Relabelled, CacheType DEF Alike
<1>6. CASE Taken
  <2>1. cache' = Uninstalled(cache) /\ sel' = sel /\ paste' = paste
    BY <1>6 DEF Install
  <2>2. Alike(cache, cache)
    BY DEF Alike
  <2>3. /\ CacheOK(cache') /\ cache' # NoCache /\ cache'.id = cache.id
        /\ cache'.owned = cache.owned /\ cache'.install = FALSE
        /\ cache'.managed = cache.managed /\ cache'.entry = cache.entry /\ cache' \in Caches
    BY <1>2, <1>5, <2>1, <2>2, Zenon
  <2>4. TypeOK'
    BY <1>1, <1>3, <2>1, <2>3, Zenon DEF CInv, TypeOK
  <2>5. CacheInv' /\ IdleInv'
    BY <1>1, <1>2, <1>3, <1>4, <2>3 DEF CacheInv, IdleInv
  <2>6. SelInv'
    BY <1>1, <2>1 DEF CInv, SelInv
  <2>7. PasteInv'
    BY <1>1, <2>1, <2>3, SMTT(30) DEF CInv, PasteInv, TransferOK
  <2>8. OfferIsWhole'
    BY <1>1, <1>4, <2>1, <2>3 DEF CInv, OfferIsWhole
  <2> QED BY <2>4, <2>5, <2>6, <2>7, <2>8 DEF CInv
<1>7. CASE ~Taken
  <2>1. sel.by = "nobody" /\ sel.id = 0
    BY <1>7 DEF Taken, NoSelection
  <2> DEFINE d == Drained(cache)[Len(MimeList)]
             h == Harvest(d)
  <2>2. CacheOK(d) /\ Alike(d, cache)
    BY <1>2, DrainedFacts
  <2>3. \/ /\ cache' = NoCache /\ sel' = sel /\ paste' = paste
        \/ /\ ~\A m \in Mimes : h.entry[m] = NoEntry
           /\ cache' = [Uninstalled(h) EXCEPT !.owned = TRUE]
           /\ sel' = [by |-> "persist", id |-> h.id]
           /\ paste' = Finished(paste, sel.id)
    BY <1>7 DEF Install
  <2> HIDE DEF d
  <2>4. /\ CacheOK(h) /\ Alike(h, d) /\ \A m \in Mimes : Whole(h.entry[m])
    BY <2>2, HarvestFacts
  <2> HIDE DEF h
  <2>5. Alike(h, cache)
    BY <2>2, <2>4 DEF Alike
  <2>6. CASE cache' = NoCache /\ sel' = sel /\ paste' = paste
    <3>1. TypeOK'
      BY <1>1, <1>3, <2>6, Zenon DEF CInv, TypeOK
    <3>2. CacheInv' /\ IdleInv' /\ OfferIsWhole'
      BY <1>3, <2>1, <2>6 DEF CacheInv, IdleInv, OfferIsWhole
    <3>3. SelInv' /\ PasteInv'
      BY <1>1, <2>6 DEF CInv, SelInv, PasteInv, TransferOK
    <3> QED BY <3>1, <3>2, <3>3 DEF CInv
  <2>7. CASE /\ ~\A m \in Mimes : h.entry[m] = NoEntry
             /\ cache' = [Uninstalled(h) EXCEPT !.owned = TRUE]
             /\ sel' = [by |-> "persist", id |-> h.id]
             /\ paste' = Finished(paste, sel.id)
    <3> DEFINE u == Uninstalled(h)
    <3>1. /\ CacheOK(u) /\ u.id = cache.id /\ u.install = FALSE /\ u.managed = cache.managed
          /\ u.entry = h.entry /\ u \in Caches
      BY <1>5, <2>4, <2>5, ZenonT(40)
    <3> HIDE DEF u
    <3>2. cache' = [u EXCEPT !.owned = TRUE]
      BY <2>7 DEF u
    <3>3. cache' \in Caches
      <4>1. TRUE \in BOOLEAN
        OBVIOUS
      <4> QED BY <3>1, <3>2, <4>1, Zenon DEF Caches
    <3>4. /\ cache'.id = cache.id /\ cache'.install = FALSE /\ cache'.managed = cache.managed
          /\ cache'.entry = h.entry /\ cache'.owned = TRUE /\ cache'.total = u.total
          /\ cache'.entry = u.entry
      BY <3>1, <3>2 DEF Caches
    <3>5. CacheOK(cache') /\ cache' # NoCache
      BY <3>1, <3>3, <3>4, Relabelled, CacheType
    <3>6. sel'.by = "persist" /\ sel'.id = cache.id
      BY <2>5, <2>7 DEF Alike
    <3>7. PasteInv' /\ paste' \in [Readers -> Transfers]
      <4>1. \A r \in Readers : paste[r].id # cache.id
        BY <1>1, <1>4 DEF CInv, PasteInv, TransferOK
      <4>2. copies' \in Nat /\ copies <= copies'
        BY <1>1, TransferIds
      <4> QED BY <2>7, <3>4, <3>6, <4>1, <4>2, Replaced
    <3>8. TypeOK'
      <4>1. sel' \in [by : Clients \cup {"nobody", "persist", "compositor"}, id : 0..MaxCopies]
        BY <1>3, <2>5, <2>7, Constants DEF Alike
      <4> QED BY <1>1, <1>3, <3>3, <3>7, <4>1, Zenon DEF CInv, TypeOK
    <3>9. CacheInv' /\ IdleInv'
      BY <1>1, <1>2, <1>3, <3>4, <3>5 DEF CacheInv, IdleInv
    <3>10. SelInv'
      BY <1>1, <1>2, <1>3, <3>6, TransferIds DEF SelInv
    <3>11. OfferIsWhole'
      BY <1>1, <1>2, <2>4, <2>7, <3>4, <3>5, <3>6 DEF OfferIsWhole, Whole
    <3> QED BY <3>7, <3>8, <3>9, <3>10, <3>11, SMTT(30) DEF CInv
  <2> QED BY <2>3, <2>6, <2>7
<1> QED BY <1>6, <1>7

(* persist_source_send, selection_data_send. *)
LEMMA PasteStep ==
  ASSUME CInv, NEW r \in Readers, Paste(r)
  PROVE  CInv'
<1>1. UNCHANGED <<sel, cache, idle, alive, seat, copies, lastCopy>>
  BY Zenon DEF Paste
<1>2. PICK size : /\ sel.by \in {"persist", "compositor"} /\ size \in Nat
                  /\ paste' = [paste EXCEPT ![r] =
                       Flush([NoPaste EXCEPT !.id = sel.id, !.size = size])]
  <2>1. CASE sel.by = "persist" /\ \E m \in Mimes : paste' = [paste EXCEPT ![r] =
               Flush([NoPaste EXCEPT !.id = sel.id, !.size = cache.entry[m].size])]
    <3>1. PICK m \in Mimes : paste' = [paste EXCEPT ![r] =
               Flush([NoPaste EXCEPT !.id = sel.id, !.size = cache.entry[m].size])]
      BY <2>1, Zenon
    <3>2. cache \in Caches
      BY <2>1 DEF CInv, TypeOK, OfferIsWhole
    <3>3. cache.entry[m].size \in Nat
      BY <3>2, CacheType, EntryType, SMTT(30)
    <3> QED BY <2>1, <3>1, <3>3, ZenonT(40)
  <2>2. CASE sel.by = "compositor" /\ paste' = [paste EXCEPT ![r] =
               Flush([NoPaste EXCEPT !.id = sel.id, !.size = ShotSize])]
    BY <2>2, Constants, Zenon
  <2> QED BY <2>1, <2>2, ZenonT(40) DEF Paste
<1> DEFINE t == [NoPaste EXCEPT !.id = sel.id, !.size = size]
<1>3. sel.id \in 1..copies /\ copies \in 0..MaxCopies /\ sel.id \in 0..MaxCopies
  <2>1. sel.id \in 1..copies
    BY <1>2 DEF CInv, SelInv
  <2>2. copies \in 0..MaxCopies
    BY TransferIds
  <2> QED BY <2>1, <2>2, Constants
<1>4. t \in Transfers /\ t.id = sel.id /\ t.off = 0 /\ t.size = size
  BY <1>2, <1>3, NoPasteFacts, Zenon DEF Transfers
<1> HIDE DEF t
<1>5. /\ Flush(t) \in Transfers /\ Flush(t).id = sel.id
      /\ Flush(t).off <= Flush(t).size
      /\ Flush(t).writing = FALSE => Flush(t).off = Flush(t).size
  <2>1. t.off <= t.size
    BY <1>2, <1>4
  <2> QED BY <1>4, <2>1, FlushFacts, ZenonT(40)
<1>6. cache # NoCache /\ sel.id = cache.id => cache.owned
  <2>1. CASE sel.by = "persist"
    BY <2>1 DEF CInv, OfferIsWhole
  <2>2. CASE sel.by = "compositor"
    BY <1>3, <2>2, TransferIds DEF CInv, SelInv, CacheInv
  <2> QED BY <1>2, <2>1, <2>2
<1>7. Flush(t).writing \in BOOLEAN
  BY <1>5 DEF Transfers
<1>8. TransferOK(Flush(t))
  BY <1>3, <1>5, <1>6, <1>7, SMTT(30) DEF TransferOK
<1> QED BY <1>1, <1>2, <1>5, <1>8, TransferStep, ZenonT(40) DEF t

(* handle_writable. *)
LEMMA WritableStep ==
  ASSUME CInv, NEW r \in Readers, Writable(r)
  PROVE  CInv'
<1> DEFINE t == paste[r]
<1>1. /\ UNCHANGED <<sel, cache, idle, alive, seat, copies, lastCopy>>
      /\ paste' = [paste EXCEPT ![r] = Flush(t)] /\ t.writing
  BY DEF Writable
<1>2. t \in Transfers /\ TransferOK(t)
  BY DEF CInv, TypeOK, PasteInv
<1> HIDE DEF t
<1>3. /\ Flush(t) \in Transfers /\ Flush(t).id = t.id
      /\ Flush(t).off <= Flush(t).size
      /\ Flush(t).writing = FALSE => Flush(t).off = Flush(t).size
  BY <1>2, FlushFacts, Zenon DEF TransferOK
<1>4. Flush(t).writing \in BOOLEAN
  BY <1>3 DEF Transfers
<1>5. t.id # 0
  BY <1>1, <1>2, NoPasteFacts DEF TransferOK
<1>6. TransferOK(Flush(t))
  BY <1>1, <1>2, <1>3, <1>4, <1>5 DEF TransferOK
<1> QED BY <1>1, <1>3, <1>6, TransferStep, ZenonT(40)

(* A pasting client reads. *)
LEMMA ReadStep ==
  ASSUME CInv, NEW r \in Readers, Read(r)
  PROVE  CInv'
<1> DEFINE t == paste[r]
           x == [t EXCEPT !.buf = @ - 1]
<1>1. /\ UNCHANGED <<sel, cache, idle, alive, seat, copies, lastCopy>>
      /\ paste' = [paste EXCEPT ![r].buf = @ - 1] /\ t.buf > 0
  BY DEF Read
<1>2. t \in Transfers /\ TransferOK(t) /\ paste \in [Readers -> Transfers]
  BY DEF CInv, TypeOK, PasteInv
<1>3. paste' = [paste EXCEPT ![r] = x]
  BY <1>1, <1>2
<1> HIDE DEF t
<1>4. t.buf - 1 \in 0..PipeSize
  BY <1>1, <1>2, Constants DEF Transfers
<1>5. /\ x \in Transfers /\ x.id = t.id /\ x.size = t.size /\ x.off = t.off
      /\ x.writing = t.writing
  BY <1>2, <1>4 DEF Transfers
<1>6. t # NoPaste
  BY <1>1 DEF NoPaste
<1> HIDE DEF x
<1>7. TransferOK(x)
  BY <1>2, <1>5, <1>6 DEF TransferOK
<1> QED BY <1>1, <1>3, <1>5, <1>7, TransferStep, Zenon

(* A pasting client is done. *)
LEMMA ReaderDoneStep ==
  ASSUME CInv, NEW r \in Readers, ReaderDone(r)
  PROVE  CInv'
<1>1. /\ UNCHANGED <<sel, cache, idle, alive, seat, copies, lastCopy>>
      /\ paste' = [paste EXCEPT ![r] = NoPaste]
  BY DEF ReaderDone
<1>2. cache # NoCache => cache.id # 0
  BY NoneLeft DEF CInv
<1>3. TransferOK(NoPaste)
  BY <1>2, NoPasteFacts, TransferIds DEF TransferOK
<1> QED BY <1>1, <1>3, NoPasteFacts, TransferStep, Zenon

(* handle_seat_destroy. *)
LEMMA SeatDestroyStep ==
  ASSUME CInv, SeatDestroy
  PROVE  CInv'
<1>1. /\ seat = "up" /\ seat' = "orphaned"
      /\ UNCHANGED <<sel, alive, paste, copies, lastCopy>>
      /\ \/ cache # NoCache /\ cache.owned /\ cache' = Orphaned(cache) /\ idle' = idle
         \/ /\ ~(cache # NoCache /\ cache.owned)
            /\ cache' = NoCache /\ idle' = WithoutInstall(idle, cache)
  BY DEF SeatDestroy
<1>2. CASE cache # NoCache /\ cache.owned /\ cache' = Orphaned(cache) /\ idle' = idle
  <2>1. CacheOK(cache) /\ cache \in Caches
    BY <1>2 DEF CInv, CacheInv, CacheOK
  <2>2. cache' \in Caches
    <3>1. FALSE \in BOOLEAN
      OBVIOUS
    <3> QED BY <1>2, <2>1, <3>1, Zenon DEF Caches, Orphaned
  <2>3. /\ cache'.id = cache.id /\ cache'.owned = cache.owned /\ cache'.managed = FALSE
        /\ cache'.install = cache.install /\ cache'.total = cache.total
        /\ cache'.entry = cache.entry
    BY <1>2, <2>1, ZenonT(40) DEF Caches, Orphaned
  <2>4. CacheOK(cache') /\ cache' # NoCache
    BY <2>1, <2>2, <2>3, Relabelled, CacheType
  <2>5. TypeOK'
    BY <1>1, <1>2, <2>2 DEF CInv, TypeOK
  <2>6. CacheInv'
    BY <1>1, <1>2, <2>3, <2>4 DEF CInv, CacheInv
  <2>7. IdleInv'
    BY <1>2, <2>3, <2>4, SMTT(30) DEF CInv, IdleInv
  <2>8. SelInv' /\ PasteInv'
    BY <1>1, <1>2, <2>3, SMTT(30) DEF CInv, SelInv, PasteInv, TransferOK
  <2>9. OfferIsWhole'
    BY <1>1, <2>3, <2>4, ZenonT(40) DEF CInv, OfferIsWhole
  <2> QED BY <2>5, <2>6, <2>7, <2>8, <2>9 DEF CInv
<1>3. CASE /\ ~(cache # NoCache /\ cache.owned)
           /\ cache' = NoCache /\ idle' = WithoutInstall(idle, cache)
  <2>1. idle' = {}
    BY <1>3, NoneLeft DEF CInv
  <2>2. sel.by # "persist"
    BY <1>3 DEF CInv, OfferIsWhole
  <2>3. TypeOK'
    BY <1>1, <1>3, <2>1, SMTT(30) DEF CInv, TypeOK
  <2>4. CacheInv' /\ IdleInv' /\ OfferIsWhole'
    BY <1>1, <1>3, <2>1, <2>2, SMTT(30) DEF CacheInv, IdleInv, OfferIsWhole
  <2>5. SelInv' /\ PasteInv'
    BY <1>1, <1>3 DEF CInv, SelInv, PasteInv, TransferOK
  <2> QED BY <2>3, <2>4, <2>5 DEF CInv
<1> QED BY <1>1, <1>2, <1>3

(* wlr_seat_destroy. *)
LEMMA WlrSeatDestroyStep ==
  ASSUME CInv, WlrSeatDestroy
  PROVE  CInv'
<1>1. /\ seat' = "gone" /\ sel' = NoSelection /\ paste' = Finished(paste, sel.id)
      /\ cache' = NoCache /\ idle' = WithoutInstall(idle, cache)
      /\ UNCHANGED <<alive, copies, lastCopy>>
  BY DEF WlrSeatDestroy
<1>2. idle' = {}
  BY <1>1, NoneLeft DEF CInv
<1>3. sel'.by = "nobody" /\ sel'.id = 0
  BY <1>1 DEF NoSelection
<1>4. PasteInv' /\ paste' \in [Readers -> Transfers]
  <2>1. \A r \in Readers : paste[r] # NoPaste => paste[r].id # sel'.id
    BY <1>3, TransferIds
  <2>2. copies' \in Nat /\ copies <= copies'
    BY <1>1, TransferIds
  <2> QED BY <1>1, <2>1, <2>2, Replaced
<1>5. TypeOK'
  BY <1>1, <1>2, <1>4, Constants, SMTT(30) DEF CInv, TypeOK, NoSelection
<1>6. CacheInv' /\ IdleInv' /\ OfferIsWhole'
  BY <1>1, <1>2, <1>3 DEF CacheInv, IdleInv, OfferIsWhole
<1>7. SelInv'
  BY <1>1, <1>3 DEF CInv, SelInv
<1> QED BY <1>4, <1>5, <1>6, <1>7 DEF CInv
-----------------------------------------------------------------------------
(* The invariant holds at first and is kept by every step.                 *)

(* selection_persist_create. *)
LEMMA ClipboardInit == Init => CInv
<1> SUFFICES ASSUME Init PROVE CInv
  OBVIOUS
<1>1. /\ sel.by = "nobody" /\ sel.id = 0 /\ cache = NoCache /\ idle = {} /\ alive = Clients
      /\ seat = "up" /\ copies = 0 /\ lastCopy = 0
      /\ \A r \in Readers : paste[r] = NoPaste
  BY DEF Init, NoSelection
<1>2. TypeOK
  BY Constants, NoPasteFacts DEF Init, NoSelection, TypeOK
<1>3. PasteInv
  BY <1>1, NoPasteFacts DEF PasteInv, TransferOK
<1> QED BY <1>1, <1>2, <1>3 DEF CInv, CacheInv, IdleInv, SelInv, OfferIsWhole

(* Every step, of the event loop or of a client. *)
LEMMA ClipboardStep == CInv /\ [Next]_vars => CInv'
<1> SUFFICES ASSUME CInv, [Next]_vars PROVE CInv'
  BY SMTT(30)
<1>1. CASE UNCHANGED vars
  BY <1>1, Zenon DEF vars, CInv, TypeOK, CacheInv, IdleInv, SelInv, PasteInv, TransferOK, OfferIsWhole
<1>2. CASE \E c \in Clients : Disconnect(c) \/ \E offers \in SUBSET Mimes : Copy(c, offers)
  BY <1>2, DisconnectStep, CopyStep
<1>3. CASE Screenshot \/ Clear \/ Install
  BY <1>3, ScreenshotStep, ClearStep, InstallStep
<1>4. CASE \E m \in Mimes : Write(m) \/ CloseEnd(m) \/ Readable(m) \/ ReadableFails(m)
  BY <1>4, WriteStep, CloseEndStep, ReadableStep, ReadableFailsStep
<1>5. CASE \E r \in Readers : Paste(r) \/ Writable(r) \/ Read(r) \/ ReaderDone(r)
  BY <1>5, PasteStep, WritableStep, ReadStep, ReaderDoneStep
<1>6. CASE SeatDestroy \/ WlrSeatDestroy
  BY <1>6, SeatDestroyStep, WlrSeatDestroyStep
<1> QED BY <1>1, <1>2, <1>3, <1>4, <1>5, <1>6 DEF Next
-----------------------------------------------------------------------------
(* The theorems.                                                           *)

(* The invariant holds in every state of a run. *)
THEOREM ClipboardInvariant == Spec => []CInv
BY ClipboardInit, ClipboardStep, PTL DEF Spec

(* No idle callback, writer or manager pointer outlives what it points to, and
   the buffers of the cache together stay within PERSIST_MAX_SIZE, however many
   entries grow against it. *)
THEOREM NothingIsLeftDangling == Spec => []NothingDangles
<1>1. CInv => NothingDangles
  <2> SUFFICES ASSUME CInv PROVE NothingDangles
    OBVIOUS
  <2>1. cache # NoCache =>
          /\ cache.total <= Limit
          /\ Sum([m \in Mimes |-> cache.entry[m].cap]) <= cache.total
          /\ cache.managed <=> seat = "up"
    BY DEF CInv, CacheInv, CacheOK, Capacity
  <2>2. \A r \in Readers : paste[r].writing => sel.id = paste[r].id
    BY DEF CInv, PasteInv, TransferOK
  <2> QED BY <2>1, <2>2 DEF CInv, NothingDangles, IdleInv
<1> QED BY <1>1, ClipboardInvariant, PTL

(* What is offered after its owner has gone was read to its end, and a transfer
   that ends while the selection stays was sent to its end. *)
THEOREM OnlyWholeDataLeaves == Spec => []OnlyWholeData
<1>1. CInv => OnlyWholeData
  BY DEF CInv, OnlyWholeData, TransferIsWhole, PasteInv, TransferOK
<1> QED BY <1>1, ClipboardInvariant, PTL

(* handle_install never replaces a selection somebody set in the meantime. *)
THEOREM TakeoverNeverReplaces == Spec => NeverReplaces
<1>1. CInv /\ [Next]_vars =>
        [sel'.by = "persist" /\ sel.by # "persist" => sel = NoSelection]_vars
  <2> SUFFICES ASSUME CInv, [Next]_vars, sel'.by = "persist", sel.by # "persist"
               PROVE  sel = NoSelection
    OBVIOUS
  <2>1. CASE UNCHANGED sel
    BY <2>1
  <2>2. CASE \E c \in Clients : \E offers \in SUBSET Mimes : Copy(c, offers)
    BY <2>2, Constants DEF Copy
  <2>3. CASE Screenshot
    BY <2>3 DEF Screenshot
  <2>4. CASE Emptied \/ WlrSeatDestroy
    BY <2>4 DEF Emptied, WlrSeatDestroy, NoSelection
  <2>5. CASE Install
    BY <2>1, <2>5, SMTT(30) DEF Install, Taken
  <2>6. Next => \/ UNCHANGED sel \/ Emptied \/ WlrSeatDestroy \/ Screenshot \/ Install
                \/ \E c \in Clients : \E offers \in SUBSET Mimes : Copy(c, offers)
    BY Zenon DEF Next, Disconnect, Clear, Write, CloseEnd, Readable, ReadableFails, Paste, Writable,
           Read, ReaderDone, SeatDestroy
  <2> QED BY <2>1, <2>2, <2>3, <2>4, <2>5, <2>6 DEF vars
<1> QED BY <1>1, ClipboardInvariant, PTL DEF Spec, NeverReplaces
=============================================================================
