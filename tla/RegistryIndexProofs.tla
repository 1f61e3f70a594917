------------------------ MODULE RegistryIndexProofs ------------------------
(***************************************************************************)
(* What RegistryIndex promises, proved for every chain, lag, depth of a    *)
(* reorganisation, overlap and chunk size its assumptions admit.  The      *)
(* facts about the two loops over blocks, the binary search and the log    *)
(* query, come first: each is a recursive function, and what it returns is *)
(* shown by looking at a least counterexample.                             *)
(***************************************************************************)
EXTENDS RegistryIndex, SequenceTheorems, WellFoundedInduction, TLAPS

-----------------------------------------------------------------------------
(* Induction                                                               *)

\* A set of naturals that is not empty has a least element.
LEMMA Least ==
    ASSUME NEW S \in SUBSET Nat, S # {}
    PROVE  \E m \in S : \A k \in S : m <= k
<1> DEFINE R == OpToRel(<, Nat)
<1>1. IsWellFoundedOn(R, Nat)
  BY NatLessThanWellFounded
<1>2. \A i, j \in Nat : i < j => <<i, j>> \in R
  BY DEF OpToRel
<1> HIDE DEF R
<1>3. PICK m \in S : \A y \in S : ~(<<y, m>> \in R)
  BY <1>1, WFMin
<1>4. \A k \in S : ~(k < m)
  BY <1>2, <1>3
<1>5. QED
  BY <1>4

-----------------------------------------------------------------------------
(* The binary search                                                       *)

Block == [time : Nat, run : Run \cup {None}]

\* Blocks are anchored in the order of their timestamps.
Ordered ==
    /\ chain \in Seq(Block)
    /\ \A i, j \in DOMAIN chain : i <= j => chain[i].time <= chain[j].time

Window(latest) == [low : 1..latest + 1, high : 1..latest + 1]
Middle(w)      == w.low + (w.high - w.low) \div 2

Narrowed(w, time) ==
    IF chain[Middle(w)].time < time THEN [low |-> Middle(w) + 1, high |-> w.high]
    ELSE [low |-> w.low, high |-> Middle(w)]

\* f is the function that firstBlockAtOrAfter computes.
IsSearch(f, time, latest) ==
    f = [w \in Window(latest) |-> IF w.low >= w.high THEN w.low ELSE f[Narrowed(w, time)]]

\* b is where the blocks of a window turn from before `time` to at or after it.
IsFirst(b, w, time) ==
    /\ b \in w.low..w.high
    /\ \A i \in w.low..b - 1 : chain[i].time < time
    /\ \A i \in b..w.high - 1 : chain[i].time >= time

First(w, time) == CHOOSE b : IsFirst(b, w, time)

\* Every block up to the latest has a timestamp.
LEMMA Timed ==
    ASSUME NEW latest \in 0..Len(chain), Ordered
    PROVE  /\ latest \in Nat
           /\ \A i \in 1..latest : i \in DOMAIN chain /\ chain[i] \in Block /\ chain[i].time \in Nat
           /\ \A i, j \in 1..latest : i <= j => chain[i].time <= chain[j].time
<1>1. chain \in Seq(Block) /\ Len(chain) \in Nat /\ DOMAIN chain = 1..Len(chain)
  BY DEF Ordered
<1>2. \A i \in 1..latest : i \in DOMAIN chain
  BY <1>1
<1>3. \A i \in DOMAIN chain : chain[i] \in Block
  BY <1>1
<1>4. \A block \in Block : block.time \in Nat
  BY DEF Block
<1>5. QED
  BY <1>1, <1>2, <1>3, <1>4 DEF Ordered

\* A step of the search leaves a smaller window within the chain, not empty.
LEMMA NarrowedWindow ==
    ASSUME NEW time, NEW latest \in Nat, NEW w \in Window(latest), w.low < w.high
    PROVE  /\ Narrowed(w, time) \in Window(latest)
           /\ Narrowed(w, time).low <= Narrowed(w, time).high
           /\ Narrowed(w, time).high - Narrowed(w, time).low < w.high - w.low
  BY DEF Narrowed, Middle, Window

\* The turning point of the narrowed window is the one of the window.
LEMMA NarrowedFirst ==
    ASSUME NEW time \in Nat, NEW latest \in 0..Len(chain), Ordered,
           NEW w \in Window(latest), w.low < w.high, NEW b, IsFirst(b, Narrowed(w, time), time)
    PROVE  IsFirst(b, w, time)
<1> DEFINE middle == Middle(w)
<1>1. middle \in w.low..w.high - 1 /\ middle \in 1..latest /\ w.low \in Nat /\ w.high \in Nat /\ w.high <= latest + 1
      /\ 1 <= w.low
  BY DEF Window, Middle
<1>2. \A i \in 1..latest : chain[i].time \in Nat
  BY Timed
<1>3. \A i, j \in 1..latest : i <= j => chain[i].time <= chain[j].time
  BY Timed
<1>4. CASE chain[middle].time < time
  <2>1. Narrowed(w, time) = [low |-> middle + 1, high |-> w.high]
    BY <1>4 DEF Narrowed
  <2>2. b \in middle + 1..w.high /\ (\A i \in middle + 1..b - 1 : chain[i].time < time)
        /\ \A i \in b..w.high - 1 : chain[i].time >= time
    BY <2>1 DEF IsFirst
  <2> HIDE DEF middle
  <2>3. \A i \in w.low..middle : chain[i].time < time
    BY <1>1, <1>2, <1>3, <1>4
  <2>4. \A i \in w.low..b - 1 : i \in w.low..middle \/ i \in middle + 1..b - 1
    BY <1>1, <2>2
  <2>5. QED
    BY <1>1, <2>2, <2>3, <2>4 DEF IsFirst
<1>5. CASE ~(chain[middle].time < time)
  <2>1. Narrowed(w, time) = [low |-> w.low, high |-> middle]
    BY <1>5 DEF Narrowed
  <2>2. b \in w.low..middle /\ (\A i \in w.low..b - 1 : chain[i].time < time)
        /\ \A i \in b..middle - 1 : chain[i].time >= time
    BY <2>1 DEF IsFirst
  <2> HIDE DEF middle
  <2>3. \A i \in middle..w.high - 1 : chain[i].time >= time
    BY <1>1, <1>2, <1>3, <1>5
  <2>4. \A i \in b..w.high - 1 : i \in b..middle - 1 \/ i \in middle..w.high - 1
    BY <1>1, <2>2
  <2>5. QED
    BY <1>1, <2>2, <2>3, <2>4 DEF IsFirst
<1>6. QED
  BY <1>4, <1>5

\* There is one turning point.
LEMMA FirstUnique ==
    ASSUME NEW time \in Nat, NEW latest \in 0..Len(chain), Ordered,
           NEW w \in Window(latest), NEW b, NEW c, IsFirst(b, w, time), IsFirst(c, w, time)
    PROVE  b = c
<1>1. latest \in Nat /\ \A i \in 1..latest : chain[i].time \in Nat
  BY Timed
<1>2. w.low \in 1..latest + 1 /\ w.high \in 1..latest + 1
  BY DEF Window
<1>3. b \in Nat /\ c \in Nat
  BY <1>2 DEF IsFirst
<1>4. ~(b < c)
  BY <1>1, <1>2, <1>3 DEF IsFirst
<1>5. ~(c < b)
  BY <1>1, <1>2, <1>3 DEF IsFirst
<1>6. QED
  BY <1>3, <1>4, <1>5

\* In a window that is not empty there is a turning point.
LEMMA FirstExists ==
    ASSUME NEW time \in Nat, NEW latest \in 0..Len(chain), Ordered,
           NEW w \in Window(latest), w.low <= w.high
    PROVE  \E b : IsFirst(b, w, time)
<1> DEFINE S == {b \in w.low..w.high : b = w.high \/ chain[b].time >= time}
<1>1. latest \in Nat /\ (\A i \in 1..latest : chain[i].time \in Nat)
      /\ \A i, j \in 1..latest : i <= j => chain[i].time <= chain[j].time
  BY Timed
<1>2. w.low \in 1..latest + 1 /\ w.high \in 1..latest + 1
  BY DEF Window
<1>3. S \subseteq Nat /\ w.high \in S
  BY <1>2
<1> HIDE DEF S
<1>4. PICK b \in S : \A k \in S : b <= k
  BY <1>3, Least
<1>5. b \in w.low..w.high /\ (b = w.high \/ chain[b].time >= time)
  BY <1>4 DEF S
<1>6. \A i \in w.low..b - 1 : chain[i].time < time
  <2>1. SUFFICES ASSUME NEW i \in w.low..b - 1, ~(chain[i].time < time) PROVE FALSE
    OBVIOUS
  <2>2. i \in w.low..w.high /\ i \in 1..latest /\ i < b
    BY <1>2, <1>5
  <2>3. i \in S
    BY <1>1, <2>1, <2>2 DEF S
  <2>4. QED
    BY <1>2, <1>4, <1>5, <2>2, <2>3
<1>7. \A i \in b..w.high - 1 : chain[i].time >= time
  BY <1>1, <1>2, <1>5
<1>8. QED
  BY <1>5, <1>6, <1>7 DEF IsFirst

\* The recursion of the search has a solution: the turning point of each window.
LEMMA SearchExists ==
    ASSUME NEW time \in Nat, NEW latest \in 0..Len(chain), Ordered
    PROVE  \E f : IsSearch(f, time, latest)
<1> DEFINE f == [w \in Window(latest) |-> IF w.low >= w.high THEN w.low ELSE First(w, time)]
<1>1. latest \in Nat
  BY Timed
<1>2. /\ f = [w \in Window(latest) |-> IF w.low >= w.high THEN w.low ELSE First(w, time)]
      /\ \A w \in Window(latest) : f[w] = IF w.low >= w.high THEN w.low ELSE First(w, time)
  BY Zenon
<1> HIDE DEF f
<1>3. ASSUME NEW w \in Window(latest), ~(w.low >= w.high)
      PROVE  First(w, time) = f[Narrowed(w, time)]
  <2>1. w.low < w.high
    BY <1>3 DEF Window
  <2> DEFINE n == Narrowed(w, time)
  <2>2. n \in Window(latest) /\ n.low <= n.high
    BY <1>1, <2>1, NarrowedWindow
  <2> HIDE DEF n
  <2>3. IsFirst(f[n], n, time)
    <3>1. CASE n.low >= n.high
      <4>1. f[n] = n.low
        BY <1>2, <2>2, <3>1
      <4>2. n.low = n.high /\ n.low \in Nat
        BY <1>1, <2>2, <3>1 DEF Window
      <4>3. IsFirst(n.low, n, time)
        BY <4>2 DEF IsFirst
      <4>4. QED
        BY <4>1, <4>3
    <3>2. CASE ~(n.low >= n.high)
      <4>1. f[n] = First(n, time)
        BY <1>2, <2>2, <3>2, Zenon
      <4>2. \E b : IsFirst(b, n, time)
        BY <2>2, FirstExists
      <4>3. QED
        BY <4>1, <4>2, Zenon DEF First
    <3>3. QED
      BY <3>1, <3>2
  <2>4. IsFirst(f[n], w, time)
    BY <2>1, <2>3, NarrowedFirst DEF n
  <2>5. IsFirst(First(w, time), w, time)
    BY <2>4, Zenon DEF First
  <2>6. QED
    BY <2>4, <2>5, FirstUnique DEF n
<1>4. f = [w \in Window(latest) |-> IF w.low >= w.high THEN w.low ELSE f[Narrowed(w, time)]]
  BY <1>2, <1>3, Zenon
<1>5. QED
  BY <1>4, Zenon DEF IsSearch

\* Every solution finds the turning point of every window.
LEMMA SearchFinds ==
    ASSUME NEW time \in Nat, NEW latest \in 0..Len(chain), Ordered,
           NEW f, IsSearch(f, time, latest), NEW v \in Window(latest), v.low <= v.high
    PROVE  IsFirst(f[v], v, time)
<1> DEFINE Missed == {w \in Window(latest) : w.low <= w.high /\ ~IsFirst(f[w], w, time)}
           S      == {w.high - w.low : w \in Missed}
<1>1. SUFFICES ASSUME v \in Missed PROVE FALSE
  BY Zenon
<1>2. S \subseteq Nat /\ S # {}
  BY <1>1 DEF Window
<1>3. PICK m \in S : \A k \in S : m <= k
  <2> HIDE DEF S
  <2>1. QED
    BY <1>2, Least
<1>4. PICK w \in Missed : m = w.high - w.low
  BY <1>3
<1>5. w \in Window(latest) /\ w.low <= w.high /\ ~IsFirst(f[w], w, time)
  BY <1>4, Zenon
<1>6. f[w] = IF w.low >= w.high THEN w.low ELSE f[Narrowed(w, time)]
  BY <1>5, Zenon DEF IsSearch
<1>7. CASE w.low >= w.high
  <2>1. w.low = w.high /\ w.low \in Nat
    BY <1>5, <1>7 DEF Window
  <2>2. f[w] = w.low
    BY <1>6, <1>7
  <2>3. QED
    BY <1>5, <2>1, <2>2 DEF IsFirst
<1>8. CASE ~(w.low >= w.high)
  <2>1. w.low < w.high /\ latest \in Nat
    BY <1>5, <1>8, Timed DEF Window
  <2> DEFINE n == Narrowed(w, time)
  <2>2. n \in Window(latest) /\ n.low <= n.high /\ n.high - n.low < w.high - w.low
    BY <1>5, <2>1, NarrowedWindow
  <2>3. f[w] = f[n]
    BY <1>6, <1>8, Zenon
  <2>4. ~IsFirst(f[n], n, time)
    BY <1>5, <2>1, <2>3, NarrowedFirst
  <2> HIDE DEF n
  <2>5. n \in Missed
    BY <2>2, <2>4, Zenon
  <2>6. n.high - n.low \in S
    BY <2>5
  <2>7. m <= n.high - n.low
    BY <1>3, <2>6
  <2>8. QED
    BY <1>4, <1>5, <2>2, <2>7 DEF Window
<1>9. QED
  BY <1>7, <1>8

\* firstBlockAtOrAfter: the blocks before what it returns are before `time`, those
\* from it on, up to the latest, are not.
LEMMA FirstBlock ==
    ASSUME NEW time \in Nat, NEW latest \in 0..Len(chain), Ordered
    PROVE  /\ FirstBlockAtOrAfter(time, latest) \in 1..latest + 1
           /\ \A i \in 1..FirstBlockAtOrAfter(time, latest) - 1 : chain[i].time < time
           /\ \A i \in FirstBlockAtOrAfter(time, latest)..latest : chain[i].time >= time
<1> DEFINE all == [low |-> 1, high |-> latest + 1]
<1>1. latest \in Nat
  BY Timed
<1>2. all \in Window(latest) /\ all.low <= all.high
  BY <1>1 DEF Window
<1>3. PICK f : IsSearch(f, time, latest) /\ FirstBlockAtOrAfter(time, latest) = f[all]
  BY <1>1, SearchExists DEF FirstBlockAtOrAfter, IsSearch, Window, Narrowed, Middle
<1>4. IsFirst(f[all], all, time)
  <2> HIDE DEF all
  <2>1. QED
    BY <1>2, <1>3, SearchFinds
<1>5. QED
  BY <1>1, <1>3, <1>4 DEF IsFirst

\* logsAtAnchoredTimestamp: the block that holds a run is among those searched.
LEMMA FoundAtItsTime ==
    ASSUME NEW latest \in 0..Len(chain), Ordered, NEW p \in 1..latest
    PROVE  p \in BlocksAt(chain[p].time, latest)
<1> DEFINE time  == chain[p].time
           start == FirstBlockAtOrAfter(time, latest)
           after == FirstBlockAtOrAfter(time + 1, latest)
<1>1. latest \in Nat /\ time \in Nat /\ time + 1 \in Nat
  BY Timed
<1>2. /\ start \in 1..latest + 1
      /\ \A i \in 1..start - 1 : chain[i].time < time
      /\ \A i \in start..latest : chain[i].time >= time
  BY <1>1, FirstBlock
<1>3. /\ after \in 1..latest + 1
      /\ \A i \in 1..after - 1 : chain[i].time < time + 1
      /\ \A i \in after..latest : chain[i].time >= time + 1
  BY <1>1, FirstBlock
<1>4. BlocksAt(time, latest) =
        IF start > latest \/ (start <= latest /\ chain[start].time # time) THEN {}
        ELSE start..(IF after > latest THEN latest ELSE after - 1)
  BY DEF BlocksAt
<1>5. \A i, j \in 1..latest : i <= j => chain[i].time <= chain[j].time
  BY Timed
<1>6. \A i \in 1..latest : chain[i].time \in Nat
  BY Timed
<1>7. p \in 1..latest /\ time = chain[p].time
  OBVIOUS
<1> HIDE DEF time, start, after
<1>8. start <= p
  BY <1>1, <1>2, <1>7
<1>9. start \in 1..latest /\ chain[start].time = time
  BY <1>1, <1>2, <1>5, <1>6, <1>7, <1>8
<1>10. p < after
  BY <1>1, <1>3, <1>7
<1>11. BlocksAt(time, latest) = start..(IF after > latest THEN latest ELSE after - 1)
  BY <1>1, <1>4, <1>9
<1>12. p \in BlocksAt(time, latest)
  BY <1>1, <1>2, <1>3, <1>7, <1>8, <1>10, <1>11
<1>13. QED
  BY <1>12 DEF time

-----------------------------------------------------------------------------
(* The log query                                                           *)

Events(from, last) == {r \in Run : \E b \in from..last : chain[b].run = r}

\* f holds, for every block of a range, the events up to it.
IsLog(f, from, last) ==
    f = [b \in 0..last |->
            IF b < from THEN <<>>
            ELSE IF chain[b].run = None THEN f[b - 1]
            ELSE Append(f[b - 1], chain[b].run)]

\* The recursion over the blocks of a range has a solution.
LEMMA LogExists ==
    ASSUME NEW from \in Nat \ {0}, NEW last \in Nat
    PROVE  \E f : IsLog(f, from, last)
<1> DEFINE S == {n \in Nat : ~\E f : IsLog(f, from, n)}
<1>1. SUFFICES ASSUME S # {} PROVE FALSE
  BY Zenon
<1>2. PICK m \in S : \A k \in S : m <= k
  <2>1. S \subseteq Nat
    BY Zenon
  <2> HIDE DEF S
  <2>2. QED
    BY <1>1, <2>1, Least
<1>3. m \in Nat /\ ~\E f : IsLog(f, from, m)
  BY <1>2, Zenon
<1>4. CASE m = 0
  <2> DEFINE f == [b \in 0..0 |-> <<>>]
  <2>1. IsLog(f, from, 0)
    BY DEF IsLog
  <2>2. QED
    BY <1>3, <1>4, <2>1, Zenon
<1>5. CASE m # 0
  <2>1. m - 1 \in Nat /\ ~(m <= m - 1)
    BY <1>3, <1>5
  <2>2. PICK g : IsLog(g, from, m - 1)
    BY <1>2, <2>1, Zenon
  <2> DEFINE next(b) == IF b < from THEN <<>>
                        ELSE IF chain[b].run = None THEN g[b - 1]
                        ELSE Append(g[b - 1], chain[b].run)
             f == [b \in 0..m |-> next(b)]
  <2>3. \A b \in 0..m - 1 : g[b] = next(b)
    BY <2>2, Zenon DEF IsLog
  <2>4. \A b \in 0..m : f[b] = next(b)
    BY Zenon
  <2>5. \A b \in 0..m : ~(b < from) => b - 1 \in 0..m /\ b - 1 \in 0..m - 1
    BY <1>3
  <2>6. \A b \in 0..m : ~(b < from) => f[b - 1] = g[b - 1]
    BY <2>3, <2>4, <2>5, Zenon
  <2>7. f = [b \in 0..m |-> next(b)]
    BY Zenon
  <2> HIDE DEF f
  <2>8. IsLog(f, from, m)
    BY <2>6, <2>7, Zenon DEF IsLog
  <2>9. QED
    BY <1>3, <2>8, Zenon
<1>6. QED
  BY <1>4, <1>5

\* Every solution lists the runs of the blocks since the first of the range.
LEMMA LogLists ==
    ASSUME NEW from \in Nat \ {0}, NEW last \in 0..Len(chain), Ordered, NEW f, IsLog(f, from, last), NEW d \in 0..last
    PROVE  f[d] \in Seq(Run) /\ ToSet(f[d]) = Events(from, d)
<1> DEFINE Listed(b) == f[b] \in Seq(Run) /\ ToSet(f[b]) = Events(from, b)
           S == {b \in 0..last : ~Listed(b)}
<1>1. SUFFICES ASSUME S # {} PROVE FALSE
  BY Zenon
<1>2. last \in Nat /\ \A b \in 1..last : chain[b] \in Block
  BY Timed
<1>3. PICK m \in S : \A k \in S : m <= k
  <2>1. S \subseteq Nat
    BY <1>2
  <2> HIDE DEF S
  <2>2. QED
    BY <1>1, <2>1, Least
<1>4. m \in 0..last /\ ~Listed(m)
  BY <1>3, Zenon
<1>5. f[m] = IF m < from THEN <<>> ELSE IF chain[m].run = None THEN f[m - 1] ELSE Append(f[m - 1], chain[m].run)
  BY <1>4, Zenon DEF IsLog
<1>6. CASE m < from
  <2>1. f[m] = <<>>
    BY <1>5, <1>6
  <2>2. Events(from, m) = {}
    BY <1>2, <1>4, <1>6 DEF Events
  <2>3. Listed(m)
    BY <2>1, <2>2 DEF ToSet
  <2>4. QED
    BY <1>4, <2>3
<1>7. CASE ~(m < from)
  <2>1. m - 1 \in 0..last /\ ~(m <= m - 1) /\ m \in 1..last
    BY <1>2, <1>4, <1>7
  <2>2. Listed(m - 1)
    BY <1>3, <2>1, Zenon
  <2>3. chain[m].run \in Run \cup {None}
    BY <1>2, <2>1 DEF Block
  <2>4. \A b : b \in from..m <=> b \in from..m - 1 \/ b = m
    BY <1>2, <1>4, <1>7
  <2>5. CASE chain[m].run = None
    <3>1. f[m] = f[m - 1]
      BY <1>5, <1>7, <2>5
    <3>2. Events(from, m) = Events(from, m - 1)
      BY <2>4, <2>5, RegistryIndexAssumption, Zenon DEF Events
    <3>3. QED
      BY <1>4, <2>2, <3>1, <3>2
  <2>6. CASE chain[m].run # None
    <3>1. f[m] = Append(f[m - 1], chain[m].run) /\ chain[m].run \in Run
      BY <1>5, <1>7, <2>3, <2>6
    <3>2. Events(from, m) = Events(from, m - 1) \cup {chain[m].run}
      BY <2>4, <3>1, Zenon DEF Events
    <3>3. f[m] \in Seq(Run)
      BY <2>2, <3>1
    <3>4. ToSet(f[m]) = ToSet(f[m - 1]) \cup {chain[m].run}
      <4> DEFINE q == f[m - 1]
                 e == chain[m].run
      <4>1. q \in Seq(Run) /\ e \in Run
        BY <2>2, <3>1
      <4> HIDE DEF q, e
      <4>2. /\ DOMAIN Append(q, e) = 1..Len(q) + 1 /\ DOMAIN q = 1..Len(q) /\ Len(q) \in Nat
            /\ \A i \in 1..Len(q) : Append(q, e)[i] = q[i]
            /\ Append(q, e)[Len(q) + 1] = e
        BY <4>1
      <4>3. ToSet(Append(q, e)) = ToSet(q) \cup {e}
        BY <4>2 DEF ToSet
      <4>4. QED
        BY <3>1, <4>3 DEF q, e
    <3>5. QED
      BY <1>4, <2>2, <3>2, <3>3, <3>4
  <2>7. QED
    BY <2>5, <2>6
<1>8. QED
  BY <1>6, <1>7

\* One eth_getLogs call lists the runs of its range, up to what the node knows.
LEMMA RangeListed ==
    ASSUME Ordered, NEW view \in 0..Len(chain), NEW range, range.from \in Nat \ {0}, range.to \in 0..Len(chain)
    PROVE  LET last == IF range.to > view THEN view ELSE range.to
           IN  LogsIn(range, view) \in Seq(Run) /\ ToSet(LogsIn(range, view)) = Events(range.from, last)
<1> DEFINE last == IF range.to > view THEN view ELSE range.to
<1>1. last \in 0..Len(chain) /\ last \in Nat
  BY Timed
<1>2. \E f : IsLog(f, range.from, last)
  <2> HIDE DEF last
  <2>1. QED
    BY <1>1, LogExists
<1>3. PICK f : IsLog(f, range.from, last) /\ LogsIn(range, view) = f[last]
  BY <1>1, <1>2 DEF LogsIn, IsLog
<1>4. f[last] \in Seq(Run) /\ ToSet(f[last]) = Events(range.from, last)
  <2> HIDE DEF last
  <2>1. last \in 0..last
    BY <1>1
  <2>2. QED
    BY <1>1, <1>3, <2>1, LogLists
<1>5. QED
  BY <1>3, <1>4

\* f[i] is the first i sequences of s, one after the other.
IsFlat(f, s) == f = [i \in 1..Len(s) |-> IF i = 1 THEN s[i] ELSE f[i - 1] \o s[i]]

\* The recursion of FlattenSeq has a solution.
LEMMA FlatExists ==
    ASSUME NEW s, NEW len \in Nat
    PROVE  \E f : f = [i \in 1..len |-> IF i = 1 THEN s[i] ELSE f[i - 1] \o s[i]]
<1> DEFINE Flat(f, n) == f = [i \in 1..n |-> IF i = 1 THEN s[i] ELSE f[i - 1] \o s[i]]
           S == {n \in Nat : ~\E f : Flat(f, n)}
<1>1. SUFFICES ASSUME S # {} PROVE FALSE
  BY Zenon
<1>2. PICK m \in S : \A k \in S : m <= k
  <2>1. S \subseteq Nat
    BY Zenon
  <2> HIDE DEF S
  <2>2. QED
    BY <1>1, <2>1, Least
<1>3. m \in Nat /\ ~\E f : Flat(f, m)
  BY <1>2, Zenon
<1>4. CASE m = 0
  <2>1. Flat([i \in 1..0 |-> {}], 0)
    OBVIOUS
  <2> HIDE DEF Flat
  <2>2. QED
    BY <1>3, <1>4, <2>1, Zenon
<1>5. CASE m # 0
  <2>1. m - 1 \in Nat /\ ~(m <= m - 1)
    BY <1>3, <1>5
  <2>2. PICK g : Flat(g, m - 1)
    BY <1>2, <2>1, Zenon
  <2> DEFINE next(i) == IF i = 1 THEN s[i] ELSE g[i - 1] \o s[i]
             f == [i \in 1..m |-> next(i)]
  <2>3. \A i \in 1..m - 1 : g[i] = next(i)
    BY <2>2, Zenon
  <2>4. \A i \in 1..m : f[i] = next(i)
    BY Zenon
  <2>5. \A i \in 1..m : i # 1 => i - 1 \in 1..m /\ i - 1 \in 1..m - 1
    BY <1>3
  <2>6. \A i \in 1..m : i # 1 => f[i - 1] = g[i - 1]
    BY <2>3, <2>4, <2>5, Zenon
  <2>7. f = [i \in 1..m |-> next(i)]
    BY Zenon
  <2> HIDE DEF f
  <2>8. f = [i \in 1..m |-> IF i = 1 THEN s[i] ELSE f[i - 1] \o s[i]]
    BY <2>6, <2>7, Zenon
  <2>9. QED
    BY <1>3, <2>8, Zenon
<1>6. QED
  BY <1>4, <1>5

\* What is in the first sequences flattened is what is in one of them.
LEMMA FlatHolds ==
    ASSUME NEW T, NEW s \in Seq(Seq(T)), NEW f, IsFlat(f, s), NEW d \in 1..Len(s)
    PROVE  f[d] \in Seq(T) /\ \A x : x \in ToSet(f[d]) <=> \E i \in 1..d : x \in ToSet(s[i])
<1> DEFINE Held(n) == f[n] \in Seq(T) /\ \A x : x \in ToSet(f[n]) <=> \E i \in 1..n : x \in ToSet(s[i])
           S == {n \in 1..Len(s) : ~Held(n)}
<1>1. SUFFICES ASSUME S # {} PROVE FALSE
  BY Zenon
<1>2. Len(s) \in Nat /\ \A i \in 1..Len(s) : s[i] \in Seq(T)
  OBVIOUS
<1>3. PICK m \in S : \A k \in S : m <= k
  <2>1. S \subseteq Nat
    BY <1>2
  <2> HIDE DEF S
  <2>2. QED
    BY <1>1, <2>1, Least
<1>4. m \in 1..Len(s) /\ ~Held(m)
  BY <1>3, Zenon
<1>5. f[m] = IF m = 1 THEN s[m] ELSE f[m - 1] \o s[m]
  BY <1>4, Zenon DEF IsFlat
<1>6. CASE m = 1
  <2>1. f[m] = s[m] /\ f[m] \in Seq(T)
    BY <1>2, <1>4, <1>5, <1>6
  <2>2. m \in 1..m /\ \A i \in 1..m : i = m
    BY <1>6
  <2>3. ASSUME NEW x PROVE x \in ToSet(f[m]) <=> \E i \in 1..m : x \in ToSet(s[i])
    <3>1. x \in ToSet(s[m]) => \E i \in 1..m : x \in ToSet(s[i])
      BY <2>2
    <3>2. (\E i \in 1..m : x \in ToSet(s[i])) => x \in ToSet(s[m])
      BY <2>2
    <3>3. QED
      BY <2>1, <3>1, <3>2
  <2>4. QED
    BY <1>4, <2>1, <2>3
<1>7. CASE m # 1
  <2>1. m - 1 \in 1..Len(s) /\ ~(m <= m - 1)
    BY <1>2, <1>4, <1>7
  <2>2. Held(m - 1)
    BY <1>3, <2>1, Zenon
  <2>3. f[m] = f[m - 1] \o s[m] /\ s[m] \in Seq(T)
    BY <1>2, <1>4, <1>5, <1>7
  <2>4. \A i : i \in 1..m <=> i \in 1..m - 1 \/ i = m
    BY <1>2, <1>4
  <2>5. \A x : (\E i \in 1..m : x \in ToSet(s[i])) <=> (\E i \in 1..m - 1 : x \in ToSet(s[i])) \/ x \in ToSet(s[m])
    BY <2>4, Zenon
  <2>6. f[m] \in Seq(T) /\ ToSet(f[m]) = ToSet(f[m - 1]) \cup ToSet(s[m])
    <3> DEFINE q == f[m - 1]
               e == s[m]
    <3>1. q \in Seq(T) /\ e \in Seq(T)
      BY <2>2, <2>3
    <3> HIDE DEF q, e
    <3>2. /\ q \o e \in Seq(T) /\ DOMAIN (q \o e) = 1..Len(q) + Len(e) /\ DOMAIN q = 1..Len(q) /\ DOMAIN e = 1..Len(e)
          /\ Len(q) \in Nat /\ Len(e) \in Nat
          /\ \A i \in 1..Len(q) + Len(e) : (q \o e)[i] = IF i <= Len(q) THEN q[i] ELSE e[i - Len(q)]
      BY <3>1
    <3>3. \A i \in 1..Len(q) : i \in 1..Len(q) + Len(e) /\ i <= Len(q)
      BY <3>2
    <3>4. \A i \in 1..Len(e) : i + Len(q) \in 1..Len(q) + Len(e) /\ ~(i + Len(q) <= Len(q)) /\ (i + Len(q)) - Len(q) = i
      BY <3>2
    <3>5. \A i \in 1..Len(q) + Len(e) : i \in 1..Len(q) \/ (~(i <= Len(q)) /\ i - Len(q) \in 1..Len(e))
      BY <3>2
    <3>6. ToSet(q) \subseteq ToSet(q \o e)
      BY <3>2, <3>3 DEF ToSet
    <3>7. ToSet(e) \subseteq ToSet(q \o e)
      <4>1. \A i \in 1..Len(e) : (q \o e)[i + Len(q)] = e[i]
        BY <3>2, <3>4
      <4>2. \A x \in ToSet(e) : \E i \in 1..Len(e) : x = e[i]
        BY <3>2 DEF ToSet
      <4>3. \A j \in 1..Len(q) + Len(e) : (q \o e)[j] \in ToSet(q \o e)
        BY <3>2 DEF ToSet
      <4>4. \A i \in 1..Len(e) : e[i] \in ToSet(q \o e)
        BY <3>4, <4>1, <4>3
      <4>5. QED
        BY <4>2, <4>4, Zenon
    <3>8. ToSet(q \o e) \subseteq ToSet(q) \cup ToSet(e)
      BY <3>2, <3>3, <3>5 DEF ToSet
    <3>9. QED
      BY <2>3, <3>2, <3>6, <3>7, <3>8 DEF q, e
  <2>7. \A x : x \in ToSet(f[m]) <=> x \in ToSet(f[m - 1]) \/ x \in ToSet(s[m])
    BY <2>6
  <2>8. \A x : x \in ToSet(f[m]) <=> \E i \in 1..m : x \in ToSet(s[i])
    BY <2>2, <2>5, <2>7, Zenon
  <2>9. QED
    BY <1>4, <2>6, <2>8, Zenon
<1>8. QED
  BY <1>6, <1>7

\* FlattenSeq keeps what each of its sequences holds.
LEMMA Flattened ==
    ASSUME NEW T, NEW s \in Seq(Seq(T))
    PROVE  /\ FlattenSeq(s) \in Seq(T)
           /\ \A x : x \in ToSet(FlattenSeq(s)) <=> \E i \in 1..Len(s) : x \in ToSet(s[i])
<1>1. CASE Len(s) = 0
  <2>1. s = <<>> /\ FlattenSeq(s) = s
    BY <1>1 DEF FlattenSeq
  <2>2. ToSet(FlattenSeq(s)) = {} /\ FlattenSeq(s) \in Seq(T)
    <3>1. ToSet(<<>>) = {}
      BY DEF ToSet
    <3>2. <<>> \in Seq(T)
      OBVIOUS
    <3>3. QED
      BY <2>1, <3>1, <3>2, Zenon
  <2>3. \A i : i \notin 1..Len(s)
    BY <1>1
  <2>4. QED
    BY <2>1, <2>2, <2>3
<1>2. CASE Len(s) # 0
  <2>1. Len(s) \in Nat /\ Len(s) \in 1..Len(s)
    BY <1>2
  <2>2. PICK f : IsFlat(f, s) /\ FlattenSeq(s) = f[Len(s)]
    <3>1. \E f : IsFlat(f, s)
      BY <2>1, FlatExists DEF IsFlat
    <3>2. QED
      BY <1>2, <3>1 DEF IsFlat, FlattenSeq
  <2>3. f[Len(s)] \in Seq(T) /\ \A x : x \in ToSet(f[Len(s)]) <=> \E i \in 1..Len(s) : x \in ToSet(s[i])
    <3>1. s \in Seq(Seq(T)) /\ IsFlat(f, s)
      BY <2>2
    <3>2. \A d \in 1..Len(s) : f[d] \in Seq(T) /\ \A x : x \in ToSet(f[d]) <=> \E i \in 1..d : x \in ToSet(s[i])
      BY <3>1, FlatHolds, Zenon
    <3>3. QED
      BY <2>1, <3>2, Zenon
  <2>4. QED
    BY <2>2, <2>3, Zenon
<1>3. QED
  BY <1>1, <1>2

\* The chunks of a query hold its blocks and no others.
LEMMA RangesCover ==
    ASSUME NEW from \in Nat \ {0}, NEW to \in Nat
    PROVE  /\ Ranges(from, to) \in Seq([from : Nat \ {0}, to : 0..to])
           /\ \A b \in Nat : b \in from..to <=>
                 \E i \in DOMAIN Ranges(from, to) : b \in Ranges(from, to)[i].from..Ranges(from, to)[i].to
<1> DEFINE c == ChunkSize
           n == IF from > to THEN 0 ELSE (to - from) \div c + 1
           start(i) == from + (i - 1) * c
           end(i) == IF start(i) + c - 1 > to THEN to ELSE start(i) + c - 1
<1>1. c \in Nat \ {0}
  BY RegistryIndexAssumption
<1>2. \A a \in Nat : (a \div c) \in Nat /\ (a \div c) * c <= a /\ a < (a \div c) * c + c
  <2> HIDE DEF c
  <2>1. QED
    BY <1>1
<1>3. \A a \in Nat, b \in Nat : a <= b => (a \div c) <= (b \div c)
  <2> HIDE DEF c
  <2>1. QED
    BY <1>1
<1>4. n \in Nat
  BY <1>2
<1>5. Ranges(from, to) = [i \in 1..n |-> [from |-> start(i), to |-> end(i)]]
  BY DEF Ranges
<1>6. \A i \in 1..n : i - 1 \in Nat /\ (i - 1) * c \in Nat
  <2> HIDE DEF c, n
  <2>1. \A k \in Nat : k * c \in Nat
    BY <1>1
  <2>2. QED
    BY <1>4, <2>1
<1>7. \A i \in 1..n : start(i) \in Nat \ {0} /\ start(i) >= from /\ end(i) \in Nat /\ end(i) <= to
  <2>1. \A k \in Nat : from + k \in Nat \ {0} /\ from + k >= from
    OBVIOUS
  <2>2. \A k \in Nat \ {0} : (IF k + c - 1 > to THEN to ELSE k + c - 1) \in 0..to
    BY <1>1
  <2> HIDE DEF c, n
  <2>3. QED
    BY <1>6, <2>1, <2>2
<1>8. Ranges(from, to) \in Seq([from : Nat \ {0}, to : 0..to])
  <2> HIDE DEF start, end, n
  <2>1. \A i \in 1..n : [from |-> start(i), to |-> end(i)] \in [from : Nat \ {0}, to : 0..to]
    BY <1>7
  <2>2. QED
    BY <1>4, <1>5, <2>1
<1>9. ASSUME NEW b \in Nat, b \in from..to
      PROVE  \E i \in 1..n : b \in start(i)..end(i)
  <2> DEFINE k == (b - from) \div c
  <2>1. b - from \in Nat /\ to - from \in Nat /\ b - from <= to - from /\ ~(from > to)
    BY <1>9
  <2>2. k \in Nat /\ k * c <= b - from /\ b - from < k * c + c /\ k <= (to - from) \div c /\ k * c \in Nat
    <3>1. k \in Nat /\ k * c <= b - from /\ b - from < k * c + c /\ k <= (to - from) \div c
      BY <1>2, <1>3, <2>1
    <3> HIDE DEF k, c
    <3>2. QED
      BY <1>1, <3>1
  <2>3. k + 1 \in 1..n
    <3>1. (to - from) \div c \in Nat /\ n = (to - from) \div c + 1
      BY <1>2, <2>1
    <3> HIDE DEF k, c, n
    <3>2. QED
      BY <2>2, <3>1
  <2>4. start(k + 1) = from + k * c
    <3> HIDE DEF k, c
    <3>1. (k + 1) - 1 = k
      BY <2>2
    <3>2. QED
      BY <3>1
  <2>5. b \in start(k + 1)..end(k + 1)
    <3> DEFINE first == start(k + 1)
    <3>1. first = from + k * c /\ end(k + 1) = IF first + c - 1 > to THEN to ELSE first + c - 1
      BY <2>4
    <3> HIDE DEF first, k, c, end
    <3>2. QED
      BY <1>1, <1>9, <2>2, <3>1
  <2>6. QED
    BY <2>3, <2>5
<1>10. ASSUME NEW b \in Nat, NEW i \in 1..n, b \in start(i)..end(i)
       PROVE  b \in from..to
  <2> HIDE DEF start, end, n
  <2>1. QED
    BY <1>7, <1>10
<1>11. DOMAIN Ranges(from, to) = 1..n
       /\ \A i \in 1..n : Ranges(from, to)[i].from = start(i) /\ Ranges(from, to)[i].to = end(i)
  <2> HIDE DEF start, end, n
  <2>1. QED
    BY <1>5
<1>12. QED
  <2> HIDE DEF start, end, n
  <2>1. QED
    BY <1>8, <1>9, <1>10, <1>11, Zenon

\* getLogsChunked: the runs of all blocks of the range that the node knows.
LEMMA QueryLists ==
    ASSUME Ordered, NEW view \in 0..Len(chain), NEW from \in Nat \ {0}, NEW to \in 0..Len(chain)
    PROVE  /\ GetLogs(from, to, view) \in Seq(Run)
           /\ \A r \in Run : r \in ToSet(GetLogs(from, to, view))
                                <=> \E b \in from..to : b <= view /\ chain[b].run = r
<1> DEFINE ranges == Ranges(from, to)
           logs == [i \in DOMAIN ranges |-> LogsIn(ranges[i], view)]
           last(i) == IF ranges[i].to > view THEN view ELSE ranges[i].to
<1>1. to \in Nat /\ view \in Nat /\ Len(chain) \in Nat
  BY Timed
<1>2. ranges \in Seq([from : Nat \ {0}, to : 0..to])
      /\ \A b \in Nat : b \in from..to <=> \E i \in DOMAIN ranges : b \in ranges[i].from..ranges[i].to
  BY <1>1, RangesCover
<1> HIDE DEF ranges
<1>3. \A i \in DOMAIN ranges : ranges[i].from \in Nat \ {0} /\ ranges[i].to \in Nat /\ ranges[i].to \in 0..Len(chain)
  <2>1. \A i \in DOMAIN ranges : ranges[i] \in [from : Nat \ {0}, to : 0..to]
    <3> DEFINE R == [from : Nat \ {0}, to : 0..to]
    <3>1. ranges \in Seq(R)
      BY <1>2
    <3> HIDE DEF R
    <3>2. \A i \in DOMAIN ranges : ranges[i] \in R
      BY <3>1
    <3>3. QED
      BY <3>2 DEF R
  <2>2. \A x \in [from : Nat \ {0}, to : 0..to] : x.from \in Nat \ {0} /\ x.to \in 0..to
    OBVIOUS
  <2>3. \A k \in 0..to : k \in Nat /\ k \in 0..Len(chain)
    BY <1>1
  <2>4. QED
    BY <2>1, <2>2, <2>3, Zenon
<1>4. \A i \in DOMAIN ranges : LogsIn(ranges[i], view) \in Seq(Run)
                               /\ ToSet(LogsIn(ranges[i], view)) = Events(ranges[i].from, last(i))
  BY <1>3, RangeListed
<1>5. Len(ranges) \in Nat /\ DOMAIN ranges = 1..Len(ranges)
  BY <1>2
<1>6. logs \in Seq(Seq(Run)) /\ Len(logs) = Len(ranges) /\ \A i \in 1..Len(ranges) : logs[i] = LogsIn(ranges[i], view)
  BY <1>4, <1>5
<1> HIDE DEF logs
<1>7. GetLogs(from, to, view) = FlattenSeq(logs)
  BY DEF GetLogs, logs, ranges
<1>8. GetLogs(from, to, view) \in Seq(Run)
      /\ \A r : r \in ToSet(GetLogs(from, to, view)) <=> \E i \in 1..Len(logs) : r \in ToSet(logs[i])
  BY <1>6, <1>7, Flattened
<1>9. \A i \in 1..Len(ranges) : ToSet(logs[i]) = Events(ranges[i].from, last(i))
  BY <1>4, <1>5, <1>6
<1>10. \A r : r \in ToSet(GetLogs(from, to, view)) <=> \E i \in 1..Len(ranges) : r \in Events(ranges[i].from, last(i))
  <2>1. \A r : r \in ToSet(GetLogs(from, to, view)) <=> \E i \in 1..Len(ranges) : r \in ToSet(logs[i])
    <3>1. Len(logs) = Len(ranges)
      BY <1>6
    <3>2. QED
      BY <1>8, <3>1
  <2> HIDE DEF last
  <2>2. QED
    BY <1>9, <2>1
<1>11. \A i \in 1..Len(ranges), b \in Nat :
          b \in ranges[i].from..last(i) <=> b \in ranges[i].from..ranges[i].to /\ b <= view
  BY <1>1, <1>3, <1>5
<1>12. \A i \in 1..Len(ranges) : \A b : b \in ranges[i].from..last(i) => b \in Nat
  BY <1>1, <1>3, <1>5
<1>13. \A b : b \in from..to => b \in Nat
  BY <1>1
<1>14. ASSUME NEW r \in Run
       PROVE  r \in ToSet(GetLogs(from, to, view)) <=> \E b \in from..to : b <= view /\ chain[b].run = r
  <2> HIDE DEF last
  <2>1. r \in ToSet(GetLogs(from, to, view))
            <=> \E i \in 1..Len(ranges) : \E b \in ranges[i].from..last(i) : chain[b].run = r
    BY <1>10, Zenon DEF Events
  <2>2. QED
    BY <1>2, <1>5, <1>11, <1>12, <1>13, <2>1, Zenon
<1>15. QED
  BY <1>8, <1>14

-----------------------------------------------------------------------------
(* The inductive invariant                                                 *)

\* Blocks are in order, hold a run at most once and only once it is published,
\* and a reorganisation takes back no more than the newest Depth of them.
ChainInv ==
    /\ Ordered
    /\ Len(chain) \in 1..MaxBlock
    /\ now \in 0..MaxTime
    /\ \A b \in DOMAIN chain : chain[b].time <= now
    /\ \A i, j \in DOMAIN chain : chain[i].run = chain[j].run /\ chain[i].run # None => i = j
    /\ \A b \in DOMAIN chain : chain[b].run # None => published[chain[b].run] # None
    /\ head \in 1..MaxBlock /\ Len(chain) <= head /\ head <= Len(chain) + Depth

IsRow(row) ==
    /\ row = [evidence |-> row.evidence, own |-> row.own, hint |-> row.hint,
              published |-> row.published, generated |-> row.generated]
    /\ row.own \in BOOLEAN /\ row.published \in BOOLEAN
    /\ row.hint \in {"own", "stray", "missing"} /\ row.generated \in Nat
    /\ row.own => row.evidence \in Evidence

\* A row that nobody touched is the record of a published run that verifies.
RowInv ==
    /\ published \in [Run -> Evidence \cup {None}]
    /\ db = [r \in Run |-> db[r]]
    /\ \A r \in Run : db[r] # None => IsRow(db[r])
    /\ \A r \in Run \ spoiled : db[r] # None =>
          published[r] \in Evidence /\ Sound(published[r]) /\ db[r] = Record(r)
    /\ spoiled \subseteq Run /\ faults \in 0..MaxFaults

\* The block of r is at least Overlap blocks below a limit.
Deep(r, limit) == \E b \in DOMAIN chain : chain[b].run = r /\ b + Overlap <= limit

Accounted(r) == db[r] # None \/ r \in spoiled

\* The cursor is behind no run that is missing from the index.
CursorInv ==
    /\ cursor \in 0..MaxBlock /\ cursor <= head
    /\ \A r \in Run : Deep(r, cursor) /\ Sound(published[r]) => Accounted(r)

\* Nor is the block where a pass will put it, except for the runs still queued.
PassInv ==
    /\ pass \in [pc : {"idle", "scan"}, latest : 0..MaxBlock, queue : Seq(Run)]
    /\ pass.pc = "scan" =>
          /\ pass.latest <= head
          /\ \A r \in Run : Deep(r, pass.latest) /\ Sound(published[r]) =>
                Accounted(r) \/ r \in ToSet(pass.queue)

Inv == ChainInv /\ RowInv /\ CursorInv /\ PassInv

-----------------------------------------------------------------------------
(* What the invariant says of the operators                                *)

LEMMA Numbers ==
    /\ Overlap \in Nat /\ Lag \in Nat /\ Depth \in Nat /\ Lag + Depth <= Overlap
    /\ MaxTime \in Nat /\ MaxFaults \in Nat /\ MaxBlock \in Nat \ {0}
    /\ None \notin Run /\ None \notin Evidence
    /\ \A e \in Evidence : e.generated \in Nat
  BY RegistryIndexAssumption

\* The chain as numbers and blocks.
LEMMA ChainFacts ==
    ASSUME ChainInv
    PROVE  /\ Len(chain) \in Nat /\ DOMAIN chain = 1..Len(chain) /\ Len(chain) >= 1
           /\ chain \in Seq(Block)
           /\ \A b \in 1..Len(chain) : chain[b].time \in Nat /\ chain[b].run \in Run \cup {None}
           /\ head \in Nat /\ now \in Nat /\ Len(chain) <= head /\ head <= Len(chain) + Depth
<1>1. Ordered /\ Len(chain) \in 1..MaxBlock /\ now \in 0..MaxTime /\ head \in 1..MaxBlock
      /\ Len(chain) <= head /\ head <= Len(chain) + Depth
  BY DEF ChainInv
<1>2. chain \in Seq(Block)
  BY <1>1 DEF Ordered
<1>3. Len(chain) \in Nat /\ DOMAIN chain = 1..Len(chain) /\ \A b \in 1..Len(chain) : chain[b] \in Block
  BY <1>2
<1>4. \A block \in Block : block.time \in Nat /\ block.run \in Run \cup {None}
  BY DEF Block
<1>5. QED
  BY <1>1, <1>2, <1>3, <1>4, Numbers

\* Position is the one block that holds a run.
LEMMA PositionIs ==
    ASSUME ChainInv, NEW r \in Run, NEW b \in DOMAIN chain, chain[b].run = r
    PROVE  OnChain(r) /\ Position(r) = b
<1>1. Position(r) \in DOMAIN chain /\ chain[Position(r)].run = r
  BY Zenon DEF Position
<1>2. \A i, j \in DOMAIN chain : chain[i].run = chain[j].run /\ chain[i].run # None => i = j
  BY DEF ChainInv
<1>3. r # None
  BY Numbers
<1>4. Position(r) = b
  BY <1>1, <1>2, <1>3, Zenon
<1>5. QED
  BY <1>4, Zenon DEF OnChain

\* What is on the chain has a position there, and was published.
LEMMA OnChainIs ==
    ASSUME ChainInv, RowInv, NEW r \in Run, OnChain(r)
    PROVE  /\ Position(r) \in 1..Len(chain) /\ chain[Position(r)].run = r
           /\ published[r] \in Evidence
<1>1. PICK b \in DOMAIN chain : chain[b].run = r
  BY DEF OnChain
<1>2. Position(r) = b
  BY <1>1, PositionIs
<1>3. published[r] # None
  BY <1>1, Numbers DEF ChainInv
<1>4. published[r] \in Evidence
  BY <1>3 DEF RowInv
<1>5. QED
  BY <1>1, <1>2, <1>4, ChainFacts

LEMMA DeepIs ==
    ASSUME ChainInv, NEW r \in Run, NEW limit
    PROVE  Deep(r, limit) <=> OnChain(r) /\ Position(r) + Overlap <= limit
<1>1. ASSUME NEW b \in DOMAIN chain, chain[b].run = r, b + Overlap <= limit
      PROVE  OnChain(r) /\ Position(r) + Overlap <= limit
  BY <1>1, PositionIs
<1>2. ASSUME OnChain(r), Position(r) + Overlap <= limit PROVE Deep(r, limit)
  <2>1. Position(r) \in DOMAIN chain /\ chain[Position(r)].run = r
    BY <1>2, Zenon DEF OnChain, Position
  <2>2. QED
    BY <1>2, <2>1 DEF Deep
<1>3. QED
  BY <1>1, <1>2 DEF Deep

LEMMA ViewIs ==
    ASSUME ChainInv, NEW view \in Views
    PROVE  view \in 0..Len(chain) /\ view \in Nat /\ view >= Len(chain) - Lag
  BY ChainFacts DEF Views

\* A run is located through its timestamp by every node that has its block.
LEMMA LocatedIs ==
    ASSUME ChainInv, RowInv, NEW r \in Run, NEW view \in Views, NEW hint
    PROVE  /\ Located(r, hint, view) => OnChain(r) /\ Position(r) <= view
           /\ OnChain(r) /\ Position(r) <= view /\ (hint = None \/ hint = "own") => Located(r, hint, view)
<1>1. ASSUME OnChain(r), Position(r) <= view PROVE Position(r) \in BlocksAt(chain[Position(r)].time, view)
  <2>1. Position(r) \in 1..Len(chain) /\ view \in 0..Len(chain) /\ view \in Nat
    BY <1>1, OnChainIs, ViewIs
  <2>2. Position(r) \in 1..view
    BY <1>1, <2>1
  <2>3. Ordered
    BY DEF ChainInv
  <2>4. QED
    BY <2>1, <2>2, <2>3, FoundAtItsTime
<1>2. QED
  BY <1>1, Zenon DEF Located, InReceipt

\* The fields of what load returns.
LEMMA LoadIs ==
    ASSUME NEW r, NEW hint, NEW view, NEW read \in BOOLEAN
    PROVE  LET v == Load(r, hint, view, read)
           IN  /\ v = [found |-> v.found, match |-> v.match, transfers |-> v.transfers,
                       anchored |-> v.anchored, evidence |-> v.evidence, cacheMatch |-> v.cacheMatch]
               /\ v.found \in BOOLEAN /\ v.match \in BOOLEAN /\ v.transfers \in BOOLEAN
               /\ v.found <=> Located(r, hint, view) /\ published[r].form # "unreadable"
               /\ v.match <=> Located(r, hint, view) /\ Sound(published[r]) /\ read
               /\ v.transfers => v.found
               /\ v.found => v.anchored = chain[Position(r)].time /\ v.evidence = published[r]
               /\ ~v.found => v.anchored = None /\ v.evidence = None
<1> DEFINE e == published[r]
<1>1. PICK m \in BOOLEAN : m <=> (Sound(e) /\ read)
  OBVIOUS
<1>2. PICK t \in BOOLEAN : t <=> (e.form # "unsettled" /\ read)
  OBVIOUS
<1>3. (Sound(e) /\ read) = m /\ (e.form # "unsettled" /\ read) = t
  BY <1>1, <1>2, Zenon DEF Sound
<1>4. CASE ~Located(r, hint, view) \/ e.form = "unreadable"
  <2>1. Load(r, hint, view, read) = NotFound
    BY <1>4 DEF Load
  <2>2. Sound(e) => e.form # "unreadable"
    BY DEF Sound
  <2>3. QED
    BY <1>4, <2>1, <2>2 DEF NotFound
<1>5. CASE ~(~Located(r, hint, view) \/ e.form = "unreadable")
  <2>1. Load(r, hint, view, read) =
          [NotFound EXCEPT !.found = TRUE, !.match = m, !.transfers = t, !.anchored = chain[Position(r)].time, !.evidence = e]
    BY <1>3, <1>5, Zenon DEF Load
  <2>2. Load(r, hint, view, read) =
          [found |-> TRUE, match |-> m, transfers |-> t, anchored |-> chain[Position(r)].time, evidence |-> e,
           cacheMatch |-> FALSE]
    BY <2>1 DEF NotFound
  <2>3. QED
    BY <1>1, <1>5, <2>2
<1>6. QED
  BY <1>4, <1>5

\* A record that is deep enough and sound verifies at every node.
LEMMA DeepLoads ==
    ASSUME ChainInv, RowInv, NEW r \in Run, NEW limit \in Nat, limit <= head, Deep(r, limit), Sound(published[r]),
           NEW view \in Views
    PROVE  Load(r, None, view, TRUE).match
<1>1. OnChain(r) /\ Position(r) + Overlap <= limit
  BY DeepIs
<1>2. Position(r) \in Nat
  BY <1>1, OnChainIs
<1>3. Position(r) <= view
  BY <1>1, <1>2, ChainFacts, ViewIs, Numbers
<1>4. Located(r, None, view)
  BY <1>1, <1>3, LocatedIs
<1>5. QED
  BY <1>4, LoadIs

\* A record that verifies is on the chain, published and sound.
LEMMA MatchProves ==
    ASSUME ChainInv, RowInv, NEW r \in Run, NEW hint, NEW view \in Views, NEW read \in BOOLEAN,
           Load(r, hint, view, read).match
    PROVE  OnChain(r) /\ Position(r) <= view /\ Sound(published[r]) /\ published[r] \in Evidence /\ read
  BY LoadIs, LocatedIs, OnChainIs

\* A record rebuilt from the chain is a row.
LEMMA RecordIsRow ==
    ASSUME NEW e \in Evidence
    PROVE  IsRow(RecordOf(e)) /\ RecordOf(e) # None
  BY RecordAssumption, Numbers DEF RecordOf, IsRow

\* What is left of a row that was altered is a row.
LEMMA AlteredIsRow ==
    ASSUME NEW row, IsRow(row), NEW x \in Altered(row), x # None
    PROVE  IsRow(x)
<1> DEFINE gates == [i \in Gate |-> "pass"]
<1>1. row = [evidence |-> row.evidence, own |-> row.own, hint |-> row.hint,
             published |-> row.published, generated |-> row.generated]
  BY DEF IsRow
<1>2. row.own \in BOOLEAN /\ row.published \in BOOLEAN /\ row.generated \in Nat
      /\ row.hint \in {"own", "stray", "missing"} /\ (row.own => row.evidence \in Evidence)
  BY DEF IsRow
<1>3. CASE x = [row EXCEPT !.published = FALSE]
  <2>1. x = [evidence |-> row.evidence, own |-> row.own, hint |-> row.hint,
             published |-> FALSE, generated |-> row.generated]
    BY <1>1, <1>3
  <2>2. QED
    BY <1>2, <2>1 DEF IsRow
<1>4. CASE x = [row EXCEPT !.own = FALSE, !.evidence.status = "verified", !.evidence.gates = gates]
  <2> HIDE DEF gates
  <2>1. PICK e : e = [[row.evidence EXCEPT !.status = "verified"] EXCEPT !.gates = gates]
    BY Zenon
  <2>2. x = [evidence |-> e, own |-> FALSE, hint |-> row.hint,
             published |-> row.published, generated |-> row.generated]
    BY <1>1, <1>4, <2>1
  <2>3. QED
    BY <1>2, <2>2 DEF IsRow
<1>5. ASSUME NEW h \in {"stray", "missing"}, x = [row EXCEPT !.hint = h] PROVE IsRow(x)
  <2>1. x = [evidence |-> row.evidence, own |-> row.own, hint |-> h,
             published |-> row.published, generated |-> row.generated]
    BY <1>1, <1>5
  <2>2. QED
    BY <1>2, <2>1 DEF IsRow
<1>6. QED
  BY <1>3, <1>4, <1>5 DEF Altered

-----------------------------------------------------------------------------
(* The chain moves                                                         *)

\* At first there is one block, which holds no run.
LEMMA InitInv == Init => Inv
<1> SUFFICES ASSUME Init PROVE Inv
  OBVIOUS
<1>1. chain = <<[time |-> 0, run |-> None]>> /\ head = 1 /\ published = [r \in Run |-> None]
      /\ db = [r \in Run |-> None] /\ cursor = 0 /\ pass = Idle /\ now = 0 /\ faults = MaxFaults /\ spoiled = {}
  BY DEF Init
<1>2. [time |-> 0, run |-> None] \in Block
  BY DEF Block
<1>3. chain \in Seq(Block) /\ Len(chain) = 1 /\ DOMAIN chain = {1} /\ chain[1] = [time |-> 0, run |-> None]
  BY <1>1, <1>2
<1>4. ChainInv
  BY <1>1, <1>3, Numbers DEF ChainInv, Ordered
<1>5. RowInv
  BY <1>1, Numbers DEF RowInv
<1>6. \A r \in Run : \A limit : ~Deep(r, limit)
  BY <1>3, Numbers DEF Deep
<1>7. CursorInv
  BY <1>1, <1>6, Numbers DEF CursorInv
<1>8. PassInv
  BY <1>1, Numbers DEF PassInv, Idle
<1>9. QED
  BY <1>4, <1>5, <1>7, <1>8 DEF Inv

\* A block more, of a run that is in none yet.
LEMMA NewBlockChain ==
    ASSUME ChainInv, NEW r \in Run \cup {None}, NewBlock(r), now' = now,
           r # None => ~OnChain(r) /\ published'[r] # None,
           \A q \in Run : published[q] # None => published'[q] = published[q]
    PROVE  /\ ChainInv' /\ head <= head'
           /\ Len(chain') = Len(chain) + 1 /\ chain'[Len(chain) + 1].run = r /\ head <= Len(chain) + Depth
           /\ \A b \in 1..Len(chain) : chain'[b] = chain[b]
<1> DEFINE new == [time |-> now, run |-> r]
           n   == Len(chain)
<1>1. n < MaxBlock /\ chain' = Append(chain, new) /\ head' = IF n < head THEN head ELSE n + 1
  BY DEF NewBlock
<1>2. /\ n \in Nat /\ DOMAIN chain = 1..n /\ n >= 1 /\ chain \in Seq(Block) /\ head \in Nat /\ now \in Nat
      /\ n <= head /\ head <= n + Depth
      /\ \A b \in 1..n : chain[b].time \in Nat /\ chain[b].run \in Run \cup {None}
  BY ChainFacts
<1>3. new \in Block
  BY <1>2 DEF Block
<1>4. new.time = now /\ new.run = r
  OBVIOUS
<1> HIDE DEF new
<1>5. /\ chain' \in Seq(Block) /\ Len(chain') = n + 1 /\ DOMAIN chain' = 1..n + 1
      /\ \A b \in 1..n : chain'[b] = chain[b]
      /\ chain'[n + 1] = new
  BY <1>1, <1>2, <1>3
<1>6. /\ \A i, j \in DOMAIN chain : i <= j => chain[i].time <= chain[j].time
      /\ \A b \in DOMAIN chain : chain[b].time <= now
      /\ \A i, j \in DOMAIN chain : chain[i].run = chain[j].run /\ chain[i].run # None => i = j
      /\ \A b \in DOMAIN chain : chain[b].run # None => published[chain[b].run] # None
      /\ now \in 0..MaxTime /\ head \in 1..MaxBlock /\ MaxBlock \in Nat
  BY Numbers DEF ChainInv, Ordered
<1> HIDE DEF n
<1>7. \A b \in 1..n + 1 : b \in 1..n \/ b = n + 1
  BY <1>2
<1>8. Ordered'
  <2>1. \A i, j \in DOMAIN chain' : i <= j => chain'[i].time <= chain'[j].time
    <3>1. SUFFICES ASSUME NEW i \in 1..n + 1, NEW j \in 1..n + 1, i <= j PROVE chain'[i].time <= chain'[j].time
      BY <1>5
    <3>2. CASE j \in 1..n
      BY <1>2, <1>5, <1>6, <3>1, <3>2
    <3>3. CASE j = n + 1 /\ i \in 1..n
      BY <1>2, <1>4, <1>5, <1>6, <3>3
    <3>4. CASE j = n + 1 /\ i = n + 1
      BY <1>2, <1>4, <1>5, <3>4
    <3>5. QED
      BY <1>2, <1>7, <3>1, <3>2, <3>3, <3>4
  <2>2. QED
    BY <1>5, <2>1 DEF Ordered
<1>9. \A b \in DOMAIN chain' : chain'[b].time <= now'
  BY <1>2, <1>4, <1>5, <1>6, <1>7
<1>10. \A i, j \in DOMAIN chain' : chain'[i].run = chain'[j].run /\ chain'[i].run # None => i = j
  <2>1. \A b \in 1..n : r # None => chain[b].run # r
    BY <1>2, Zenon DEF OnChain
  <2>2. QED
    BY <1>2, <1>4, <1>5, <1>6, <1>7, <2>1
<1>11. \A b \in DOMAIN chain' : chain'[b].run # None => published'[chain'[b].run] # None
  <2>1. \A b \in 1..n : chain'[b].run # None => published'[chain'[b].run] # None
    BY <1>2, <1>5, <1>6
  <2>2. QED
    BY <1>4, <1>5, <1>7, <2>1
<1>12. /\ n + 1 \in 1..MaxBlock /\ head' \in 1..MaxBlock /\ n + 1 <= head' /\ head' <= (n + 1) + Depth
       /\ head <= head'
  BY <1>1, <1>2, <1>6, Numbers
<1>13. now' \in 0..MaxTime
  BY <1>6
<1>14. ChainInv'
  BY <1>5, <1>8, <1>9, <1>10, <1>11, <1>12, <1>13 DEF ChainInv
<1>15. QED
  BY <1>2, <1>4, <1>5, <1>12, <1>14

\* The blocks that are final stay.
LEMMA ReorganiseChain ==
    ASSUME ChainInv, Reorganise
    PROVE  /\ ChainInv' /\ Len(chain') \in 1..Len(chain)
           /\ \A b \in 1..Len(chain') : chain'[b] = chain[b]
<1> DEFINE n == head - Depth
<1>1. head > Depth /\ Len(chain) > n /\ chain' = SubSeq(chain, 1, n)
      /\ head' = head /\ published' = published /\ now' = now
  BY DEF Reorganise
<1>2. /\ Len(chain) \in Nat /\ DOMAIN chain = 1..Len(chain) /\ chain \in Seq(Block) /\ head \in Nat /\ now \in Nat
      /\ Depth \in Nat
  BY ChainFacts, Numbers
<1>3. n \in 1..Len(chain)
  BY <1>1, <1>2
<1>4. n + Depth = head /\ n <= head
  BY <1>2
<1>5. /\ chain' \in Seq(Block) /\ Len(chain') = n /\ DOMAIN chain' = 1..n
      /\ \A b \in 1..n : chain'[b] = chain[b]
  <2> HIDE DEF n
  <2>1. QED
    BY <1>1, <1>2, <1>3
<1> HIDE DEF n
<1>6. \A b \in 1..n : b \in DOMAIN chain
  BY <1>2, <1>3
<1>7. /\ \A i, j \in DOMAIN chain : i <= j => chain[i].time <= chain[j].time
      /\ \A b \in DOMAIN chain : chain[b].time <= now
      /\ \A i, j \in DOMAIN chain : chain[i].run = chain[j].run /\ chain[i].run # None => i = j
      /\ \A b \in DOMAIN chain : chain[b].run # None => published[chain[b].run] # None
      /\ now \in 0..MaxTime /\ head \in 1..MaxBlock /\ MaxBlock \in Nat
  BY Numbers DEF ChainInv, Ordered
<1>8. n \in 1..MaxBlock
  BY <1>2, <1>3, <1>4, <1>7
<1>9. Ordered'
  BY <1>5, <1>6, <1>7 DEF Ordered
<1>10. ChainInv'
  BY <1>1, <1>4, <1>5, <1>6, <1>7, <1>8, <1>9 DEF ChainInv
<1>11. QED
  BY <1>3, <1>5, <1>10

\* Nothing on the chain moves.
LEMMA StillChain ==
    ASSUME ChainInv, UNCHANGED <<chain, head, now, published>>
    PROVE  ChainInv'
  BY DEF ChainInv, Ordered

LEMMA TickChain ==
    ASSUME ChainInv, Tick
    PROVE  ChainInv'
<1>1. now < MaxTime /\ now' = now + 1 /\ chain' = chain /\ head' = head /\ published' = published
  BY DEF Tick
<1>2. now \in Nat /\ MaxTime \in Nat /\ \A b \in DOMAIN chain : chain[b].time \in Nat
  BY ChainFacts, Numbers
<1>3. now' \in 0..MaxTime /\ \A b \in DOMAIN chain' : chain'[b].time <= now'
  BY <1>1, <1>2 DEF ChainInv
<1>4. QED
  BY <1>1, <1>3 DEF ChainInv, Ordered

-----------------------------------------------------------------------------
(* What no step takes back                                                 *)

\* The chain of a step: nothing below the head of before comes up that was not
\* there, nothing published is replaced, no row goes unaccounted for.
Kept ==
    /\ head <= head'
    /\ \A r \in Run, limit \in 0..head : Deep(r, limit)' => Deep(r, limit)
    /\ \A r \in Run : published[r] # None => published'[r] = published[r]
    /\ \A r \in Run : Accounted(r) => Accounted(r)'

LEMMA StillKept ==
    ASSUME ChainInv, UNCHANGED <<chain, head, published>>, \A r \in Run : Accounted(r) => Accounted(r)'
    PROVE  Kept
  BY ChainFacts DEF Kept, Deep

LEMMA NewBlockKept ==
    ASSUME ChainInv, NEW r \in Run \cup {None}, NewBlock(r), now' = now,
           r # None => ~OnChain(r) /\ published'[r] # None,
           \A q \in Run : published[q] # None => published'[q] = published[q],
           UNCHANGED <<db, spoiled>>
    PROVE  ChainInv' /\ Kept
<1>1. /\ ChainInv' /\ head <= head'
      /\ Len(chain') = Len(chain) + 1 /\ chain'[Len(chain) + 1].run = r /\ head <= Len(chain) + Depth
      /\ \A b \in 1..Len(chain) : chain'[b] = chain[b]
  BY NewBlockChain
<1>2. Len(chain) \in Nat /\ DOMAIN chain = 1..Len(chain) /\ head \in Nat
  BY ChainFacts
<1>3. DOMAIN chain' = 1..Len(chain) + 1
  <2>1. chain' \in Seq(Block)
    BY <1>1 DEF ChainInv, Ordered
  <2>2. QED
    BY <1>1, <2>1
<1>4. \A b \in DOMAIN chain' : b \in DOMAIN chain \/ b = Len(chain) + 1
  BY <1>2, <1>3
<1>5. \A limit \in 0..head : ~(Len(chain) + 1 + Overlap <= limit)
  BY <1>1, <1>2, Numbers
<1>6. \A q \in Run, limit \in 0..head : Deep(q, limit)' => Deep(q, limit)
  BY <1>1, <1>2, <1>4, <1>5 DEF Deep
<1>7. QED
  BY <1>1, <1>6 DEF Kept, Accounted

LEMMA ReorganiseKept ==
    ASSUME ChainInv, Reorganise
    PROVE  ChainInv' /\ Kept
<1>1. /\ ChainInv' /\ Len(chain') \in 1..Len(chain)
      /\ \A b \in 1..Len(chain') : chain'[b] = chain[b]
  BY ReorganiseChain
<1>2. Len(chain) \in Nat /\ DOMAIN chain = 1..Len(chain) /\ head \in Nat
  BY ChainFacts
<1>3. DOMAIN chain' = 1..Len(chain')
  <2>1. chain' \in Seq(Block)
    BY <1>1 DEF ChainInv, Ordered
  <2>2. QED
    BY <2>1
<1>4. \A b \in DOMAIN chain' : b \in DOMAIN chain /\ chain'[b] = chain[b]
  BY <1>1, <1>2, <1>3
<1>5. \A q \in Run, limit \in 0..head : Deep(q, limit)' => Deep(q, limit)
  BY <1>4 DEF Deep
<1>6. head' = head /\ published' = published /\ db' = db /\ spoiled' = spoiled
  BY DEF Reorganise
<1>7. QED
  BY <1>1, <1>2, <1>5, <1>6 DEF Kept, Accounted

\* So the cursor stays behind no run that is missing, as long as it stays.
LEMMA CursorKept ==
    ASSUME ChainInv, RowInv, CursorInv, Kept, cursor' = cursor, ChainInv'
    PROVE  CursorInv'
<1>1. cursor \in 0..MaxBlock /\ cursor <= head /\ head \in Nat /\ head' \in Nat
  BY ChainFacts, Numbers DEF CursorInv, ChainInv
<1>2. cursor \in 0..head /\ cursor <= head'
  BY <1>1, Numbers DEF Kept
<1>3. ASSUME NEW r \in Run, Deep(r, cursor)', Sound(published'[r])
      PROVE  Accounted(r)'
  <2>1. Deep(r, cursor)
    BY <1>2, <1>3 DEF Kept, Deep
  <2>2. published[r] # None
    BY <2>1, DeepIs, OnChainIs, Numbers
  <2>3. Sound(published[r])
    BY <1>3, <2>2 DEF Kept
  <2>4. Accounted(r)
    BY <2>1, <2>3 DEF CursorInv
  <2>5. QED
    BY <2>4 DEF Kept
<1>4. QED
  BY <1>1, <1>2, <1>3 DEF CursorInv

\* Nor does a pass lose sight of one while it waits.
LEMMA PassKept ==
    ASSUME ChainInv, RowInv, PassInv, Kept, pass' = pass, ChainInv'
    PROVE  PassInv'
<1>1. SUFFICES ASSUME pass.pc = "scan"
               PROVE  /\ pass.latest <= head'
                      /\ \A r \in Run : Deep(r, pass.latest)' /\ Sound(published'[r]) =>
                            Accounted(r)' \/ r \in ToSet(pass.queue)
  BY DEF PassInv
<1>2. pass.latest \in Nat /\ pass.latest <= head /\ head \in Nat /\ head' \in Nat
  BY <1>1, ChainFacts, Numbers DEF PassInv, ChainInv
<1>3. pass.latest \in 0..head /\ pass.latest <= head'
  BY <1>2 DEF Kept
<1>4. ASSUME NEW r \in Run, Deep(r, pass.latest)', Sound(published'[r])
      PROVE  Accounted(r)' \/ r \in ToSet(pass.queue)
  <2>1. Deep(r, pass.latest)
    BY <1>3, <1>4 DEF Kept, Deep
  <2>2. published[r] # None
    BY <2>1, DeepIs, OnChainIs, Numbers
  <2>3. Sound(published[r])
    BY <1>4, <2>2 DEF Kept
  <2>4. Accounted(r) \/ r \in ToSet(pass.queue)
    BY <1>1, <2>1, <2>3 DEF PassInv
  <2>5. QED
    BY <2>4 DEF Kept
<1>5. QED
  BY <1>3, <1>4

-----------------------------------------------------------------------------
(* Every step keeps the invariant                                          *)

\* One lemma per action of the environment.
LEMMA TickInv == ASSUME Inv, Tick PROVE Inv'
<1>1. ChainInv /\ RowInv /\ CursorInv /\ PassInv
  BY DEF Inv
<1>2. UNCHANGED <<chain, head, published, db, cursor, pass, faults, spoiled>>
  BY DEF Tick
<1>3. ChainInv' /\ Kept
  BY <1>1, <1>2, TickChain, StillKept DEF Accounted
<1>4. RowInv'
  BY <1>1, <1>2 DEF RowInv, Record
<1>5. QED
  BY <1>1, <1>2, <1>3, <1>4, CursorKept, PassKept DEF Inv

LEMMA MineEmptyInv == ASSUME Inv, MineEmpty PROVE Inv'
<1>1. ChainInv /\ RowInv /\ CursorInv /\ PassInv
  BY DEF Inv
<1>2. NewBlock(None) /\ UNCHANGED <<published, db, cursor, pass, now, faults, spoiled>>
  BY DEF MineEmpty
<1>3. ChainInv' /\ Kept
  BY <1>1, <1>2, NewBlockKept
<1>4. RowInv'
  BY <1>1, <1>2 DEF RowInv, Record
<1>5. QED
  BY <1>1, <1>2, <1>3, <1>4, CursorKept, PassKept DEF Inv

LEMMA PublishInv == ASSUME Inv, NEW r \in Run, Publish(r) PROVE Inv'
<1>1. ChainInv /\ RowInv /\ CursorInv /\ PassInv
  BY DEF Inv
<1>2. published[r] = None /\ NewBlock(r) /\ UNCHANGED <<db, cursor, pass, now, faults, spoiled>>
  BY DEF Publish
<1>3. PICK e \in Evidence : published' = [published EXCEPT ![r] = e]
  BY DEF Publish
<1>4. e # None /\ published \in [Run -> Evidence \cup {None}]
  BY <1>1, Numbers DEF RowInv
<1>5. /\ published' \in [Run -> Evidence \cup {None}] /\ published'[r] = e
      /\ \A q \in Run : q # r => published'[q] = published[q]
  BY <1>3, <1>4
<1>6. \A q \in Run : published[q] # None => published'[q] = published[q]
  BY <1>2, <1>5
<1>7. ~OnChain(r)
  BY <1>1, <1>2, <1>4, OnChainIs, Numbers
<1>8. ChainInv' /\ Kept
  BY <1>1, <1>2, <1>4, <1>5, <1>6, <1>7, NewBlockKept
<1>9. RowInv'
  <2>1. \A q \in Run \ spoiled : db[q] # None => published'[q] = published[q]
    BY <1>1, <1>6, Numbers DEF RowInv
  <2>2. QED
    BY <1>1, <1>2, <1>5, <2>1 DEF RowInv, Record
<1>10. QED
  BY <1>1, <1>2, <1>8, <1>9, CursorKept, PassKept DEF Inv

LEMMA RemineInv == ASSUME Inv, NEW r \in Run, Remine(r) PROVE Inv'
<1>1. ChainInv /\ RowInv /\ CursorInv /\ PassInv
  BY DEF Inv
<1>2. published[r] # None /\ ~OnChain(r) /\ NewBlock(r)
      /\ UNCHANGED <<published, db, cursor, pass, now, faults, spoiled>>
  BY DEF Remine
<1>3. ChainInv' /\ Kept
  BY <1>1, <1>2, NewBlockKept
<1>4. RowInv'
  BY <1>1, <1>2 DEF RowInv, Record
<1>5. QED
  BY <1>1, <1>2, <1>3, <1>4, CursorKept, PassKept DEF Inv

LEMMA ReorganiseInv == ASSUME Inv, Reorganise PROVE Inv'
<1>1. ChainInv /\ RowInv /\ CursorInv /\ PassInv
  BY DEF Inv
<1>2. faults > 0 /\ faults' = faults - 1 /\ UNCHANGED <<head, published, db, cursor, pass, now, spoiled>>
  BY DEF Reorganise
<1>3. ChainInv' /\ Kept
  BY <1>1, ReorganiseKept
<1>4. faults' \in 0..MaxFaults
  BY <1>1, <1>2, Numbers DEF RowInv
<1>5. RowInv'
  BY <1>1, <1>2, <1>4 DEF RowInv, Record
<1>6. QED
  BY <1>1, <1>2, <1>3, <1>5, CursorKept, PassKept DEF Inv

\* A row is added, for a run that is published and sound.
LEMMA AddedRow ==
    ASSUME RowInv, NEW r \in Run, published[r] \in Evidence, Sound(published[r]),
           db' = [db EXCEPT ![r] = Record(r)], UNCHANGED <<published, faults, spoiled>>
    PROVE  RowInv' /\ db'[r] # None /\ \A q \in Run : Accounted(q) => Accounted(q)'
<1>1. IsRow(Record(r)) /\ Record(r) # None
  BY RecordIsRow DEF Record
<1> DEFINE row == Record(r)
<1>2. db = [q \in Run |-> db[q]] /\ db' = [db EXCEPT ![r] = row]
  BY DEF RowInv
<1>3. Record(r)' = row
  BY DEF Record
<1> HIDE DEF row
<1>4. db' = [q \in Run |-> db'[q]] /\ db'[r] = row /\ \A q \in Run : q # r => db'[q] = db[q]
  BY <1>2
<1>5. \A q \in Run : Record(q)' = Record(q)
  BY DEF Record
<1>6. \A q \in Run : db'[q] # None => IsRow(db'[q])
  BY <1>1, <1>4 DEF RowInv, row
<1>7. \A q \in Run \ spoiled : db'[q] # None =>
         published[q] \in Evidence /\ Sound(published[q]) /\ db'[q] = Record(q)'
  BY <1>3, <1>4, <1>5 DEF RowInv
<1>8. RowInv'
  BY <1>4, <1>6, <1>7 DEF RowInv
<1>9. db'[r] # None /\ \A q \in Run : db[q] # None => db'[q] # None
  BY <1>1, <1>4 DEF row
<1>10. QED
  BY <1>8, <1>9 DEF Accounted

LEMMA FinalizeInv == ASSUME Inv, NEW r \in Run, Finalize(r) PROVE Inv'
<1>1. ChainInv /\ RowInv /\ CursorInv /\ PassInv
  BY DEF Inv
<1>2. OnChain(r) /\ Sound(published[r]) /\ db' = [db EXCEPT ![r] = Record(r)]
      /\ UNCHANGED <<chain, head, published, cursor, pass, now, faults, spoiled>>
  BY DEF Finalize
<1>3. published[r] \in Evidence
  BY <1>1, <1>2, OnChainIs
<1>4. RowInv' /\ \A q \in Run : Accounted(q) => Accounted(q)'
  BY <1>1, <1>2, <1>3, AddedRow
<1>5. ChainInv' /\ Kept
  BY <1>1, <1>2, <1>4, StillChain, StillKept
<1>6. QED
  BY <1>1, <1>2, <1>4, <1>5, CursorKept, PassKept DEF Inv

LEMMA TamperInv == ASSUME Inv, NEW r \in Run, Tamper(r) PROVE Inv'
<1>1. ChainInv /\ RowInv /\ CursorInv /\ PassInv
  BY DEF Inv
<1>2. /\ faults > 0 /\ Finalized(r) /\ faults' = faults - 1 /\ spoiled' = spoiled \cup {r}
      /\ UNCHANGED <<chain, head, published, cursor, pass, now>>
  BY DEF Tamper
<1>3. PICK row \in Altered(db[r]) : db' = [db EXCEPT ![r] = row]
  BY DEF Tamper
<1>4. db[r] # None /\ IsRow(db[r]) /\ db = [q \in Run |-> db[q]]
  BY <1>1, <1>2 DEF RowInv, Finalized
<1>5. row # None => IsRow(row)
  BY <1>3, <1>4, AlteredIsRow
<1>6. db' = [q \in Run |-> db'[q]] /\ db'[r] = row /\ \A q \in Run : q # r => db'[q] = db[q]
  BY <1>3, <1>4
<1>7. \A q \in Run : db'[q] # None => IsRow(db'[q])
  BY <1>1, <1>5, <1>6 DEF RowInv
<1>8. \A q \in Run \ spoiled' : q # r /\ q \in Run \ spoiled /\ Record(q)' = Record(q)
  BY <1>2 DEF Record
<1>9. \A q \in Run \ spoiled' : db'[q] # None =>
         published[q] \in Evidence /\ Sound(published[q]) /\ db'[q] = Record(q)'
  BY <1>1, <1>6, <1>8 DEF RowInv
<1>10. spoiled' \subseteq Run /\ faults' \in 0..MaxFaults
  BY <1>1, <1>2, Numbers DEF RowInv
<1>11. RowInv'
  BY <1>1, <1>2, <1>6, <1>7, <1>9, <1>10 DEF RowInv
<1>12. \A q \in Run : Accounted(q) => Accounted(q)'
  BY <1>2, <1>6 DEF Accounted
<1>13. ChainInv' /\ Kept
  BY <1>1, <1>2, <1>12, StillChain, StillKept
<1>14. QED
  BY <1>1, <1>2, <1>11, <1>13, CursorKept, PassKept DEF Inv

\* What a pass is about to read holds every run that is missing below its end.
LEMMA BeginPassInv == ASSUME Inv, BeginPass PROVE Inv'
<1>1. ChainInv /\ RowInv /\ CursorInv /\ PassInv
  BY DEF Inv
<1>2. pass.pc = "idle" /\ UNCHANGED <<chain, head, published, db, cursor, now, faults, spoiled>>
  BY DEF BeginPass
<1>3. PICK latest \in Views \ {0}, view \in Views :
         pass' = [pc |-> "scan", latest |-> latest, queue |-> GetLogs(FromBlock(cursor), latest, view)]
  BY DEF BeginPass
<1> DEFINE from == FromBlock(cursor)
           logs == GetLogs(from, latest, view)
<1>4. /\ latest \in 0..Len(chain) /\ latest \in Nat /\ view \in 0..Len(chain) /\ view \in Nat
      /\ view >= Len(chain) - Lag
  BY <1>1, ViewIs
<1>5. Len(chain) \in Nat /\ head \in Nat /\ Len(chain) <= head /\ head \in 1..MaxBlock
      /\ DOMAIN chain = 1..Len(chain) /\ Ordered
  BY <1>1, ChainFacts DEF ChainInv
<1>6. latest <= head /\ latest \in 0..MaxBlock
  BY <1>4, <1>5, Numbers
<1>7. cursor \in Nat /\ from \in Nat \ {0} /\ (from # 1 => from = cursor - Overlap)
  BY <1>1, Numbers DEF CursorInv, FromBlock
<1>8. /\ logs \in Seq(Run)
      /\ \A r \in Run : r \in ToSet(logs) <=> \E b \in from..latest : b <= view /\ chain[b].run = r
  <2> HIDE DEF from
  <2>1. QED
    BY <1>4, <1>5, <1>7, QueryLists
<1> HIDE DEF from
<1>9. ASSUME NEW r \in Run, Deep(r, latest), Sound(published[r])
      PROVE  Accounted(r) \/ r \in ToSet(logs)
  <2>1. PICK b \in 1..Len(chain) : chain[b].run = r /\ b + Overlap <= latest
    BY <1>5, <1>9 DEF Deep
  <2>2. b <= latest /\ b <= view
    BY <1>4, <1>5, <2>1, Numbers
  <2>3. CASE b >= from
    <3>1. b \in from..latest
      BY <1>4, <1>5, <1>7, <2>1, <2>2, <2>3
    <3>2. QED
      BY <1>8, <2>1, <2>2, <3>1
  <2>4. CASE ~(b >= from)
    <3>1. b + Overlap <= cursor
      BY <1>5, <1>7, <2>1, <2>4, Numbers
    <3>2. Deep(r, cursor)
      BY <1>5, <2>1, <3>1 DEF Deep
    <3>3. QED
      BY <1>1, <1>9, <3>2 DEF CursorInv
  <2>5. QED
    BY <2>3, <2>4
<1>10. pass' = [pc |-> "scan", latest |-> latest, queue |-> logs]
  BY <1>3 DEF from
<1> HIDE DEF logs
<1>11. /\ pass' \in [pc : {"idle", "scan"}, latest : 0..MaxBlock, queue : Seq(Run)]
       /\ pass'.latest = latest /\ pass'.queue = logs
  BY <1>6, <1>8, <1>10
<1>12. ChainInv'
  BY <1>1, <1>2, StillChain
<1>13. RowInv'
  BY <1>1, <1>2 DEF RowInv, Record
<1>14. CursorInv'
  BY <1>1, <1>2 DEF CursorInv, Deep, Accounted
<1>15. PassInv'
  BY <1>2, <1>6, <1>9, <1>11 DEF PassInv, Deep, Accounted
<1>16. QED
  BY <1>12, <1>13, <1>14, <1>15 DEF Inv

\* The head of the queue may be dropped once it is accounted for, or need not be.
LEMMA Dropped ==
    ASSUME ChainInv, RowInv, PassInv, Scanning,
           pass' = [pass EXCEPT !.queue = Tail(@)],
           UNCHANGED <<chain, head, published>>,
           \A r \in Run : Accounted(r) => Accounted(r)',
           \A r \in Run :
               r = Head(pass.queue) /\ Deep(r, pass.latest) /\ Sound(published[r]) => Accounted(r)'
    PROVE  PassInv'
<1> DEFINE queue == pass.queue
<1>1. pass \in [pc : {"idle", "scan"}, latest : 0..MaxBlock, queue : Seq(Run)]
  BY DEF PassInv
<1>2. pass.pc = "scan" /\ queue # <<>> /\ queue \in Seq(Run)
  BY <1>1 DEF Scanning
<1>3. /\ pass' \in [pc : {"idle", "scan"}, latest : 0..MaxBlock, queue : Seq(Run)]
      /\ pass'.latest = pass.latest /\ pass'.queue = Tail(queue)
  <2> HIDE DEF queue
  <2>1. Tail(queue) \in Seq(Run)
    BY <1>2
  <2>2. QED
    BY <1>1, <2>1 DEF queue
<1>4. \A r : r \in ToSet(queue) => r = Head(queue) \/ r \in ToSet(Tail(queue))
  <2> HIDE DEF queue
  <2>1. Len(queue) \in Nat /\ Len(queue) >= 1 /\ DOMAIN queue = 1..Len(queue) /\ Head(queue) = queue[1]
        /\ DOMAIN Tail(queue) = 1..Len(queue) - 1 /\ \A i \in 1..Len(queue) - 1 : Tail(queue)[i] = queue[i + 1]
    BY <1>2
  <2>2. ASSUME NEW i \in 1..Len(queue), i # 1 PROVE queue[i] \in ToSet(Tail(queue))
    <3>1. i - 1 \in 1..Len(queue) - 1 /\ (i - 1) + 1 = i
      BY <2>1, <2>2
    <3>2. Tail(queue)[i - 1] = queue[i]
      BY <2>1, <3>1
    <3>3. QED
      BY <2>1, <3>1, <3>2 DEF ToSet
  <2>3. QED
    BY <2>1, <2>2 DEF ToSet
<1>5. pass.latest <= head /\ \A r \in Run : Deep(r, pass.latest) /\ Sound(published[r]) =>
         Accounted(r) \/ r \in ToSet(queue)
  BY <1>2 DEF PassInv
<1>6. ASSUME NEW r \in Run, Deep(r, pass.latest), Sound(published[r])
      PROVE  Accounted(r)' \/ r \in ToSet(Tail(queue))
  <2>1. Accounted(r) \/ r = Head(queue) \/ r \in ToSet(Tail(queue))
    BY <1>4, <1>5, <1>6
  <2>2. Accounted(r) => Accounted(r)'
    OBVIOUS
  <2>3. r = Head(queue) => Accounted(r)'
    BY <1>6 DEF queue
  <2>4. QED
    BY <2>1, <2>2, <2>3
<1> HIDE DEF queue
<1>7. QED
  BY <1>3, <1>5, <1>6 DEF PassInv, Deep

LEMMA HeadRun == ASSUME PassInv, Scanning PROVE Head(pass.queue) \in Run
<1> DEFINE queue == pass.queue
<1>1. queue \in Seq(Run) /\ queue # <<>>
  BY DEF PassInv, Scanning
<1> HIDE DEF queue
<1>2. Head(queue) \in Run
  BY <1>1
<1>3. QED
  BY <1>2 DEF queue

LEMMA QuarantineInv == ASSUME Inv, Quarantine PROVE Inv'
<1>1. ChainInv /\ RowInv /\ CursorInv /\ PassInv
  BY DEF Inv
<1> DEFINE r == Head(pass.queue)
<1>2. /\ Scanning /\ pass' = [pass EXCEPT !.queue = Tail(@)]
      /\ UNCHANGED <<chain, head, published, db, cursor, now, faults, spoiled>>
  BY DEF Quarantine
<1>3. PICK view \in Views : ~Load(r, None, view, TRUE).match
  BY DEF Quarantine
<1>4. r \in Run
  BY <1>1, <1>2, HeadRun
<1>5. pass.latest \in Nat /\ pass.latest <= head
  BY <1>1, <1>2, Numbers DEF PassInv, Scanning
<1> HIDE DEF r
<1>6. ~(Deep(r, pass.latest) /\ Sound(published[r]))
  BY <1>1, <1>3, <1>4, <1>5, DeepLoads
<1>7. \A q \in Run : Accounted(q) => Accounted(q)'
  BY <1>2 DEF Accounted
<1>8. PassInv'
  BY <1>1, <1>2, <1>6, <1>7, Dropped DEF r
<1>9. ChainInv' /\ Kept
  BY <1>1, <1>2, <1>7, StillChain, StillKept
<1>10. RowInv'
  BY <1>1, <1>2 DEF RowInv, Record
<1>11. QED
  BY <1>1, <1>2, <1>8, <1>9, <1>10, CursorKept DEF Inv

LEMMA QuarantineUnreadInv == ASSUME Inv, QuarantineUnread PROVE Inv'
<1>1. ChainInv /\ RowInv /\ CursorInv /\ PassInv
  BY DEF Inv
<1> DEFINE r == Head(pass.queue)
<1>2. /\ Scanning /\ faults > 0 /\ pass' = [pass EXCEPT !.queue = Tail(@)]
      /\ faults' = faults - 1 /\ spoiled' = spoiled \cup {r}
      /\ UNCHANGED <<chain, head, published, db, cursor, now>>
  BY DEF QuarantineUnread
<1>3. r \in Run
  BY <1>1, <1>2, HeadRun
<1> HIDE DEF r
<1>4. \A q \in Run : Accounted(q) \/ q = Head(pass.queue) => Accounted(q)'
  <2>1. db' = db /\ spoiled \subseteq spoiled' /\ Head(pass.queue) \in spoiled'
    BY <1>2 DEF r
  <2>2. QED
    BY <2>1 DEF Accounted
<1>5. PassInv'
  BY <1>1, <1>2, <1>4, Dropped
<1>6. ChainInv' /\ Kept
  BY <1>1, <1>2, <1>4, StillChain, StillKept
<1>7. spoiled' \subseteq Run /\ faults' \in 0..MaxFaults /\ Run \ spoiled' \subseteq Run \ spoiled
  BY <1>1, <1>2, <1>3, Numbers DEF RowInv
<1>8. RowInv'
  BY <1>1, <1>2, <1>7 DEF RowInv, Record
<1>9. QED
  BY <1>1, <1>2, <1>5, <1>6, <1>8, CursorKept DEF Inv

LEMMA IndexRecordInv == ASSUME Inv, IndexRecord PROVE Inv'
<1>1. ChainInv /\ RowInv /\ CursorInv /\ PassInv
  BY DEF Inv
<1> DEFINE r == Head(pass.queue)
<1>2. /\ Scanning /\ pass' = [pass EXCEPT !.queue = Tail(@)]
      /\ UNCHANGED <<chain, head, published, cursor, now, faults, spoiled>>
      /\ db' = IF Finalized(r) THEN db ELSE [db EXCEPT ![r] = Record(r)]
  BY DEF IndexRecord
<1>3. PICK view \in Views : Load(r, None, view, TRUE).match
  BY DEF IndexRecord
<1>4. r \in Run
  BY <1>1, <1>2, HeadRun
<1> HIDE DEF r
<1>5. published[r] \in Evidence /\ Sound(published[r])
  BY <1>1, <1>3, <1>4, MatchProves
<1>6. RowInv' /\ db'[r] # None /\ \A q \in Run : Accounted(q) => Accounted(q)'
  <2>1. CASE Finalized(r)
    BY <1>1, <1>2, <2>1 DEF RowInv, Record, Finalized, Accounted
  <2>2. CASE ~Finalized(r)
    BY <1>1, <1>2, <1>4, <1>5, <2>2, AddedRow
  <2>3. QED
    BY <2>1, <2>2
<1>7. PassInv'
  <2>1. \A q \in Run : q = Head(pass.queue) => Accounted(q)'
    BY <1>6 DEF r, Accounted
  <2>2. QED
    BY <1>1, <1>2, <1>6, <2>1, Dropped
<1>8. ChainInv' /\ Kept
  BY <1>1, <1>2, <1>6, StillChain, StillKept
<1>9. QED
  BY <1>1, <1>2, <1>6, <1>7, <1>8, CursorKept DEF Inv

\* A pass that ends early leaves the cursor where it was.
LEMMA IdleInv ==
    ASSUME Inv, pass' = Idle, UNCHANGED <<chain, head, published, db, cursor, now, faults, spoiled>>
    PROVE  Inv'
<1>1. ChainInv /\ RowInv /\ CursorInv
  BY DEF Inv
<1>2. ChainInv'
  BY <1>1, StillChain
<1>3. RowInv'
  BY <1>1 DEF RowInv, Record
<1>4. CursorInv'
  BY <1>1 DEF CursorInv, Deep, Accounted
<1>5. PassInv'
  BY Numbers DEF PassInv, Idle
<1>6. QED
  BY <1>2, <1>3, <1>4, <1>5 DEF Inv

\* A pass that ends with an empty queue has accounted for all it put behind it.
LEMMA EndPassInv == ASSUME Inv, EndPass PROVE Inv'
<1>1. ChainInv /\ RowInv /\ PassInv
  BY DEF Inv
<1>2. /\ pass.pc = "scan" /\ pass.queue = <<>> /\ cursor' = pass.latest /\ pass' = Idle
      /\ UNCHANGED <<chain, head, published, db, now, faults, spoiled>>
  BY DEF EndPass
<1>3. ChainInv'
  BY <1>1, <1>2, StillChain
<1>4. RowInv'
  BY <1>1, <1>2 DEF RowInv, Record
<1>5. ToSet(<<>>) = {}
  BY DEF ToSet
<1>6. CursorInv'
  BY <1>1, <1>2, <1>5 DEF CursorInv, PassInv, Deep, Accounted
<1>7. PassInv'
  BY <1>2, Numbers DEF PassInv, Idle
<1>8. QED
  BY <1>3, <1>4, <1>6, <1>7 DEF Inv

LEMMA StepInv == Inv /\ [IndexNext]_vars => Inv'
<1> SUFFICES ASSUME Inv, [IndexNext]_vars PROVE Inv'
  OBVIOUS
<1>1. CASE Environment
  BY <1>1, TickInv, MineEmptyInv, ReorganiseInv, PublishInv, FinalizeInv, RemineInv, TamperInv DEF Environment
<1>2. CASE RebuildIndex
  <2>1. CASE IndexConflict
    BY <2>1, IdleInv DEF IndexConflict
  <2>2. CASE AbortPass
    BY <2>2, IdleInv DEF AbortPass
  <2>3. QED
    BY <1>2, <2>1, <2>2, BeginPassInv, QuarantineInv, QuarantineUnreadInv, IndexRecordInv, EndPassInv DEF RebuildIndex
<1>3. CASE UNCHANGED vars
  BY <1>3 DEF vars, Inv, ChainInv, Ordered, RowInv, Record, CursorInv, PassInv, Deep, Accounted
<1>4. QED
  BY <1>1, <1>2, <1>3 DEF IndexNext

-----------------------------------------------------------------------------
(* What follows from it.  The lemmas are of a state: PassportServiceProofs  *)
(* cites them for the specification with the gate's checks.                *)

LEMMA TypedState == Inv => TypeOK
<1> SUFFICES ASSUME Inv PROVE TypeOK
  OBVIOUS
<1>1. ChainInv /\ RowInv /\ CursorInv /\ PassInv
  BY DEF Inv
<1>2. \A b \in DOMAIN chain : chain[b].time \in 0..now /\ chain[b].run \in Run \cup {None}
  <2>1. now \in Nat /\ \A b \in DOMAIN chain : chain[b].time \in Nat /\ chain[b].time <= now
    BY <1>1, ChainFacts DEF ChainInv
  <2>2. \A b \in DOMAIN chain : chain[b].run \in Run \cup {None}
    BY <1>1, ChainFacts
  <2>3. QED
    BY <2>1, <2>2
<1>3. \A r \in Run : db[r] # None =>
          db[r].hint \in {"own", "stray", "missing"} /\ (db[r].own => db[r].evidence \in Evidence)
  BY <1>1 DEF RowInv, IsRow
<1>4. {cursor, head} \subseteq 0..MaxBlock
  <2>1. cursor \in 0..MaxBlock /\ head \in 1..MaxBlock
    BY <1>1 DEF CursorInv, ChainInv
  <2>2. QED
    BY <2>1, Numbers
<1>5. pass.pc \in {"idle", "scan"} /\ pass.latest \in 0..MaxBlock /\ ToSet(pass.queue) \subseteq Run
  <2> DEFINE queue == pass.queue
  <2>1. queue \in Seq(Run) /\ pass.pc \in {"idle", "scan"} /\ pass.latest \in 0..MaxBlock
    BY <1>1 DEF PassInv
  <2> HIDE DEF queue
  <2>2. \A i \in DOMAIN queue : queue[i] \in Run
    BY <2>1
  <2>3. ToSet(queue) \subseteq Run
    BY <2>2 DEF ToSet
  <2>4. QED
    BY <2>1, <2>3 DEF queue
<1>6. now \in 0..MaxTime /\ faults \in 0..MaxFaults /\ spoiled \subseteq Run
      /\ published \in [Run -> Evidence \cup {None}]
  BY <1>1 DEF ChainInv, RowInv
<1>7. QED
  BY <1>2, <1>3, <1>4, <1>5, <1>6 DEF TypeOK

LEMMA CompleteState == Inv => IndexComplete
<1> SUFFICES ASSUME Inv, NEW r \in Run, OnChain(r), Sound(published[r]), Position(r) + Overlap <= cursor
             PROVE  Finalized(r) \/ r \in spoiled
  BY DEF IndexComplete
<1>1. Deep(r, cursor)
  BY DeepIs DEF Inv
<1>2. QED
  BY <1>1 DEF Inv, CursorInv, Accounted, Finalized

\* Until the first fault the chain only grows, and a row is written only for a
\* record that it holds.
Anchored == faults = MaxFaults => \A r \in Run : Finalized(r) => OnChain(r)

LEMMA AnchoredStep == Inv /\ Anchored /\ [IndexNext]_vars => Anchored'
<1> SUFFICES ASSUME Inv, Anchored, [IndexNext]_vars, faults' = MaxFaults, NEW r \in Run, db'[r] # None
             PROVE  OnChain(r)'
  BY DEF Anchored, Finalized
<1>1. ChainInv /\ RowInv /\ PassInv
  BY DEF Inv
<1>2. faults \in 0..MaxFaults /\ MaxFaults \in Nat
  BY <1>1, Numbers DEF RowInv
<1>3. ASSUME faults' = faults - 1 PROVE FALSE
  BY <1>2, <1>3
<1>4. ASSUME UNCHANGED chain, faults' = faults, OnChain(r) \/ db'[r] = db[r] PROVE OnChain(r)'
  BY <1>4 DEF Anchored, Finalized, OnChain
<1>5. ASSUME NEW q \in Run \cup {None}, NewBlock(q), UNCHANGED <<db, faults>> PROVE OnChain(r)'
  <2>1. PICK b \in DOMAIN chain : chain[b].run = r
    BY <1>5 DEF Anchored, Finalized, OnChain
  <2>2. chain' = Append(chain, [time |-> now, run |-> q]) /\ chain \in Seq(Block)
    BY <1>1, <1>5, ChainFacts DEF NewBlock
  <2>3. b \in DOMAIN chain' /\ chain'[b] = chain[b]
    BY <2>1, <2>2
  <2>4. QED
    BY <2>1, <2>3 DEF OnChain
<1>6. CASE Tick
  BY <1>4, <1>6 DEF Tick
<1>7. CASE MineEmpty
  BY <1>5, <1>7 DEF MineEmpty
<1>8. CASE Reorganise
  BY <1>3, <1>8 DEF Reorganise
<1>9. ASSUME NEW q \in Run, Publish(q) PROVE OnChain(r)'
  BY <1>5, <1>9 DEF Publish
<1>10. ASSUME NEW q \in Run, Finalize(q) PROVE OnChain(r)'
  <2>1. r = q \/ db'[r] = db[r]
    BY <1>1, <1>10 DEF Finalize, RowInv
  <2>2. QED
    BY <1>4, <1>10, <2>1 DEF Finalize
<1>11. ASSUME NEW q \in Run, Remine(q) PROVE OnChain(r)'
  BY <1>5, <1>11 DEF Remine
<1>12. ASSUME NEW q \in Run, Tamper(q) PROVE OnChain(r)'
  BY <1>3, <1>12 DEF Tamper
<1>13. CASE QuarantineUnread
  BY <1>3, <1>13 DEF QuarantineUnread
<1>14. CASE IndexRecord
  <2> DEFINE q == Head(pass.queue)
  <2>1. q \in Run
    BY <1>1, <1>14, HeadRun DEF IndexRecord
  <2>2. PICK view \in Views : Load(q, None, view, TRUE).match
    BY <1>14 DEF IndexRecord
  <2>3. db' = (IF Finalized(q) THEN db ELSE [db EXCEPT ![q] = Record(q)]) /\ UNCHANGED <<chain, faults>>
    BY <1>14 DEF IndexRecord
  <2> HIDE DEF q
  <2>4. OnChain(q)
    BY <1>1, <2>1, <2>2, MatchProves
  <2>5. r = q \/ db'[r] = db[r]
    BY <1>1, <2>3 DEF RowInv
  <2>6. QED
    BY <1>4, <2>3, <2>4, <2>5
<1>15. CASE BeginPass \/ Quarantine \/ IndexConflict \/ AbortPass \/ EndPass
  BY <1>4, <1>15 DEF BeginPass, Quarantine, IndexConflict, AbortPass, EndPass
<1>16. CASE UNCHANGED vars
  BY <1>4, <1>16 DEF vars
<1>17. QED
  BY <1>6, <1>7, <1>8, <1>9, <1>10, <1>11, <1>12, <1>13, <1>14, <1>15, <1>16
     DEF IndexNext, Environment, RebuildIndex

LEMMA SoundState == Inv /\ Anchored => IndexSound
<1> SUFFICES ASSUME Inv, Anchored, NEW r \in Run, db[r] # None, r \notin spoiled
             PROVE  /\ Sound(published[r]) /\ db[r].evidence = published[r]
                    /\ OnChain(r) \/ faults < MaxFaults
  BY DEF IndexSound, Finalized
<1>1. Sound(published[r]) /\ db[r] = Record(r)
  BY DEF Inv, RowInv
<1>2. faults \in 0..MaxFaults /\ MaxFaults \in Nat
  BY Numbers DEF Inv, RowInv
<1>3. OnChain(r) \/ faults < MaxFaults
  BY <1>2 DEF Anchored, Finalized
<1>4. QED
  BY <1>1, <1>3 DEF Record, RecordOf

\* The three loops over the chain return what they are to.
LEMMA ExactState == Inv => LocateExact
<1> SUFFICES ASSUME Inv
             PROVE  /\ \A time \in 0..MaxTime + 1 :
                          FirstBlockAtOrAfter(time, Len(chain)) =
                            Min({b \in DOMAIN chain : chain[b].time >= time} \cup {Len(chain) + 1})
                    /\ \A r \in Run : OnChain(r) => Position(r) \in BlocksAt(chain[Position(r)].time, Len(chain))
                    /\ \A from \in DOMAIN chain :
                          ToSet(GetLogs(from, Len(chain), Len(chain))) = {r \in Run : OnChain(r) /\ Position(r) >= from}
  BY DEF LocateExact
<1>1. ChainInv /\ RowInv /\ Ordered
  BY DEF Inv, ChainInv
<1>2. Len(chain) \in Nat /\ DOMAIN chain = 1..Len(chain) /\ Len(chain) \in 0..Len(chain)
      /\ \A b \in 1..Len(chain) : chain[b].time \in Nat
  BY <1>1, ChainFacts
<1>3. ASSUME NEW time \in 0..MaxTime + 1
      PROVE  FirstBlockAtOrAfter(time, Len(chain)) =
                Min({b \in DOMAIN chain : chain[b].time >= time} \cup {Len(chain) + 1})
  <2> DEFINE f == FirstBlockAtOrAfter(time, Len(chain))
             S == {b \in DOMAIN chain : chain[b].time >= time} \cup {Len(chain) + 1}
  <2>1. time \in Nat
    BY Numbers
  <2>2. f \in 1..Len(chain) + 1 /\ (\A i \in 1..f - 1 : chain[i].time < time)
        /\ \A i \in f..Len(chain) : chain[i].time >= time
    BY <1>1, <1>2, <2>1, FirstBlock
  <2>3. S \subseteq 1..Len(chain) + 1
    BY <1>2
  <2> HIDE DEF f
  <2>4. f \in S
    BY <1>2, <2>2
  <2>5. \A b \in S : f <= b
    <3> SUFFICES ASSUME NEW b \in S, ~(f <= b) PROVE FALSE
      OBVIOUS
    <3>1. b \in 1..f - 1 /\ b # Len(chain) + 1
      BY <1>2, <2>2, <2>3
    <3>2. chain[b].time < time /\ chain[b].time >= time /\ chain[b].time \in Nat
      BY <1>2, <2>2, <2>3, <3>1
    <3>3. QED
      BY <2>1, <3>2
  <2>6. \A x \in S : (\A y \in S : x <= y) => x = f
    BY <1>2, <2>2, <2>3, <2>4, <2>5
  <2> HIDE DEF S
  <2>7. f = Min(S)
    BY <2>4, <2>5, <2>6, Zenon DEF Min
  <2>8. QED
    BY <2>7 DEF f, S
<1>4. ASSUME NEW r \in Run, OnChain(r)
      PROVE  Position(r) \in BlocksAt(chain[Position(r)].time, Len(chain))
  <2>1. Position(r) \in 1..Len(chain)
    BY <1>1, <1>4, OnChainIs
  <2>2. QED
    BY <1>1, <1>2, <2>1, FoundAtItsTime
<1>5. ASSUME NEW from \in DOMAIN chain
      PROVE  ToSet(GetLogs(from, Len(chain), Len(chain))) = {r \in Run : OnChain(r) /\ Position(r) >= from}
  <2> DEFINE logs == GetLogs(from, Len(chain), Len(chain))
  <2>1. from \in Nat \ {0}
    BY <1>2
  <2>2. logs \in Seq(Run)
        /\ \A r \in Run : r \in ToSet(logs) <=> \E b \in from..Len(chain) : b <= Len(chain) /\ chain[b].run = r
    BY <1>1, <1>2, <2>1, QueryLists
  <2> HIDE DEF logs
  <2>3. ToSet(logs) \subseteq Run
    <3>1. \A i \in DOMAIN logs : logs[i] \in Run
      BY <2>2
    <3>2. QED
      BY <3>1 DEF ToSet
  <2>4. ASSUME NEW r \in Run
        PROVE  (\E b \in from..Len(chain) : b <= Len(chain) /\ chain[b].run = r) <=> OnChain(r) /\ Position(r) >= from
    <3>1. ASSUME NEW b \in from..Len(chain), chain[b].run = r PROVE OnChain(r) /\ Position(r) >= from
      <4>1. b \in DOMAIN chain
        BY <1>2, <2>1
      <4>2. OnChain(r) /\ Position(r) = b
        BY <1>1, <3>1, <4>1, PositionIs
      <4>3. QED
        BY <2>1, <4>2
    <3>2. ASSUME OnChain(r), Position(r) >= from
          PROVE  \E b \in from..Len(chain) : b <= Len(chain) /\ chain[b].run = r
      <4>1. Position(r) \in 1..Len(chain) /\ chain[Position(r)].run = r
        BY <1>1, <3>2, OnChainIs
      <4>2. Position(r) \in from..Len(chain) /\ Position(r) <= Len(chain)
        BY <1>2, <2>1, <3>2, <4>1
      <4>3. QED
        BY <4>1, <4>2
    <3>3. QED
      BY <3>1, <3>2
  <2>5. ToSet(logs) = {r \in Run : OnChain(r) /\ Position(r) >= from}
    BY <2>2, <2>3, <2>4, Zenon
  <2>6. QED
    BY <2>5 DEF logs
<1>6. QED
  BY <1>3, <1>4, <1>5

\* The read side of the registry by itself: the invariant holds from the first block on.
THEOREM Invariance == IndexSpec => []Inv
<1>1. QED
  BY InitInv, StepInv, PTL DEF IndexSpec

\* The chain, the rows, the cursor and the pass keep their shape.
THEOREM TypeCorrect == IndexSpec => []TypeOK
<1>1. QED
  BY Invariance, TypedState, PTL

\* No run that the chain proves, deeper than the overlap below the cursor, is
\* missing from the index, unless its row was tampered with or its transfers could
\* not be read (rebuildIndex).  It rests on the overlap: the cursor is the head of
\* some node at some time, at most Lag + Depth blocks from where the others are.
THEOREM NoHole == IndexSpec => []IndexComplete
<1>1. QED
  BY Invariance, CompleteState, PTL

\* A row that nobody altered holds what its run published, and that verifies; until
\* the first fault the chain holds it too (rebuildIndex, finalizeFromRegistry).
THEOREM OnlyProved == IndexSpec => []IndexSound
<1>1. Init => Anchored
  BY DEF Init, Anchored, Finalized
<1>2. IndexSpec => []Anchored
  BY <1>1, Invariance, AnchoredStep, PTL DEF IndexSpec
<1>3. QED
  BY <1>2, Invariance, SoundState, PTL

\* The binary search finds the first block at or after a time, the search by the
\* anchored time finds the block of a run, and the chunked query finds every
\* event of its range (firstBlockAtOrAfter, logsAtAnchoredTimestamp, getLogsChunked).
THEOREM Locates == IndexSpec => []LocateExact
<1>1. QED
  BY Invariance, ExactState, PTL
=============================================================================
