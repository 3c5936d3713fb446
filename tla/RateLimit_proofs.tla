--------------------------- MODULE RateLimit_proofs ---------------------------
(***************************************************************************)
(* Proofs about RateLimit, for any number of addresses, any allowance, any  *)
(* window and any size of the table: what a step of the limiter keeps.      *)
(* Web_proofs applies it to the requests that the limiter is in front of.   *)
(*                                                                         *)
(* The argument follows the log of the admitted attempts of one address.    *)
(* The attempts of its running window are the last ones of the log; those   *)
(* of the window before it, at most an allowance, began at least a window   *)
(* earlier.  So two attempts that are two allowances apart in the log are a *)
(* window apart in time, and no interval shorter than that holds more.      *)
(***************************************************************************)
EXTENDS RateLimit, FiniteSetTheorems, WellFoundedInduction, TLAPS

\* A step of the limiter, whoever the request is from and for.
RateNext ==
  \/ \E b \in Buckets, c \in Clients, ok \in BOOLEAN : Checked(b, c, ok)
  \/ \E b \in Buckets : Clean(b)
  \/ Tick

Allowance == MaxOf["login"]
Logins == table["login"]

-----------------------------------------------------------------------------
(* The inductive invariant: first of a log l, an entry e and the time.      *)

\* How many attempts of the log belong to the window of the entry.
Used(e) == IF e.count <= Allowance THEN e.count ELSE Allowance

InOrder(l) == \A i, j \in DOMAIN l : i <= j => l[i] <= l[j]

\* Attempts that are two allowances apart are a window apart.
Spaced(l) == \A i, j \in DOMAIN l : i + 2 * Allowance <= j => l[i] + Window <= l[j]

\* The attempts of the running window are the last of the log, the first of them is its
\* start, and what is an allowance before them is a window before the start.
Running(l, e) ==
  /\ Used(e) <= Len(l)
  /\ l[Len(l) - Used(e) + 1] = e.start
  /\ \A i \in DOMAIN l : i + Used(e) + Allowance <= Len(l) + 1 => l[i] + Window <= e.start

\* Without an entry, what is an allowance back is a window back.
Free(l, now) == \A i \in DOMAIN l : i + Allowance <= Len(l) + 1 => l[i] + Window <= now

\* A whole allowance in the log, one attempt after the other, from "from" to "to".
Exhausted(l, from, to) ==
  \E m \in 0..Len(l) :
    /\ m + Allowance <= Len(l)
    /\ \A i \in (m + 1)..(m + Allowance) : l[i] \in from..to

Entries == [count : Nat \ {0}, start : 0..clock]

\* A table has entries of some addresses.
TableOK ==
  /\ table = [b \in Buckets |-> table[b]]
  /\ \A b \in Buckets : /\ table[b] = [c \in DOMAIN table[b] |-> table[b][c]]
                        /\ DOMAIN table[b] \subseteq Clients
                        /\ \A c \in DOMAIN table[b] : table[b][c] \in Entries

LogOK ==
  /\ clock \in Nat
  /\ log \in [Clients -> Seq(0..clock)]
  /\ \A c \in Clients : InOrder(log[c]) /\ Spaced(log[c])

WindowsKept ==
  \A c \in Clients : IF c \in DOMAIN Logins THEN Running(log[c], Logins[c])
                                            ELSE Free(log[c], clock)

\* The time from which a refusal at the moment "at" has to be accounted for.
Lookback(at) == IF at > Window THEN at - Window ELSE 0

\* A refused address has exhausted its allowance.
RefusalProved ==
  /\ verdict \in [ip : Clients, ok : BOOLEAN, crowd : BOOLEAN, at : 0..clock]
  /\ \/ verdict.ok \/ verdict.crowd
     \/ Exhausted(log[verdict.ip], Lookback(verdict.at), verdict.at)

RateInv == TableOK /\ LogOK /\ WindowsKept /\ RefusalProved

-----------------------------------------------------------------------------
(* One log.                                                                *)

LoginBucket == "login" \in Buckets

\* The allowance of the login bucket and the window are positive.
LEMMA AllowancePositive == LoginBucket => Allowance \in Nat \ {0} /\ Window \in Nat \ {0}
BY RateConstants DEF Allowance, LoginBucket

\* An attempt at the end of a log that is older.
LEMMA Appended ==
  ASSUME NEW now \in Nat, NEW l \in Seq(0..now)
  PROVE  /\ Append(l, now) \in Seq(0..now)
         /\ Len(Append(l, now)) = Len(l) + 1 /\ DOMAIN Append(l, now) = 1..(Len(l) + 1)
         /\ Append(l, now)[Len(l) + 1] = now
         /\ \A i \in 1..Len(l) : Append(l, now)[i] = l[i] /\ l[i] \in 0..now
OBVIOUS

\* A log stays in the order of time.
LEMMA AppendedInOrder ==
  ASSUME NEW now \in Nat, NEW l \in Seq(0..now), InOrder(l)
  PROVE  InOrder(Append(l, now))
<1>. DEFINE k == Append(l, now)
<1>. SUFFICES ASSUME NEW i \in 1..(Len(l) + 1), NEW j \in 1..(Len(l) + 1), i <= j
              PROVE  k[i] <= k[j]
  BY Appended DEF InOrder
<1>1. Len(l) \in Nat /\ DOMAIN l = 1..Len(l)
  OBVIOUS
<1>2. CASE j = Len(l) + 1
  BY <1>1, <1>2, Appended
<1>3. CASE j # Len(l) + 1
  <2>1. i \in 1..Len(l) /\ j \in 1..Len(l)
    BY <1>1, <1>3
  <2>. QED
    BY <2>1, <1>1, Appended DEF InOrder
<1>. QED
  BY <1>2, <1>3

\* A log stays spaced when what is two allowances back is a window back.
LEMMA AppendedSpaced ==
  ASSUME LoginBucket, NEW now \in Nat, NEW l \in Seq(0..now), Spaced(l),
         \A i \in 1..Len(l) : i + 2 * Allowance <= Len(l) + 1 => l[i] + Window <= now
  PROVE  Spaced(Append(l, now))
<1>. DEFINE k == Append(l, now)
<1>1. /\ Len(l) \in Nat /\ DOMAIN l = 1..Len(l) /\ DOMAIN k = 1..(Len(l) + 1)
      /\ k[Len(l) + 1] = now /\ \A i \in 1..Len(l) : k[i] = l[i]
  BY Appended
<1>. HIDE DEF k
<1>. SUFFICES ASSUME NEW i \in 1..(Len(l) + 1), NEW j \in 1..(Len(l) + 1),
                     i + 2 * Allowance <= j
              PROVE  k[i] + Window <= k[j]
  BY <1>1 DEF Spaced, k
<1>2. i \in 1..Len(l)
  BY <1>1, AllowancePositive
<1>3. k[i] = l[i]
  BY <1>1, <1>2
<1>4. CASE j = Len(l) + 1
  BY <1>1, <1>2, <1>3, <1>4
<1>5. CASE j # Len(l) + 1
  <2>1. j \in 1..Len(l)
    BY <1>1, <1>5
  <2>2. k[j] = l[j] /\ l[i] + Window <= l[j]
    BY <2>1, <1>1, <1>2 DEF Spaced
  <2>. QED
    BY <2>2, <1>3
<1>. QED
  BY <1>4, <1>5

\* An attempt is admitted when nothing is running: it starts a window.
LEMMA WindowStarts ==
  ASSUME LoginBucket, NEW now \in Nat, NEW l \in Seq(0..now), Spaced(l), Free(l, now)
  PROVE  /\ Spaced(Append(l, now))
         /\ Running(Append(l, now), [count |-> 1, start |-> now])
<1>. DEFINE k == Append(l, now)
            e == [count |-> 1, start |-> now]
<1>1. /\ Len(l) \in Nat /\ DOMAIN l = 1..Len(l)
      /\ Len(k) = Len(l) + 1 /\ DOMAIN k = 1..(Len(l) + 1) /\ k[Len(l) + 1] = now
      /\ \A i \in 1..Len(l) : k[i] = l[i] /\ l[i] \in 0..now
  BY Appended
<1>2. Allowance \in Nat \ {0} /\ Window \in Nat \ {0}
  BY AllowancePositive
<1>3. Used(e) = 1 /\ e.start = now
  BY <1>2 DEF Used
<1>. HIDE DEF k, e
<1>4. Spaced(k)
  <2>1. ASSUME NEW i \in 1..Len(l), i + 2 * Allowance <= Len(l) + 1
        PROVE  l[i] + Window <= now
    <3>1. i + Allowance <= Len(l) + 1
      BY <2>1, <1>1, <1>2
    <3>. QED
      BY <3>1, <1>1 DEF Free
  <2>. QED
    BY <2>1, AppendedSpaced DEF k
<1>5. Running(k, e)
  <2>. SUFFICES ASSUME NEW i \in 1..(Len(l) + 1), i + 1 + Allowance <= Len(l) + 2
                PROVE  k[i] + Window <= now
    BY <1>1, <1>3 DEF Running
  <2>1. i \in 1..Len(l) /\ i + Allowance <= Len(l) + 1
    BY <1>1, <1>2
  <2>. QED
    BY <2>1, <1>1 DEF Free
<1>. QED
  BY <1>4, <1>5 DEF k, e

\* An attempt is admitted within the running window and its allowance.
LEMMA WindowGoesOn ==
  ASSUME LoginBucket, NEW now \in Nat, NEW l \in Seq(0..now), Spaced(l),
         NEW n \in Nat \ {0}, NEW s \in 0..now, n + 1 <= Allowance,
         Running(l, [count |-> n, start |-> s])
  PROVE  /\ Spaced(Append(l, now))
         /\ Running(Append(l, now), [count |-> n + 1, start |-> s])
<1>. DEFINE k == Append(l, now)
            d == [count |-> n, start |-> s]
            e == [count |-> n + 1, start |-> s]
<1>1. /\ Len(l) \in Nat /\ DOMAIN l = 1..Len(l)
      /\ Len(k) = Len(l) + 1 /\ DOMAIN k = 1..(Len(l) + 1) /\ k[Len(l) + 1] = now
      /\ \A i \in 1..Len(l) : k[i] = l[i] /\ l[i] \in 0..now
  BY Appended
<1>2. Allowance \in Nat \ {0} /\ Window \in Nat \ {0}
  BY AllowancePositive
<1>3. Used(d) = n /\ Used(e) = n + 1 /\ d.start = s /\ e.start = s
  BY <1>2 DEF Used
<1>. HIDE DEF k, d, e
<1>4. /\ n <= Len(l) /\ l[Len(l) - n + 1] = s
      /\ \A i \in 1..Len(l) : i + n + Allowance <= Len(l) + 1 => l[i] + Window <= s
  BY <1>1, <1>3 DEF Running, d
<1>5. Spaced(k)
  <2>1. ASSUME NEW i \in 1..Len(l), i + 2 * Allowance <= Len(l) + 1
        PROVE  l[i] + Window <= now
    <3>1. i + n + Allowance <= Len(l) + 1
      BY <2>1, <1>1, <1>2
    <3>2. l[i] + Window <= s
      BY <3>1, <1>4
    <3>. QED
      BY <3>2, <1>1, <1>2
  <2>. QED
    BY <2>1, AppendedSpaced DEF k
<1>6. Running(k, e)
  <2>1. k[Len(l) + 1 - (n + 1) + 1] = s
    BY <1>1, <1>4
  <2>2. ASSUME NEW i \in 1..(Len(l) + 1), i + (n + 1) + Allowance <= Len(l) + 2
        PROVE  k[i] + Window <= s
    <3>1. i \in 1..Len(l) /\ i + n + Allowance <= Len(l) + 1
      BY <2>2, <1>1, <1>2
    <3>. QED
      BY <3>1, <1>1, <1>4
  <2>3. Used(e) <= Len(k)
    BY <1>1, <1>3, <1>4
  <2>4. k[Len(k) - Used(e) + 1] = e.start
    BY <2>1, <1>1, <1>3
  <2>5. \A i \in DOMAIN k : i + Used(e) + Allowance <= Len(k) + 1 => k[i] + Window <= e.start
    <3>1. Len(k) + 1 = Len(l) + 2
      BY <1>1
    <3>. QED
      BY <2>2, <3>1, <1>1, <1>3
  <2>. QED
    BY <2>3, <2>4, <2>5 DEF Running
<1>. QED
  BY <1>5, <1>6 DEF k, e

\* An attempt is refused when the window has admitted its allowance: it is counted, but
\* the log stays, and the allowance lies within the window.
LEMMA WindowFull ==
  ASSUME LoginBucket, NEW now \in Nat, NEW l \in Seq(0..now), InOrder(l),
         NEW n \in Nat \ {0}, NEW s \in 0..now, n + 1 > Allowance, now - s <= Window,
         Running(l, [count |-> n, start |-> s])
  PROVE  /\ Running(l, [count |-> n + 1, start |-> s])
         /\ Exhausted(l, Lookback(now), now)
<1>. DEFINE d == [count |-> n, start |-> s]
            e == [count |-> n + 1, start |-> s]
<1>1. Len(l) \in Nat /\ DOMAIN l = 1..Len(l) /\ \A i \in 1..Len(l) : l[i] \in 0..now
  OBVIOUS
<1>2. Allowance \in Nat \ {0} /\ Window \in Nat \ {0}
  BY AllowancePositive
<1>3. Used(d) = Allowance /\ Used(e) = Allowance /\ d.start = s /\ e.start = s
  BY <1>2 DEF Used
<1>. HIDE DEF d, e
<1>4. Running(l, d)
  BY DEF d
<1>5. Running(l, e)
  BY <1>3, <1>4 DEF Running
<1>6. Allowance <= Len(l) /\ l[Len(l) - Allowance + 1] = s
  BY <1>3, <1>4 DEF Running
<1>7. Exhausted(l, Lookback(now), now)
  <2>. DEFINE m == Len(l) - Allowance
  <2>1. m \in 0..Len(l) /\ m + Allowance <= Len(l) /\ m + 1 \in 1..Len(l)
    BY <1>1, <1>2, <1>6
  <2>2. Lookback(now) <= s /\ Lookback(now) \in Nat
    BY <1>2 DEF Lookback
  <2>3. ASSUME NEW i \in (m + 1)..(m + Allowance)
        PROVE  l[i] \in Lookback(now)..now
    <3>1. i \in 1..Len(l) /\ m + 1 <= i
      BY <2>1, <1>1, <1>2
    <3>2. l[m + 1] = s /\ l[i] \in 0..now
      BY <3>1, <1>1, <1>6
    <3>3. s <= l[i]
      BY <3>1, <3>2, <2>1, <1>1 DEF InOrder
    <3>. QED
      BY <3>2, <3>3, <2>2
  <2>. QED
    BY <2>1, <2>3 DEF Exhausted
<1>. QED
  BY <1>5, <1>7 DEF e

\* Where the window begins that u of n attempts have used.
LEMMA WindowPlace ==
  ASSUME NEW n \in Nat, NEW A \in Nat, NEW u \in 1..A, u <= n, NEW i \in 1..n, i + A <= n + 1
  PROVE  n - u + 1 \in 1..n /\ i <= n - u + 1
OBVIOUS

\* A window that is over leaves the address free.
LEMMA WindowEnds ==
  ASSUME LoginBucket, NEW now \in Nat, NEW l \in Seq(0..now), InOrder(l),
         NEW e \in [count : Nat \ {0}, start : 0..now], now - e.start >= Window,
         Running(l, e)
  PROVE  Free(l, now)
<1>1. Len(l) \in Nat /\ DOMAIN l = 1..Len(l) /\ \A i \in 1..Len(l) : l[i] \in 0..now
  OBVIOUS
<1>2. Allowance \in Nat \ {0} /\ Window \in Nat \ {0}
  BY AllowancePositive
<1>3. Used(e) \in 1..Allowance
  BY <1>2 DEF Used
<1>4. Used(e) <= Len(l) /\ l[Len(l) - Used(e) + 1] = e.start
  BY DEF Running
<1>. SUFFICES ASSUME NEW i \in 1..Len(l), i + Allowance <= Len(l) + 1
              PROVE  l[i] + Window <= now
  BY <1>1 DEF Free
<1>. DEFINE f == Len(l) - Used(e) + 1
<1>5. f \in 1..Len(l) /\ i <= f
  <2>. PICK n, u : n = Len(l) /\ u = Used(e)
    OBVIOUS
  <2>0. Allowance \in Nat
    BY <1>2
  <2>1. n \in Nat /\ u \in 1..Allowance /\ u <= n /\ i \in 1..n /\ i + Allowance <= n + 1
    BY <1>1, <1>3, <1>4
  <2>2. n - u + 1 \in 1..n /\ i <= n - u + 1
    BY Zenon, <2>0, <2>1, WindowPlace
  <2>3. f = n - u + 1
    OBVIOUS
  <2>. HIDE DEF f
  <2>. QED
    BY Zenon, <2>2, <2>3
<1>6. l[i] <= e.start
  BY <1>1, <1>4, <1>5 DEF InOrder
<1>. QED
  BY <1>1, <1>2, <1>6

-----------------------------------------------------------------------------
(* The steps.                                                              *)

\* m is the table of the bucket b after some entries have been dropped whose windows
\* were over.
Pruned(m, b) ==
  /\ DOMAIN m \subseteq DOMAIN table[b] /\ m = [c \in DOMAIN m |-> m[c]]
  /\ \A c \in DOMAIN m : m[c] = table[b][c]
  /\ b = "login" => \A c \in Clients \ DOMAIN m : Free(log[c], clock)

\* Nothing dropped, to begin with.
LEMMA PrunedNothing ==
  ASSUME RateInv, NEW b \in Buckets
  PROVE  Pruned(table[b], b)
BY DEF RateInv, TableOK, WindowsKept, Pruned, Logins

\* retain drops no window that is still running, if it keeps a window's age.
LEMMA PrunedByAge ==
  ASSUME LoginBucket, RateInv, NEW b \in Buckets, NEW age \in Nat, age >= Window
  PROVE  Pruned(Younger(table[b], age), b)
<1>. DEFINE m == Younger(table[b], age)
<1>1. /\ DOMAIN m = {d \in DOMAIN table[b] : clock - table[b][d].start < age}
      /\ m = [c \in DOMAIN m |-> m[c]] /\ \A c \in DOMAIN m : m[c] = table[b][c]
  BY DEF Younger
<1>. HIDE DEF m
<1>2. ASSUME b = "login", NEW c \in Clients, c \notin DOMAIN m
      PROVE  Free(log[c], clock)
  <2>1. CASE c \notin DOMAIN table[b]
    BY <1>2, <2>1 DEF RateInv, WindowsKept, Logins
  <2>2. CASE c \in DOMAIN table[b]
    <3>. DEFINE e == table[b][c]
    <3>1. e \in Entries /\ Running(log[c], e)
      BY <1>2, <2>2 DEF RateInv, TableOK, WindowsKept, Logins
    <3>2. e \in [count : Nat \ {0}, start : 0..clock]
      BY <3>1 DEF Entries
    <3>3. clock \in Nat /\ log[c] \in Seq(0..clock) /\ InOrder(log[c])
      BY DEF RateInv, LogOK
    <3>4. ~ (clock - e.start < age)
      BY <1>1, <1>2, <2>2
    <3>. HIDE DEF e
    <3>5. clock - e.start >= Window
      BY <3>2, <3>3, <3>4, AllowancePositive
    <3>. QED
      BY <3>1, <3>2, <3>3, <3>5, WindowEnds
  <2>. QED
    BY <2>1, <2>2
<1>. QED
  BY <1>1, <1>2 DEF Pruned, m

\* The invariant holds at first.
LEMMA RateInitInv == LoginBucket /\ RateInit => RateInv
<1>. SUFFICES ASSUME LoginBucket, RateInit PROVE RateInv
  OBVIOUS
<1>1. TableOK
  BY DEF RateInit, TableOK
<1>2. LogOK
  BY DEF RateInit, LogOK, InOrder, Spaced
<1>3. WindowsKept
  BY DEF RateInit, WindowsKept, Logins, LoginBucket, Free
<1>4. RefusalProved
  BY RateConstants DEF RateInit, RefusalProved, NoVerdict
<1>. QED
  BY <1>1, <1>2, <1>3, <1>4 DEF RateInv

\* Replacing a table by one whose entries were dropped at the end of their windows keeps
\* the invariant: the cleaner, and a request that finds the table full.
LEMMA PruneKeeps ==
  ASSUME LoginBucket, RateInv, NEW b \in Buckets, NEW m, Pruned(m, b),
         table' = [table EXCEPT ![b] = m], UNCHANGED <<clock, log>>
  PROVE  TableOK' /\ LogOK' /\ WindowsKept'
<1>1. \A d \in Buckets : table'[d] = IF d = b THEN m ELSE table[d]
  BY DEF RateInv, TableOK
<1>2. TableOK'
  <2>1. table' = [d \in Buckets |-> table'[d]]
    BY DEF RateInv, TableOK
  <2>2. Entries' = Entries
    BY DEF Entries
  <2>3. ASSUME NEW d \in Buckets
        PROVE  /\ table'[d] = [c \in DOMAIN table'[d] |-> table'[d][c]]
               /\ DOMAIN table'[d] \subseteq Clients
               /\ \A c \in DOMAIN table'[d] : table'[d][c] \in Entries
    BY <1>1 DEF RateInv, TableOK, Pruned
  <2>. QED
    BY <2>1, <2>2, <2>3 DEF TableOK
<1>3. LogOK'
  BY DEF RateInv, LogOK
<1>4. WindowsKept'
  <2>. SUFFICES ASSUME NEW c \in Clients
                PROVE  IF c \in DOMAIN Logins' THEN Running(log[c], Logins'[c])
                                              ELSE Free(log[c], clock)
    BY DEF WindowsKept, Running, Free, Used, Allowance
  <2>1. CASE b = "login"
    BY <1>1, <2>1 DEF RateInv, WindowsKept, Pruned, Logins
  <2>2. CASE b # "login"
    BY <1>1, <2>2 DEF RateInv, WindowsKept, Logins, LoginBucket
  <2>. QED
    BY <2>1, <2>2
<1>. QED
  BY <1>2, <1>3, <1>4

\* The cleaner keeps the invariant.
LEMMA CleanKeeps ==
  ASSUME LoginBucket, RateInv, NEW b \in Buckets, Clean(b)
  PROVE  RateInv'
<1>1. Pruned(Younger(table[b], CleanAge), b)
  BY PrunedByAge, RateConstants
<1>2. table' = [table EXCEPT ![b] = Younger(table[b], CleanAge)]
  BY DEF Clean
<1>3. TableOK' /\ LogOK' /\ WindowsKept'
  BY <1>1, <1>2, PruneKeeps DEF Clean
<1>4. RefusalProved'
  BY DEF Clean, RateInv, RefusalProved, Exhausted, Allowance, Lookback
<1>. QED
  BY <1>3, <1>4 DEF RateInv

\* Time passes, and what is past stays past.
LEMMA TickKeeps ==
  ASSUME LoginBucket, RateInv, Tick
  PROVE  RateInv'
<1>1. clock \in Nat /\ clock' = clock + 1 /\ 0..clock \subseteq 0..clock'
  BY DEF RateInv, LogOK, Tick
<1>2. UNCHANGED <<table, log, verdict>>
  BY DEF Tick
<1>3. TableOK'
  <2>1. Entries \subseteq Entries'
    BY <1>1 DEF Entries
  <2>. QED
    BY <2>1, <1>2 DEF RateInv, TableOK
<1>4. LogOK'
  <2>1. Seq(0..clock) \subseteq Seq(0..clock')
    BY <1>1
  <2>2. log' \in [Clients -> Seq(0..clock')]
    BY <2>1, <1>2 DEF RateInv, LogOK
  <2>. QED
    BY <2>2, <1>1, <1>2 DEF RateInv, LogOK, InOrder, Spaced, Allowance
<1>5. WindowsKept'
  <2>1. ASSUME NEW c \in Clients, Free(log[c], clock)
        PROVE  Free(log[c], clock + 1)
    <3>1. log[c] \in Seq(0..clock)
      BY DEF RateInv, LogOK
    <3>. QED
      BY <2>1, <3>1, <1>1, AllowancePositive DEF Free
  <2>. QED
    BY <2>1, <1>1, <1>2 DEF RateInv, WindowsKept, Logins, Running, Used, Free, Allowance
<1>6. RefusalProved'
  <2>1. [ip : Clients, ok : BOOLEAN, crowd : BOOLEAN, at : 0..clock]
          \subseteq [ip : Clients, ok : BOOLEAN, crowd : BOOLEAN, at : 0..clock']
    BY <1>1
  <2>. QED
    BY <2>1, <1>2 DEF RateInv, RefusalProved, Exhausted, Allowance, Lookback
<1>. QED
  BY <1>3, <1>4, <1>5, <1>6 DEF RateInv

\* The entry of a counted request is one, and tells a new window from the running one.
LEMMA CountedEntry ==
  ASSUME LoginBucket, RateInv, NEW b \in Buckets, NEW c \in Clients, NEW m, Pruned(m, b)
  PROVE  /\ Counted(m, c) \in Entries
         /\ \/ /\ c \notin DOMAIN m \/ clock - m[c].start > Window
               /\ Counted(m, c) = [count |-> 1, start |-> clock]
            \/ \E n \in Nat \ {0}, s \in 0..clock :
                 /\ c \in DOMAIN m /\ m[c] = [count |-> n, start |-> s] /\ clock - s <= Window
                 /\ Counted(m, c) = [count |-> n + 1, start |-> s]
<1>1. clock \in Nat /\ Window \in Nat
  BY AllowancePositive DEF RateInv, LogOK
<1>2. CASE c \notin DOMAIN m \/ clock - m[c].start > Window
  <2>1. Counted(m, c) = [count |-> 1, start |-> clock]
    BY <1>2 DEF Counted
  <2>2. 1 \in Nat \ {0} /\ clock \in 0..clock
    BY <1>1
  <2>. QED
    BY <2>1, <2>2, <1>2 DEF Entries
<1>3. CASE c \in DOMAIN m /\ ~ (clock - m[c].start > Window)
  <2>1. m[c] \in [count : Nat \ {0}, start : 0..clock]
    BY <1>3 DEF RateInv, TableOK, Entries, Pruned
  <2>2. PICK n \in Nat \ {0}, s \in 0..clock : m[c] = [count |-> n, start |-> s]
    BY <2>1
  <2>3. clock - s <= Window
    BY <2>2, <1>1, <1>3
  <2>4. Counted(m, c) = [count |-> n + 1, start |-> s]
    BY <2>2, <1>3 DEF Counted
  <2>5. n + 1 \in Nat \ {0}
    OBVIOUS
  <2>6. [count |-> n + 1, start |-> s] \in Entries
    BY <2>5 DEF Entries
  <2>. QED
    BY <1>3, <2>2, <2>3, <2>4, <2>6
<1>. QED
  BY <1>2, <1>3

\* A counted attempt keeps the log of its address in order and spaced and its window at
\* the end of it, and is refused only when the allowance is exhausted.
LEMMA CountedAttempt ==
  ASSUME LoginBucket, RateInv, NEW c \in Clients, NEW m, Pruned(m, "login"),
         NEW l, l = IF Counted(m, c).count <= Allowance THEN Append(log[c], clock) ELSE log[c]
  PROVE  /\ l \in Seq(0..clock) /\ InOrder(l) /\ Spaced(l)
         /\ Running(l, Counted(m, c))
         /\ Counted(m, c).count <= Allowance \/ Exhausted(l, Lookback(clock), clock)
<1>. DEFINE e == Counted(m, c)
            k == log[c]
<1>1. clock \in Nat /\ k \in Seq(0..clock) /\ InOrder(k) /\ Spaced(k)
  BY DEF RateInv, LogOK
<1>2. Append(k, clock) \in Seq(0..clock) /\ InOrder(Append(k, clock))
  BY <1>1, Appended, AppendedInOrder
<1>3. Allowance \in Nat \ {0} /\ Window \in Nat \ {0}
  BY AllowancePositive
<1>4. c \notin DOMAIN m => Free(k, clock)
  BY DEF Pruned
<1>5. ASSUME c \in DOMAIN m
      PROVE  m[c] \in [count : Nat \ {0}, start : 0..clock] /\ Running(k, m[c])
  BY <1>5 DEF Pruned, RateInv, WindowsKept, TableOK, Entries, Logins, LoginBucket
<1>6. l = IF e.count <= Allowance THEN Append(k, clock) ELSE k
  OBVIOUS
<1>7. \/ (c \notin DOMAIN m \/ clock - m[c].start > Window) /\ e = [count |-> 1, start |-> clock]
      \/ \E n \in Nat \ {0}, s \in 0..clock :
           /\ c \in DOMAIN m /\ m[c] = [count |-> n, start |-> s] /\ clock - s <= Window
           /\ e = [count |-> n + 1, start |-> s]
  BY CountedEntry DEF LoginBucket
<1>. HIDE DEF e, k
<1>8. CASE (c \notin DOMAIN m \/ clock - m[c].start > Window) /\ e = [count |-> 1, start |-> clock]
  <2>1. l = Append(k, clock)
    BY <1>3, <1>6, <1>8
  <2>2. Free(k, clock)
    <3>1. CASE c \in DOMAIN m
      <4>1. clock - m[c].start >= Window
        BY <3>1, <1>1, <1>3, <1>5, <1>8
      <4>. QED
        BY <3>1, <4>1, <1>1, <1>5, WindowEnds
    <3>. QED
      BY <3>1, <1>4
  <2>3. Spaced(l) /\ Running(l, e)
    BY <2>1, <2>2, <1>1, <1>8, WindowStarts
  <2>4. e.count <= Allowance
    BY <1>3, <1>8
  <2>. QED
    BY <2>1, <2>3, <2>4, <1>2 DEF e
<1>9. ASSUME NEW n \in Nat \ {0}, NEW s \in 0..clock,
             c \in DOMAIN m, m[c] = [count |-> n, start |-> s], clock - s <= Window,
             e = [count |-> n + 1, start |-> s]
      PROVE  /\ l \in Seq(0..clock) /\ InOrder(l) /\ Spaced(l) /\ Running(l, e)
             /\ e.count <= Allowance \/ Exhausted(l, Lookback(clock), clock)
  <2>1. Running(k, [count |-> n, start |-> s]) /\ e.count = n + 1
    BY <1>5, <1>9
  <2>2. CASE n + 1 <= Allowance
    <3>1. l = Append(k, clock)
      BY <2>1, <2>2, <1>6
    <3>. QED
      BY <2>1, <2>2, <3>1, <1>1, <1>2, <1>9, WindowGoesOn
  <2>3. CASE n + 1 > Allowance
    <3>1. l = k
      BY <2>1, <2>3, <1>3, <1>6
    <3>. QED
      BY <2>1, <2>3, <3>1, <1>1, <1>9, WindowFull
  <2>. QED
    BY <2>2, <2>3, <1>3
<1>. QED
  BY <1>7, <1>8, <1>9 DEF e

\* What a request finds in its bucket: the table, or what is young of a full one.
Kept(b) == IF Crowded(table[b]) THEN Younger(table[b], Window) ELSE table[b]

\* The table with the entry of a counted request.
With(m, c) == [d \in DOMAIN m \cup {c} |-> IF d = c THEN Counted(m, c) ELSE m[d]]

\* The result of check_rate in these terms.
LEMMA CheckRateCases ==
  ASSUME NEW b, NEW c
  PROVE  \/ Crowded(Kept(b)) /\ CheckRate(b, c) = [ok |-> FALSE, crowd |-> TRUE, map |-> Kept(b)]
         \/ CheckRate(b, c) = [ok |-> Counted(Kept(b), c).count <= MaxOf[b], crowd |-> FALSE,
                               map |-> With(Kept(b), c)]
BY DEF CheckRate, Kept, With

\* A request keeps the invariant, whatever the limiter says.
LEMMA CheckedKeeps ==
  ASSUME LoginBucket, RateInv,
         NEW b \in Buckets, NEW c \in Clients, NEW ok \in BOOLEAN, Checked(b, c, ok)
  PROVE  RateInv'
<1>. DEFINE m == Kept(b)
<1>1. Pruned(m, b)
  BY PrunedNothing, PrunedByAge, AllowancePositive DEF Kept
<1>2. clock' = clock /\ clock \in Nat /\ verdict \in [ip : Clients, ok : BOOLEAN, crowd : BOOLEAN, at : 0..clock]
  BY DEF Checked, RateInv, LogOK, RefusalProved
<1>3. ASSUME b # "login" PROVE UNCHANGED <<log, verdict>>
  BY <1>3 DEF Checked
<1>4. ASSUME UNCHANGED <<log, verdict>> PROVE RefusalProved'
  BY <1>2, <1>4 DEF RateInv, RefusalProved, Exhausted, Allowance, Lookback
<1>. HIDE DEF m
<1>5. CASE CheckRate(b, c) = [ok |-> FALSE, crowd |-> TRUE, map |-> m]
  <2>1. ok = FALSE /\ table' = [table EXCEPT ![b] = m]
    <3>1. CheckRate(b, c).ok = FALSE /\ CheckRate(b, c).map = m
      BY <1>5
    <3>2. CheckRate(b, c).ok = ok /\ table' = [table EXCEPT ![b] = CheckRate(b, c).map]
      BY DEF Checked
    <3>. QED
      BY <3>1, <3>2, Zenon
  <2>2. log' = log
    BY <2>1 DEF Checked
  <2>3. TableOK' /\ LogOK' /\ WindowsKept'
    BY <1>1, <1>2, <2>1, <2>2, PruneKeeps
  <2>4. RefusalProved'
    <3>1. CASE b = "login"
      <4>1. verdict' = [ip |-> c, ok |-> FALSE, crowd |-> TRUE, at |-> clock]
        BY <1>5, <2>1, <3>1 DEF Checked
      <4>. QED
        BY <4>1, <1>2 DEF RefusalProved
    <3>. QED
      BY <3>1, <1>3, <1>4
  <2>. QED
    BY <2>3, <2>4 DEF RateInv
<1>6. CASE CheckRate(b, c) = [ok |-> Counted(m, c).count <= MaxOf[b], crowd |-> FALSE,
                              map |-> With(m, c)]
  <2>. DEFINE e == Counted(m, c)
              t == With(m, c)
              l == IF e.count <= Allowance THEN Append(log[c], clock) ELSE log[c]
  <2>1. ok = (e.count <= MaxOf[b]) /\ table' = [table EXCEPT ![b] = t]
    BY <1>6 DEF Checked
  <2>2. e \in Entries
    BY <1>1, CountedEntry
  <2>3. /\ DOMAIN t = DOMAIN m \cup {c} /\ t = [d \in DOMAIN t |-> t[d]] /\ t[c] = e
        /\ \A d \in DOMAIN t : d # c => d \in DOMAIN m /\ t[d] = m[d]
    BY DEF With
  <2>. HIDE DEF t, e
  <2>4. \A d \in Buckets : table'[d] = IF d = b THEN t ELSE table[d]
    BY <2>1 DEF RateInv, TableOK
  <2>5. TableOK'
    <3>1. table' = [d \in Buckets |-> table'[d]]
      BY <2>1 DEF RateInv, TableOK
    <3>2. Entries' = Entries
      BY <1>2 DEF Entries
    <3>3. ASSUME NEW d \in Buckets
          PROVE  /\ table'[d] = [f \in DOMAIN table'[d] |-> table'[d][f]]
                 /\ DOMAIN table'[d] \subseteq Clients
                 /\ \A f \in DOMAIN table'[d] : table'[d][f] \in Entries
      <4>1. CASE d = b
        <5>1. DOMAIN t \subseteq Clients /\ \A f \in DOMAIN t : t[f] \in Entries
          BY <1>1, <2>2, <2>3 DEF RateInv, TableOK, Pruned
        <5>. QED
          BY <4>1, <5>1, <2>3, <2>4
      <4>. QED
        BY <4>1, <2>4 DEF RateInv, TableOK
    <3>. QED
      BY <3>1, <3>2, <3>3 DEF TableOK
  <2>6. CASE b # "login"
    <3>1. Logins' = Logins
      BY <2>4, <2>6 DEF Logins, LoginBucket
    <3>2. LogOK' /\ WindowsKept'
      BY <1>2, <1>3, <2>6, <3>1
         DEF RateInv, LogOK, WindowsKept, Running, Used, Free, Allowance
    <3>. QED
      BY <1>3, <1>4, <2>5, <2>6, <3>2 DEF RateInv
  <2>7. CASE b = "login"
    <3>1. /\ l \in Seq(0..clock) /\ InOrder(l) /\ Spaced(l) /\ Running(l, e)
          /\ e.count <= Allowance \/ Exhausted(l, Lookback(clock), clock)
      BY <1>1, <2>7, CountedAttempt DEF e
    <3>2. ok = (e.count <= Allowance)
      BY <2>1, <2>7 DEF Allowance
    <3>3. log \in [Clients -> Seq(0..clock)]
      BY DEF RateInv, LogOK
    <3>4. log' = [log EXCEPT ![c] = l]
      BY <2>7, <3>2, <3>3 DEF Checked
    <3>. HIDE DEF l
    <3>5. log' \in [Clients -> Seq(0..clock)] /\ log'[c] = l /\ \A d \in Clients : d # c => log'[d] = log[d]
      BY <3>1, <3>3, <3>4
    <3>6. LogOK'
      BY <1>2, <3>1, <3>5 DEF RateInv, LogOK, InOrder, Spaced, Allowance
    <3>7. WindowsKept'
      <4>. SUFFICES ASSUME NEW d \in Clients
                    PROVE  IF d \in DOMAIN Logins' THEN Running(log'[d], Logins'[d])
                                                  ELSE Free(log'[d], clock)
        BY <1>2 DEF WindowsKept, Running, Free, Used, Allowance
      <4>1. Logins' = t
        BY <2>4, <2>7 DEF Logins
      <4>2. CASE d = c
        BY <4>1, <4>2, <2>3, <3>1, <3>5
      <4>3. CASE d # c
        <5>1. log'[d] = log[d] /\ (d \in DOMAIN t <=> d \in DOMAIN m)
          BY <4>3, <2>3, <3>5
        <5>2. d \in DOMAIN m => d \in DOMAIN Logins /\ t[d] = Logins[d]
          BY <4>3, <1>1, <2>3, <2>7 DEF Pruned, Logins
        <5>3. d \in DOMAIN m => Running(log[d], Logins[d])
          BY <5>2 DEF RateInv, WindowsKept
        <5>4. d \notin DOMAIN m => Free(log[d], clock)
          BY <1>1, <2>7 DEF Pruned
        <5>. QED
          BY <4>1, <5>1, <5>2, <5>3, <5>4
      <4>. QED
        BY <4>2, <4>3
    <3>8. RefusalProved'
      <4>1. verdict' = [ip |-> c, ok |-> ok, crowd |-> FALSE, at |-> clock]
        BY <1>6, <2>7 DEF Checked
      <4>2. verdict' \in [ip : Clients, ok : BOOLEAN, crowd : BOOLEAN, at : 0..clock']
        BY <4>1, <1>2
      <4>3. ok \/ Exhausted(log'[c], Lookback(clock), clock)
        BY <3>1, <3>2, <3>5
      <4>. QED
        BY <4>1, <4>2, <4>3 DEF RefusalProved, Exhausted, Allowance, Lookback
    <3>. QED
      BY <2>5, <3>6, <3>7, <3>8 DEF RateInv
  <2>. QED
    BY <2>6, <2>7
<1>. QED
  BY <1>5, <1>6, CheckRateCases DEF m

\* Every step of the limiter keeps the invariant.
LEMMA RateStepKeeps ==
  ASSUME LoginBucket, RateInv, RateNext \/ UNCHANGED limiterVars
  PROVE  RateInv'
<1>1. CASE UNCHANGED limiterVars
  BY <1>1 DEF limiterVars, RateInv, TableOK, Entries, LogOK, InOrder, Spaced, WindowsKept, Logins,
       Running, Used, Free, Allowance, RefusalProved, Exhausted, Lookback
<1>2. CASE RateNext
  BY <1>2, CheckedKeeps, CleanKeeps, TickKeeps DEF RateNext
<1>. QED
  BY <1>1, <1>2

-----------------------------------------------------------------------------
(* Counting.                                                               *)

\* A set of numbers that is not empty has a least one: its initial segment is the least.
LEMMA LeastOf ==
  ASSUME NEW S \in SUBSET Nat, S # {}
  PROVE  \E i \in S : \A j \in S : i <= j
<1>. DEFINE T == {0..k : k \in S}
<1>1. T \subseteq FiniteSubsetsOf(Nat)
  <2>. SUFFICES ASSUME NEW k \in S PROVE 0..k \in FiniteSubsetsOf(Nat)
    OBVIOUS
  <2>1. 0..k \subseteq Nat /\ IsFiniteSet(0..k)
    BY FS_Interval
  <2>. QED
    BY <2>1 DEF FiniteSubsetsOf
<1>2. T # {}
  OBVIOUS
<1>3. PICK x \in T : \A y \in T : <<y, x>> \notin StrictSubsetOrdering(Nat)
  BY <1>1, <1>2, WFMin, FS_StrictSubsetOrderingWellFounded
<1>4. PICK i \in S : x = 0..i
  OBVIOUS
<1>5. ASSUME NEW j \in S PROVE i <= j
  <2>1. <<0..j, 0..i>> \notin StrictSubsetOrdering(Nat)
    BY <1>3, <1>4
  <2>2. 0..j \in SUBSET Nat /\ 0..i \in SUBSET Nat /\ i \in Nat /\ j \in Nat
    OBVIOUS
  <2>3. CASE j < i
    <3>1. 0..j \subseteq 0..i /\ 0..j # 0..i
      BY <2>2, <2>3
    <3>. QED
      BY <2>1, <2>2, <3>1 DEF StrictSubsetOrdering
  <2>. QED
    BY <2>2, <2>3
<1>. QED
  BY <1>5

\* A set of numbers that are less than n apart has at most n of them.
LEMMA NarrowSet ==
  ASSUME NEW n \in Nat, NEW S \in SUBSET Nat, \A i, j \in S : j < i + n
  PROVE  Cardinality(S) <= n
<1>1. CASE S = {}
  BY <1>1, FS_EmptySet
<1>2. CASE S # {}
  <2>1. PICK i \in S : \A j \in S : i <= j
    BY <1>2, LeastOf
  <2>2. S \in SUBSET (i..(i + n - 1)) /\ i < i + n
    BY <2>1
  <2>3. n >= 1 /\ i + n - 1 >= i
    BY <2>2
  <2>4. IsFiniteSet(i..(i + n - 1)) /\ Cardinality(i..(i + n - 1)) = n
    BY <2>3, FS_Interval
  <2>5. Cardinality(S) <= Cardinality(i..(i + n - 1))
    BY <2>2, <2>4, FS_Subset
  <2>. QED
    BY <2>4, <2>5
<1>. QED
  BY <1>1, <1>2

\* No address has more than two allowances of attempts within a window's length.
LEMMA AttemptsCounted == LoginBucket /\ RateInv => AttemptsBounded
<1>. SUFFICES ASSUME LoginBucket, RateInv, NEW c \in Clients, NEW t \in 0..clock
              PROVE  Since(c, t, t + Window - 1) <= 2 * Allowance
  BY DEF AttemptsBounded, Allowance
<1>. DEFINE S == {i \in DOMAIN log[c] : log[c][i] \in t..(t + Window - 1)}
<1>1. Allowance \in Nat /\ Window \in Nat /\ clock \in Nat
  BY AllowancePositive DEF RateInv, LogOK
<1>2. log[c] \in Seq(0..clock) /\ Spaced(log[c])
  BY DEF RateInv, LogOK
<1>3. S \in SUBSET Nat
  BY <1>2
<1>4. ASSUME NEW i \in S, NEW j \in S PROVE j < i + 2 * Allowance
  <2>1. i \in DOMAIN log[c] /\ j \in DOMAIN log[c] /\ i \in Nat /\ j \in Nat
    BY <1>2
  <2>2. log[c][i] \in Nat /\ log[c][j] \in Nat /\ t <= log[c][i] /\ log[c][j] <= t + Window - 1
    BY <1>1, <1>2
  <2>3. ~ (log[c][i] + Window <= log[c][j])
    BY <1>1, <2>2
  <2>4. ~ (i + 2 * Allowance <= j)
    BY <1>2, <2>1, <2>3 DEF Spaced
  <2>. QED
    BY <1>1, <2>1, <2>4
<1>5. 2 * Allowance \in Nat
  BY <1>1
<1>. HIDE DEF S
<1>6. Cardinality(S) <= 2 * Allowance
  BY <1>3, <1>4, <1>5, NarrowSet
<1>. QED
  BY <1>6 DEF Since, S

\* An exhausted allowance is that many attempts.
LEMMA RefusalCounted == LoginBucket /\ RateInv => RefusalDeserved
<1>. SUFFICES ASSUME LoginBucket, RateInv, ~ verdict.ok, ~ verdict.crowd
              PROVE  Since(verdict.ip, Lookback(verdict.at), verdict.at) >= Allowance
  BY DEF RefusalDeserved, Lookback, Allowance
<1>. DEFINE c == verdict.ip
            from == Lookback(verdict.at)
            S == {i \in DOMAIN log[c] : log[c][i] \in from..verdict.at}
<1>1. Allowance \in Nat
  BY AllowancePositive
<1>2. c \in Clients /\ Exhausted(log[c], from, verdict.at)
  BY DEF RateInv, RefusalProved
<1>3. log[c] \in Seq(0..clock)
  BY <1>2 DEF RateInv, LogOK
<1>4. Len(log[c]) \in Nat /\ DOMAIN log[c] = 1..Len(log[c])
  BY <1>3
<1>5. PICK m \in 0..Len(log[c]) :
        /\ m + Allowance <= Len(log[c])
        /\ \A i \in (m + 1)..(m + Allowance) : log[c][i] \in from..verdict.at
  BY <1>2 DEF Exhausted
<1>. DEFINE A == (m + 1)..(m + Allowance)
<1>6. A \in SUBSET S
  BY <1>1, <1>4, <1>5
<1>7. Cardinality(A) = Allowance
  BY <1>1, <1>4, FS_Interval
<1>8. IsFiniteSet(S) /\ Cardinality(S) \in Nat
  <2>1. IsFiniteSet(1..Len(log[c])) /\ S \in SUBSET (1..Len(log[c]))
    BY <1>4, FS_Interval
  <2>. QED
    BY <2>1, FS_Subset, FS_CardinalityType
<1>. HIDE DEF A, S
<1>9. Cardinality(A) <= Cardinality(S)
  BY <1>6, <1>8, FS_Subset
<1>. QED
  BY <1>1, <1>7, <1>8, <1>9 DEF Since, S

\* The types of the limiter.
LEMMA RateTyped == RateInv => RateTypeOK
BY DEF RateInv, LogOK, TableOK, Entries, RefusalProved, RateTypeOK
=============================================================================
