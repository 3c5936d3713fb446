------------------------------- MODULE RateLimit -------------------------------
(***************************************************************************)
(* The rate limiter of tgstate-rust (middleware/rate_limit.rs): a table per *)
(* bucket that counts the requests of each address in a window of its own.  *)
(* A check holds the bucket's mutex from its start to its end, so it is one *)
(* step; the cleaner takes the buckets one after the other.                 *)
(***************************************************************************)
EXTENDS Naturals, FiniteSets, Sequences

CONSTANTS
  Clients,      \* addresses
  Buckets,      \* "login", "api" (upload and download are further ones)
  MaxOf,        \* requests that a bucket admits per window
  Window,       \* RATE_LIMIT_WINDOW_SECS
  CleanAge,     \* RATE_LIMIT_CLEANUP_INTERVAL_SECS: age at which the cleaner drops
  MaxEntries    \* RATE_LIMIT_MAX_ENTRIES

ASSUME RateConstants ==
  /\ Clients # {} /\ Buckets # {} /\ MaxOf \in [Buckets -> Nat \ {0}]
  /\ Window \in Nat \ {0} /\ CleanAge \in Nat /\ CleanAge >= Window
  /\ MaxEntries \in Nat

VARIABLES
  clock,    \* Instant::now, in units of which the window has a few
  table,    \* table[b]: a function from the addresses with an entry
  log,      \* history: log[c], the times at which an attempt of c was admitted
  verdict   \* history: the last attempt that was checked

limiterVars == <<clock, table, log, verdict>>

NoVerdict == [ip |-> CHOOSE c \in Clients : TRUE, ok |-> TRUE, crowd |-> FALSE,
              at |-> 0]

RateInit ==
  /\ clock = 0
  /\ table = [b \in Buckets |-> <<>>]
  /\ log = [c \in Clients |-> <<>>]
  /\ verdict = NoVerdict

\* retain: the entries of m younger than age.
Younger(m, age) == [c \in {d \in DOMAIN m : clock - m[d].start < age} |-> m[c]]

Crowded(m) == Cardinality(DOMAIN m) > MaxEntries

\* Mutant: a new window starts with nothing counted.
Mut_CountedFromZero(m, c) ==
  IF c \notin DOMAIN m THEN [count |-> 1, start |-> clock]
  ELSE IF clock - m[c].start > Window THEN [count |-> 0, start |-> clock]
  ELSE [m[c] EXCEPT !.count = @ + 1]

\* The entry of c in m after a request.
Counted(m, c) ==
  IF c \notin DOMAIN m \/ clock - m[c].start > Window THEN [count |-> 1, start |-> clock]
  ELSE [m[c] EXCEPT !.count = @ + 1]

\* Mutant: the last request of the allowance is refused.
Mut_CheckStrict(b, c) ==
  LET kept == IF Crowded(table[b]) THEN Younger(table[b], Window) ELSE table[b]
      entry == Counted(kept, c)
  IN [ok    |-> entry.count < MaxOf[b],
      crowd |-> FALSE,
      map   |-> [d \in DOMAIN kept \cup {c} |-> IF d = c THEN entry ELSE kept[d]]]

\* check_rate: the answer, whether the table is full of young entries, and the table.
\* A table that is full refuses the addresses it knows, too.
CheckRate(b, c) ==
  LET kept == IF Crowded(table[b]) THEN Younger(table[b], Window) ELSE table[b]
      entry == Counted(kept, c)
  IN IF Crowded(kept) THEN [ok |-> FALSE, crowd |-> TRUE, map |-> kept]
     ELSE [ok    |-> entry.count <= MaxOf[b],
           crowd |-> FALSE,
           map   |-> [d \in DOMAIN kept \cup {c} |-> IF d = c THEN entry ELSE kept[d]]]

\* rate_limit_middleware: the request of c is counted, and goes on if ok.
Checked(b, c, ok) ==
  /\ CheckRate(b, c).ok = ok
  /\ table' = [table EXCEPT ![b] = CheckRate(b, c).map]
  /\ IF b = "login"
     THEN /\ verdict' = [ip |-> c, ok |-> ok, crowd |-> CheckRate(b, c).crowd,
                         at |-> clock]
          /\ log' = IF ok THEN [log EXCEPT ![c] = Append(@, clock)] ELSE log
     ELSE UNCHANGED <<log, verdict>>
  /\ UNCHANGED clock

\* Mutant: the cleaner drops whatever is older than the moment.
Mut_CleanRecent(b) ==
  /\ table' = [table EXCEPT ![b] = Younger(@, 1)]
  /\ UNCHANGED <<clock, log, verdict>>

\* cleanup_expired, at any time.
Clean(b) ==
  /\ table' = [table EXCEPT ![b] = Younger(@, CleanAge)]
  /\ UNCHANGED <<clock, log, verdict>>

Tick == clock' = clock + 1 /\ UNCHANGED <<table, log, verdict>>

-----------------------------------------------------------------------------
Since(c, from, to) == Cardinality({i \in DOMAIN log[c] : log[c][i] \in from..to})

RateTypeOK ==
  /\ clock \in Nat
  /\ \A b \in Buckets : \A c \in DOMAIN table[b] :
       table[b][c].count \in Nat \ {0} /\ table[b][c].start \in 0..clock
  /\ verdict.ip \in Clients

\* No address gets more than two allowances of login attempts into any interval as
\* long as a window, however its requests fall around the edges of its windows, the
\* cleaner and the eviction of a table that has filled up.
AttemptsBounded ==
  \A c \in Clients : \A t \in 0..clock :
    Since(c, t, t + Window - 1) <= 2 * MaxOf["login"]

\* An attempt is refused only to an address that has used its allowance within the
\* last window, or when the table is full: attempts that were themselves refused do
\* not keep an address out.
RefusalDeserved ==
  LET at == verdict.at IN
  \/ verdict.ok \/ verdict.crowd
  \/ Since(verdict.ip, IF at > Window THEN at - Window ELSE 0, at) >= MaxOf["login"]
=============================================================================
