---------------------------- MODULE Upload_proofs ----------------------------
(***************************************************************************)
(* Proofs about Upload, for any number of transfers of any length, any size *)
(* of a message, any limit and any number of chunks.                        *)
(*                                                                         *)
(* The argument has three parts.  What a transfer has sent and what is in   *)
(* its buffer are consecutive slices of the bytes it was given (Carries),   *)
(* and the slices joined are the whole.  A session's assembled.bin is what  *)
(* its one open completion has written, unless two are open, and then both  *)
(* are marked (MixInv).  Every message belongs to one row, one transfer or  *)
(* the deletion, and none is forgotten (ApartInv, TracedInv).               *)
(***************************************************************************)
EXTENDS Upload, FiniteSetTheorems, WellFoundedInduction, TLAPS

Message == [units : Seq(Nat), parts : Seq(Nat)]

-----------------------------------------------------------------------------
(* What is put together from the messages of a channel c.                   *)

Joined(c, p) == FoldLeft(LAMBDA s, i : s \o c[i].units, <<>>, p)

\* The units from a + 1 to b.
Slice(a, b) == [i \in 1..(b - a) |-> a + i]

\* The messages p hold the first n units, one slice after the other.
Carried(c, p, n) ==
  \E E \in [0..Len(p) -> Nat] :
    /\ E[0] = 0 /\ E[Len(p)] = n
    /\ \A k \in 1..Len(p) : /\ E[k - 1] <= E[k]
                            /\ c[p[k]].units = Slice(E[k - 1], E[k])

\* Message m, with the parts it names, holds the first n units.
Holding(c, m, n) ==
  IF c[m].parts = <<>> THEN c[m].units = Whole(n) ELSE Carried(c, c[m].parts, n)

\* The messages of a channel name older ones.
Backward(c) == c \in Seq(Message) /\ \A i \in DOMAIN c : Range(c[i].parts) \subseteq 1..(i - 1)

\* Channel d is c with more messages at its end.
Grown(c, d) == Len(c) <= Len(d) /\ \A i \in DOMAIN c : d[i] = c[i]

-----------------------------------------------------------------------------
(* The inductive invariant.                                                *)

Working == {"recv", "part", "last", "single", "manifest", "record"}
AfterStream == {"last", "single", "manifest", "record"}
Pcs == Working \cup {"idle", "fields", "create", "copy", "cleanup", "done", "failed", "refused"}

TransferType ==
  [kind : {"none", "form", "bytes", "body", "chunks"}, pc : Pcs, size : Nat, pos : Nat,
   buf : Seq(Nat), parts : Seq(Nat), fields : Seq({"file", "good", "bad"}),
   verified : BOOLEAN, checked : BOOLEAN, key : {"none", "good", "bad"}, pending : BOOLEAN,
   result : {"none", "err", "ok"}, main : Nat, off : Nat, next : Nat, cut : BOOLEAN,
   mixed : BOOLEAN, shown : SUBSET {"good", "bad"}, stored : BOOLEAN]

Blank(q) == q.pos = 0 /\ q.buf = <<>> /\ q.parts = <<>> /\ q.main = 0

\* What a transfer looks like at each of its steps.
Shape(q) ==
  /\ Len(q.buf) <= Part
  /\ q.pc \in {"create", "copy", "cleanup"} => q.kind = "chunks"
  /\ q.pc = "fields" => q.kind = "form"
  /\ q.pc = "idle" => ~ q.stored
  /\ q.pc = "cleanup" => q.stored
  /\ q.kind = "chunks" /\ q.stored => q.pc \in {"cleanup", "done", "failed"}
  /\ q.kind = "chunks" /\ q.pc # "idle" => q.size = Chunks
  /\ q.pc \in {"idle", "create", "copy"} => Blank(q) /\ q.result = "none"
  /\ q.pc \in {"idle", "create"} => q.off = 0
  /\ q.pc = "copy" => q.next \in Nat \ {0}
  /\ q.pc = "fields" /\ q.result = "none" => Blank(q)
  /\ q.pc \in Working \ {"record"} => q.main = 0
  /\ q.pc = "recv" => Len(q.buf) < Part
  /\ q.pc = "single" => q.parts = <<>>
  /\ q.pc = "manifest" => q.buf = <<>> /\ q.parts # <<>>
  /\ q.pc \in AfterStream /\ ~ q.cut /\ ~ q.mixed => q.pos = q.size

\* The messages that it names are there.
Refers(c, q) ==
  /\ Range(q.parts) \subseteq DOMAIN c
  /\ q.main \in 0..Len(c)
  /\ q.pc = "record" => q.main # 0 /\ c[q.main].parts = q.parts

\* What it has sent, and after it what is in its buffer, is what it was given.
Carries(c, q) ==
  q.pc \in Working /\ ~ q.mixed =>
    IF q.pc = "record" THEN Holding(c, q.main, q.pos)
    ELSE \E n \in 0..q.pos : Carried(c, q.parts, n) /\ q.buf = Slice(n, q.pos)

\* A form that is verified, or works, or has stored, has been shown the key.
Authorized(q) ==
  /\ q.key = "good" => "good" \in q.shown
  /\ q.kind = "form" /\ q.pc \in Working => q.verified
  /\ q.kind \in {"form", "bytes"} /\ (q.verified \/ q.kind = "bytes" \/ q.stored) =>
       q.checked \/ "good" \in q.shown

Sound(c, q) == q \in TransferType /\ Shape(q) /\ Refers(c, q) /\ Carries(c, q) /\ Authorized(q)

Transferring == x = [t \in Transfers |-> x[t]] /\ \A t \in Transfers : Sound(channel, x[t])

ChannelInv == Backward(channel) /\ gone \cup orphans \subseteq DOMAIN channel

DiskInv ==
  disk \in [dir : BOOLEAN, chunk : [1..Chunks -> {"none", "torn", "full"}],
            asm : Seq(0..Chunks)]

Opened(q) == q.kind = "chunks" /\ q.pc \in {"copy", "recv", "part"}

\* assembled.bin while one completion has it open; when two have, both are marked.
OpenAlone(y, asm) ==
  \A t \in Transfers : Opened(y[t]) /\ ~ y[t].mixed =>
    /\ \A u \in Transfers \ {t} : ~ Opened(y[u])
    /\ IF y[t].pc = "copy"
       THEN y[t].next = y[t].off + 1 /\ y[t].off <= Chunks /\ asm = Whole(y[t].off)
       ELSE y[t].pos <= Chunks /\ asm = Whole(Chunks)

MixInv == OpenAlone(x, disk.asm)

Row == [main : Nat, size : Nat, by : Transfers]

\* A row r is about what its transfer stored.
RowOK(c, y, r) ==
  /\ r \in Row /\ r.main \in DOMAIN c /\ y[r.by].stored
  /\ ~ y[r.by].mixed => Holding(c, r.main, r.size)
  /\ ~ y[r.by].mixed /\ ~ y[r.by].cut => r.size = y[r.by].size

RowsInv == \A r \in rows : RowOK(channel, x, r)

\* The messages that a transfer has to bring into a row.
HoldsOf(q) == IF q.pc \in Working THEN Range(q.parts) \cup ({q.main} \ {0}) ELSE {}

MessagesIn(c, m) == {m} \cup Range(c[m].parts)

\* The rows, with the one that is being deleted or has been.
Filed == rows \cup (IF del.pc = "idle" THEN {} ELSE {del.row})

\* No message has two owners, and only a deletion deletes.
ApartInv ==
  /\ \A t, u \in Transfers : t # u => HoldsOf(x[t]) \cap HoldsOf(x[u]) = {}
  /\ \A r \in Filed, t \in Transfers : MessagesIn(channel, r.main) \cap HoldsOf(x[t]) = {}
  /\ \A r, s \in Filed : r # s => MessagesIn(channel, r.main) \cap MessagesIn(channel, s.main) = {}
  /\ gone \subseteq IF del.pc = "idle" THEN {} ELSE MessagesIn(channel, del.row.main)

TracedInv ==
  \A m \in DOMAIN channel \ (gone \cup orphans) :
    \/ \E r \in rows : m \in MessagesIn(channel, r.main)
    \/ \E t \in Transfers : m \in HoldsOf(x[t])

DelInv ==
  /\ del = [pc |-> del.pc, row |-> del.row, todo |-> del.todo]
  /\ del.pc \in {"idle", "parts", "row", "done"}
  /\ del.pc # "idle" => del.row \in Row /\ del.row.main \in DOMAIN channel
  /\ del.pc = "parts" => /\ del.todo \subseteq Range(channel[del.row.main].parts)
                         /\ Range(channel[del.row.main].parts) \ del.todo \subseteq gone \cup orphans
  /\ del.pc = "row" => MessagesIn(channel, del.row.main) \subseteq gone \cup orphans

\* What a download has delivered, and what it still has to fetch.
DownInv ==
  /\ down = [pc |-> down.pc, row |-> down.row, todo |-> down.todo, got |-> down.got]
  /\ down.pc \in {"idle", "stream", "broken", "ended"}
  /\ down.pc # "idle" => down.row.main \in DOMAIN channel /\ channel[down.row.main].parts # <<>>
  /\ down.pc = "stream" =>
       LET P == channel[down.row.main].parts IN
       \E k \in 0..Len(P) : /\ down.todo = SubSeq(P, k + 1, Len(P))
                            /\ down.got = Joined(channel, SubSeq(P, 1, k))
  /\ down.pc = "ended" => down.got = Joined(channel, channel[down.row.main].parts)

UploadInv ==
  /\ ChannelInv /\ DiskInv /\ Transferring /\ MixInv /\ RowsInv /\ ApartInv /\ TracedInv
  /\ DelInv /\ DownInv


-----------------------------------------------------------------------------
(* What a fold over a sequence joins.                                      *)

\* The definitions of the community modules, spelled out.
LEMMA JoinedSpelled ==
  ASSUME NEW c, NEW p
  PROVE  Joined(c, p) =
           (CHOOSE G : G = [s \in SUBSET DOMAIN p |->
                              IF s = {} THEN <<>> ELSE G[s \ {Max(s)}] \o c[p[Max(s)]].units])[DOMAIN p]
BY Zenon DEF Joined, FoldLeft, MapThenFoldSet

\* What a reader of a message puts together, by the fold spelled out.
LEMMA ContentSpelled ==
  ASSUME NEW m
  PROVE  Content(m) = IF channel[m].parts = <<>> THEN channel[m].units
                      ELSE Joined(channel, channel[m].parts)
BY Zenon DEF Joined, Content

\* The function that the fold over p defines, for the numbers 1..n.
Folding(F, c, p, n) ==
  F = [s \in SUBSET (1..n) |->
         IF s = {} THEN <<>> ELSE F[s \ {Max(s)}] \o c[p[Max(s)]].units]

\* A set of numbers that is not empty has a least element.
LEMMA LeastNumber ==
  ASSUME NEW S \in SUBSET Nat, S # {}
  PROVE  \E k \in S : \A i \in S : k <= i
<1>. DEFINE B == {0..i : i \in S}
<1>1. B # {} /\ B \subseteq FiniteSubsetsOf(Nat)
  <2>1. \A i \in S : 0..i \subseteq Nat /\ IsFiniteSet(0..i)
    BY FS_Interval
  <2>. QED
    BY <2>1 DEF FiniteSubsetsOf
<1>2. PICK b \in B : \A z \in B : <<z, b>> \notin StrictSubsetOrdering(Nat)
  BY <1>1, WFMin, FS_StrictSubsetOrderingWellFounded
<1>3. PICK k \in S : b = 0..k
  OBVIOUS
<1>4. ASSUME NEW i \in S, i < k PROVE FALSE
  <2>1. 0..i \in SUBSET Nat /\ 0..k \in SUBSET Nat /\ 0..i \subseteq 0..k /\ 0..i # 0..k
    BY <1>4
  <2>2. <<0..i, 0..k>> \notin StrictSubsetOrdering(Nat)
    <3>1. 0..i \in B
      OBVIOUS
    <3>. QED
      BY Zenon, <1>2, <1>3, <3>1
  <2>. QED
    BY <2>1, <2>2 DEF StrictSubsetOrdering
<1>. QED
  BY <1>4

\* A set of numbers up to n that is not empty has a largest element.
LEMMA LargestNumber ==
  ASSUME NEW n \in Nat, NEW S \in SUBSET (1..n), S # {}
  PROVE  Max(S) \in S /\ \A i \in S : i <= Max(S)
<1>1. PICK k \in {n - i : i \in S} : \A j \in {n - i : i \in S} : k <= j
  <2>. DEFINE T == {n - i : i \in S}
  <2>1. T # {}
    OBVIOUS
  <2>2. \A i \in S : n - i \in Nat
    OBVIOUS
  <2>. QED
    BY <2>1, <2>2, LeastNumber
<1>2. PICK m \in S : k = n - m
  OBVIOUS
<1>3. ASSUME NEW i \in S PROVE m >= i
  <2>1. n - m <= n - i /\ i \in 1..n /\ m \in 1..n
    BY <1>1, <1>2
  <2>. QED
    BY <2>1
<1>. QED
  BY <1>3 DEF Max

\* The largest of 1 to n is n.
LEMMA LargestOf ==
  ASSUME NEW n \in Nat, NEW S \in SUBSET (1..n), n \in S
  PROVE  Max(S) = n
<1>1. PICK m : m = Max(S) /\ m \in S /\ n <= m
  BY LargestNumber
<1>. QED
  BY <1>1

\* A recursive function over the subsets of 1..n exists: it is built up number by number.
LEMMA FoldingExists ==
  ASSUME NEW c, NEW p, NEW n \in Nat
  PROVE  \E F : Folding(F, c, p, n)
<1>. DEFINE Bad == {k \in Nat : ~ \E F : Folding(F, c, p, k)}
<1>. SUFFICES ASSUME Bad # {} PROVE FALSE
  OBVIOUS
<1>1. PICK k \in Bad : \A i \in Bad : k <= i
  BY LeastNumber
<1>2. k # 0
  <2>. DEFINE F == [s \in SUBSET (1..0) |-> <<>>]
  <2>1. \A s \in SUBSET (1..0) : s = {}
    OBVIOUS
  <2>2. Folding(F, c, p, 0)
    BY <2>1 DEF Folding
  <2>. QED
    BY <1>1, <2>2
<1>3. PICK G : Folding(G, c, p, k - 1)
  <2>1. k - 1 \in Nat /\ ~ (k <= k - 1)
    BY <1>2
  <2>. QED
    BY <1>1, <2>1
<1>. DEFINE F == [s \in SUBSET (1..k) |->
                    IF k \in s THEN G[s \ {k}] \o c[p[k]].units ELSE G[s]]
<1>4. \A s \in SUBSET (1..k) : k \notin s => s \in SUBSET (1..(k - 1))
  BY <1>2
<1>5. ASSUME NEW s \in SUBSET (1..k)
      PROVE  F[s] = IF s = {} THEN <<>> ELSE F[s \ {Max(s)}] \o c[p[Max(s)]].units
  <2>1. CASE s = {}
    <3>1. F[s] = G[{}] /\ {} \in SUBSET (1..(k - 1))
      BY <2>1
    <3>. QED
      BY <1>3, <2>1, <3>1 DEF Folding
  <2>2. CASE k \in s
    <3>1. Max(s) = k
      BY <2>2, LargestOf
    <3>2. s \ {k} \in SUBSET (1..k) /\ k \notin s \ {k}
      OBVIOUS
    <3>. QED
      BY <2>2, <3>1, <3>2
  <2>3. CASE s # {} /\ k \notin s
    <3>1. s \in SUBSET (1..(k - 1)) /\ s \ {Max(s)} \in SUBSET (1..k) /\ k \notin s \ {Max(s)}
      BY <2>3, <1>4
    <3>2. F[s] = G[s] /\ F[s \ {Max(s)}] = G[s \ {Max(s)}]
      BY <2>3, <3>1
    <3>3. G[s] = G[s \ {Max(s)}] \o c[p[Max(s)]].units
      BY <1>3, <2>3, <3>1 DEF Folding
    <3>. QED
      BY <2>3, <3>2, <3>3
  <2>. QED
    BY <2>1, <2>2, <2>3
<1>6. Folding(F, c, p, k)
  BY <1>5 DEF Folding
<1>. QED
  BY <1>1, <1>6

\* H[k] is what the first k messages of p hold.
Partial(H, c, p) ==
  /\ H[0] = <<>>
  /\ \A k \in 1..Len(p) : H[k] = H[k - 1] \o c[p[k]].units

\* Joined is what the prefixes lead to.
LEMMA JoinedPrefixes ==
  ASSUME NEW c, NEW p \in Seq(Nat)
  PROVE  \E H : Partial(H, c, p) /\ Joined(c, p) = H[Len(p)]
<1>1. PICK n : n = Len(p) /\ n \in Nat /\ DOMAIN p = 1..n
  OBVIOUS
<1>. DEFINE G == CHOOSE F : Folding(F, c, p, n)
<1>2. Folding(G, c, p, n)
  BY <1>1, FoldingExists
<1>3. Joined(c, p) = G[1..n]
  BY Zenon, JoinedSpelled, <1>1 DEF Folding
<1>. HIDE DEF G
<1>. DEFINE H == [k \in 0..n |-> G[1..k]]
<1>4. H[0] = <<>>
  <2>1. H[0] = G[{}] /\ {} \in SUBSET (1..n)
    BY <1>1
  <2>. QED
    BY <1>2, <2>1 DEF Folding
<1>5. ASSUME NEW k \in 1..n PROVE H[k] = H[k - 1] \o c[p[k]].units
  <2>1. k \in Nat /\ k <= n /\ k >= 1
    BY <1>1
  <2>. k \in Nat /\ 1..k \in SUBSET (1..n) /\ 1..k # {} /\ k \in 1..k
    BY <1>1, <2>1
  <2>2. Max(1..k) = k /\ (1..k) \ {k} = 1..(k - 1)
    <3>1. 1..k \in SUBSET (1..k)
      OBVIOUS
    <3>2. Max(1..k) = k
      BY <3>1, LargestOf
    <3>. QED
      BY <3>2
  <2>3. G[1..k] = G[(1..k) \ {Max(1..k)}] \o c[p[Max(1..k)]].units
    BY <1>2 DEF Folding
  <2>4. k \in 0..n /\ k - 1 \in 0..n
    BY <1>1
  <2>. QED
    BY <2>2, <2>3, <2>4
<1>6. H[n] = G[1..n]
  BY <1>1
<1>. QED
  BY <1>1, <1>3, <1>4, <1>5, <1>6 DEF Partial

\* Two accounts of the prefixes agree.
LEMMA PrefixesAgree ==
  ASSUME NEW c, NEW p \in Seq(Nat), NEW G, NEW H, Partial(G, c, p), Partial(H, c, p)
  PROVE  \A k \in 0..Len(p) : G[k] = H[k]
<1>. DEFINE Bad == {k \in 0..Len(p) : G[k] # H[k]}
<1>. SUFFICES ASSUME Bad # {} PROVE FALSE
  OBVIOUS
<1>1. PICK k \in Bad : \A i \in Bad : k <= i
  <2>1. Bad \in SUBSET Nat
    OBVIOUS
  <2>. QED
    BY <2>1, LeastNumber
<1>2. k # 0
  BY <1>1 DEF Partial
<1>3. k \in 1..Len(p) /\ k - 1 \in 0..Len(p) /\ ~ (k <= k - 1)
  BY <1>2
<1>4. G[k - 1] = H[k - 1]
  BY <1>1, <1>3
<1>. QED
  BY <1>3, <1>4 DEF Partial

\* So an account of the prefixes is one of what is joined.
LEMMA JoinedIs ==
  ASSUME NEW c, NEW p \in Seq(Nat), NEW H, Partial(H, c, p)
  PROVE  Joined(c, p) = H[Len(p)]
<1>1. PICK G : Partial(G, c, p) /\ Joined(c, p) = G[Len(p)]
  BY JoinedPrefixes
<1>2. \A k \in 0..Len(p) : G[k] = H[k]
  BY <1>1, PrefixesAgree
<1>. QED
  BY <1>1, <1>2

\* Nothing joined is nothing.
LEMMA JoinedNone ==
  ASSUME NEW c
  PROVE  Joined(c, <<>>) = <<>>
<1>. DEFINE H == [k \in {0} |-> <<>>]
<1>1. Partial(H, c, <<>>)
  BY DEF Partial
<1>. QED
  BY <1>1, JoinedIs

\* One message more adds its units.
LEMMA JoinedAppend ==
  ASSUME NEW c, NEW p \in Seq(Nat), NEW i \in Nat
  PROVE  Joined(c, Append(p, i)) = Joined(c, p) \o c[i].units
<1>1. PICK H : Partial(H, c, p) /\ Joined(c, p) = H[Len(p)]
  BY JoinedPrefixes
<1>2. PICK n : n = Len(p) /\ n \in Nat
  OBVIOUS
<1>. DEFINE q == Append(p, i)
<1>3. q \in Seq(Nat) /\ Len(q) = n + 1 /\ q[n + 1] = i /\ \A k \in 1..n : q[k] = p[k]
  BY <1>2
<1>. DEFINE G == [k \in 0..(n + 1) |-> IF k = n + 1 THEN H[n] \o c[i].units ELSE H[k]]
<1>. HIDE DEF q
<1>4. G[0] = <<>>
  BY <1>1, <1>2 DEF Partial
<1>5. ASSUME NEW k \in 1..(n + 1) PROVE G[k] = G[k - 1] \o c[q[k]].units
  <2>1. k - 1 \in 0..(n + 1) /\ k \in 0..(n + 1) /\ k - 1 # n + 1
    BY <1>2
  <2>2. CASE k = n + 1
    <3>1. G[k] = H[n] \o c[i].units /\ q[k] = i
      BY <1>3, <2>1, <2>2
    <3>2. G[k - 1] = H[n]
      BY <1>2, <2>1, <2>2
    <3>. QED
      BY <3>1, <3>2
  <2>3. CASE k # n + 1
    <3>1. k \in 1..n
      BY <1>2, <2>3
    <3>. QED
      BY <1>1, <1>2, <1>3, <2>1, <2>3, <3>1 DEF Partial
  <2>. QED
    BY <2>2, <2>3
<1>6. Partial(G, c, q)
  BY <1>3, <1>4, <1>5 DEF Partial
<1>7. Joined(c, q) = G[n + 1]
  BY <1>3, <1>6, JoinedIs
<1>. QED
  BY <1>1, <1>2, <1>7 DEF q

\* Messages that are not among the parts do not matter.
LEMMA JoinedStays ==
  ASSUME NEW c, NEW d, NEW p \in Seq(Nat), \A i \in Range(p) : d[i] = c[i]
  PROVE  Joined(d, p) = Joined(c, p)
<1>1. \A k \in 1..Len(p) : c[p[k]] = d[p[k]]
  BY DEF Range
<1>2. PICK G : Partial(G, c, p) /\ Joined(c, p) = G[Len(p)]
  BY JoinedPrefixes
<1>3. Partial(G, d, p)
  BY <1>1, <1>2 DEF Partial
<1>4. Joined(d, p) = G[Len(p)]
  BY <1>3, JoinedIs
<1>. QED
  BY <1>2, <1>4


-----------------------------------------------------------------------------
(* Slices, and the messages that carry them.                               *)

\* The whole is the slice from the beginning; a slice that is longer by its next unit.
LEMMA Slices ==
  ASSUME NEW a \in Nat, NEW b \in Nat, a <= b
  PROVE  /\ Slice(a, b) \in Seq(Nat) /\ Len(Slice(a, b)) = b - a
         /\ Slice(a, b) = <<>> <=> a = b
         /\ Slice(0, b) = Whole(b)
         /\ Append(Slice(a, b), b + 1) = Slice(a, b + 1)
<1>1. Slice(a, b) \in Seq(Nat) /\ Len(Slice(a, b)) = b - a
  BY DEF Slice
<1>2. Slice(a, b) = <<>> <=> a = b
  BY <1>1
<1>3. Slice(0, b) = Whole(b)
  BY DEF Slice, Whole
<1>4. Append(Slice(a, b), b + 1) = Slice(a, b + 1)
  <2>1. b + 1 - a = (b - a) + 1
    OBVIOUS
  <2>. QED
    BY <2>1 DEF Slice
<1>. QED
  BY <1>1, <1>2, <1>3, <1>4

\* The slice from a place to itself is empty.
LEMMA NoSlice ==
  ASSUME NEW b \in Nat
  PROVE  Slice(b, b) = <<>> /\ b \in 0..b
<1>1. b <= b /\ b \in 0..b
  OBVIOUS
<1>. QED
  BY <1>1, Slices

\* A whole and the slice after it are a longer whole.
LEMMA SlicesJoin ==
  ASSUME NEW a \in Nat, NEW b \in Nat, a <= b
  PROVE  Whole(a) \o Slice(a, b) = Whole(b)
<1>1. Whole(a) \in Seq(Nat) /\ Len(Whole(a)) = a /\ Slice(a, b) \in Seq(Nat) /\ Len(Slice(a, b)) = b - a
  BY DEF Whole, Slice
<1>2. Len(Whole(a) \o Slice(a, b)) = b /\ Whole(a) \o Slice(a, b) \in Seq(Nat)
  <2>. PICK u, v : u = Whole(a) /\ v = Slice(a, b)
    OBVIOUS
  <2>1. u \in Seq(Nat) /\ v \in Seq(Nat) /\ Len(u) = a /\ Len(v) = b - a
    BY <1>1
  <2>2. u \o v \in Seq(Nat) /\ Len(u \o v) = Len(u) + Len(v)
    BY <2>1
  <2>. QED
    BY <2>1, <2>2
<1>3. Whole(b) \in Seq(Nat) /\ Len(Whole(b)) = b
  BY DEF Whole
<1>4. ASSUME NEW i \in 1..b PROVE (Whole(a) \o Slice(a, b))[i] = i
  <2>. DEFINE u == Whole(a)
              v == Slice(a, b)
  <2>0. /\ u \in Seq(Nat) /\ Len(u) = a /\ v \in Seq(Nat) /\ Len(v) = b - a
        /\ \A k \in 1..a : u[k] = k
        /\ \A k \in 1..(b - a) : v[k] = a + k
    BY <1>1 DEF Whole, Slice
  <2>. HIDE DEF u, v
  <2>1. CASE i <= a
    <3>1. (u \o v)[i] = u[i] /\ i \in 1..a
      BY <2>0, <2>1
    <3>. QED
      BY <2>0, <3>1 DEF u, v
  <2>2. CASE a < i
    <3>1. (u \o v)[i] = v[i - a] /\ i - a \in 1..(b - a)
      BY <2>0, <2>2
    <3>2. v[i - a] = a + (i - a) /\ a + (i - a) = i
      BY <2>0, <3>1
    <3>. QED
      BY <3>1, <3>2 DEF u, v
  <2>3. i <= a \/ a < i
    OBVIOUS
  <2>. QED
    BY Zenon, <2>1, <2>2, <2>3
<1>. QED
  BY <1>2, <1>3, <1>4 DEF Whole

\* Nothing is carried by no message, and nothing but nothing.
LEMMA CarriedNone ==
  ASSUME NEW c
  PROVE  Carried(c, <<>>, 0) /\ \A n : Carried(c, <<>>, n) => n = 0
<1>1. Carried(c, <<>>, 0)
  <2>. DEFINE E == [k \in 0..0 |-> 0]
  <2>1. E \in [0..Len(<<>>) -> Nat] /\ E[0] = 0 /\ E[Len(<<>>)] = 0
    OBVIOUS
  <2>. HIDE DEF E
  <2>. QED
    BY <2>1 DEF Carried
<1>. QED
  BY <1>1 DEF Carried

\* One message more carries the next slice.
LEMMA CarriedExtend ==
  ASSUME NEW c, NEW d, NEW p \in Seq(Nat), NEW n \in Nat, NEW m \in Nat, n <= m, NEW i \in Nat,
         Carried(c, p, n), \A j \in Range(p) : d[j] = c[j], d[i].units = Slice(n, m)
  PROVE  Carried(d, Append(p, i), m)
<1>1. PICK l : l = Len(p) /\ l \in Nat
  OBVIOUS
<1>2. PICK E \in [0..l -> Nat] : /\ E[0] = 0 /\ E[l] = n
                                 /\ \A k \in 1..l : /\ E[k - 1] <= E[k]
                                                    /\ c[p[k]].units = Slice(E[k - 1], E[k])
  BY <1>1 DEF Carried
<1>. DEFINE q == Append(p, i)
<1>3. q \in Seq(Nat) /\ Len(q) = l + 1 /\ q[l + 1] = i /\ \A k \in 1..l : q[k] = p[k]
  BY <1>1
<1>4. \A k \in 1..l : p[k] \in Range(p)
  BY <1>1 DEF Range
<1>. DEFINE G == [k \in 0..(l + 1) |-> IF k = l + 1 THEN m ELSE E[k]]
<1>. HIDE DEF q
<1>5. G \in [0..(l + 1) -> Nat] /\ G[0] = 0 /\ G[l + 1] = m
  BY <1>1, <1>2
<1>6. ASSUME NEW k \in 1..(l + 1) PROVE G[k - 1] <= G[k] /\ d[q[k]].units = Slice(G[k - 1], G[k])
  <2>1. CASE k = l + 1
    <3>1. G[k - 1] = n /\ G[k] = m
      BY <1>1, <1>2, <2>1
    <3>. QED
      BY <1>3, <2>1, <3>1
  <2>2. CASE k # l + 1
    <3>1. k \in 1..l
      BY <1>1, <2>2
    <3>2. G[k - 1] = E[k - 1] /\ G[k] = E[k]
      BY <1>1, <3>1
    <3>3. d[q[k]] = c[p[k]]
      BY <1>3, <1>4, <3>1
    <3>. QED
      BY <1>2, <3>1, <3>2, <3>3
  <2>. QED
    BY <2>1, <2>2
<1>. HIDE DEF G
<1>7. Carried(d, q, m)
  BY <1>3, <1>5, <1>6 DEF Carried
<1>. QED
  BY <1>7 DEF q

\* Messages that are not among the parts do not matter.
LEMMA CarriedStays ==
  ASSUME NEW c, NEW d, NEW p \in Seq(Nat), NEW n, Carried(c, p, n), \A j \in Range(p) : d[j] = c[j]
  PROVE  Carried(d, p, n)
<1>1. \A k \in 1..Len(p) : d[p[k]] = c[p[k]]
  BY DEF Range
<1>2. PICK E \in [0..Len(p) -> Nat] :
        /\ E[0] = 0 /\ E[Len(p)] = n
        /\ \A k \in 1..Len(p) : /\ E[k - 1] <= E[k]
                                /\ c[p[k]].units = Slice(E[k - 1], E[k])
  BY DEF Carried
<1>3. \A k \in 1..Len(p) : /\ E[k - 1] <= E[k]
                            /\ d[p[k]].units = Slice(E[k - 1], E[k])
  BY Zenon, <1>1, <1>2
<1>. QED
  BY Zenon, <1>2, <1>3 DEF Carried

\* Messages that carry the first n units hold just these, joined.
LEMMA CarriedJoined ==
  ASSUME NEW c, NEW p \in Seq(Nat), NEW n, Carried(c, p, n)
  PROVE  Joined(c, p) = Whole(n)
<1>1. PICK l : l = Len(p) /\ l \in Nat
  OBVIOUS
<1>2. PICK E \in [0..l -> Nat] : /\ E[0] = 0 /\ E[l] = n
                                 /\ \A k \in 1..l : /\ E[k - 1] <= E[k]
                                                    /\ c[p[k]].units = Slice(E[k - 1], E[k])
  BY <1>1 DEF Carried
<1>. DEFINE H == [k \in 0..l |-> Whole(E[k])]
<1>3. H[0] = <<>>
  BY <1>1, <1>2 DEF Whole
<1>4. ASSUME NEW k \in 1..l PROVE H[k] = H[k - 1] \o c[p[k]].units
  <2>1. k - 1 \in 0..l /\ k \in 0..l
    BY <1>1
  <2>2. E[k - 1] \in Nat /\ E[k] \in Nat /\ E[k - 1] <= E[k]
    BY <1>2, <2>1
  <2>. QED
    BY <1>2, <2>1, <2>2, SlicesJoin
<1>5. H[l] = Whole(n)
  BY <1>1, <1>2
<1>. HIDE DEF H
<1>6. Partial(H, c, p)
  BY <1>1, <1>3, <1>4 DEF Partial
<1>. QED
  BY <1>1, <1>5, <1>6, JoinedIs

\* A channel that grows keeps what its messages hold.
LEMMA HoldingStays ==
  ASSUME NEW c \in Seq(Message), NEW d, Grown(c, d), NEW m \in DOMAIN c, NEW n,
         Range(c[m].parts) \subseteq DOMAIN c, Holding(c, m, n)
  PROVE  Holding(d, m, n)
<1>1. d[m] = c[m] /\ \A j \in Range(c[m].parts) : d[j] = c[j]
  BY DEF Grown
<1>2. c[m].parts \in Seq(Nat)
  <2>1. c[m] \in Message
    OBVIOUS
  <2>. QED
    BY <2>1 DEF Message
<1>. QED
  BY <1>1, <1>2, CarriedStays DEF Holding


-----------------------------------------------------------------------------
(* What growing channels and marks leave alone.                            *)

\* A channel with one message more, whose parts are there.
LEMMA ChannelAppend ==
  ASSUME NEW c, Backward(c), NEW m \in Message, Range(m.parts) \subseteq DOMAIN c
  PROVE  LET d == Append(c, m) IN
         /\ Backward(d) /\ Grown(c, d)
         /\ Len(c) \in Nat /\ DOMAIN c = 1..Len(c) /\ DOMAIN d = 1..(Len(c) + 1)
         /\ DOMAIN d \ DOMAIN c = {Len(c) + 1}
         /\ Len(d) = Len(c) + 1 /\ d[Len(c) + 1] = m
<1>. DEFINE d == Append(c, m)
<1>1. c \in Seq(Message)
  BY DEF Backward
<1>2. PICK n : n = Len(c) /\ n \in Nat /\ DOMAIN c = 1..n
  BY <1>1
<1>3. /\ d \in Seq(Message) /\ Len(d) = n + 1 /\ DOMAIN d = 1..(n + 1) /\ d[n + 1] = m
      /\ \A i \in 1..n : d[i] = c[i]
  BY <1>1, <1>2
<1>4. ASSUME NEW i \in 1..(n + 1) PROVE Range(d[i].parts) \subseteq 1..(i - 1)
  <2>1. CASE i = n + 1
    BY <1>2, <1>3, <2>1
  <2>2. CASE i \in 1..n
    BY <1>2, <1>3, <2>2 DEF Backward
  <2>. QED
    BY <1>2, <2>1, <2>2
<1>. HIDE DEF d
<1>5. Backward(d) /\ Grown(c, d)
  BY <1>2, <1>3, <1>4 DEF Backward, Grown
<1>6. DOMAIN d \ DOMAIN c = {n + 1}
  BY <1>2, <1>3
<1>. QED
  BY <1>2, <1>3, <1>5, <1>6 DEF d

\* What is sound stays so while messages are added.
LEMMA SoundStays ==
  ASSUME NEW c, NEW d, Backward(c), Backward(d), Grown(c, d), NEW q, Sound(c, q)
  PROVE  Sound(d, q)
<1>1. PICK n, k : /\ n = Len(c) /\ n \in Nat /\ DOMAIN c = 1..n
                  /\ k = Len(d) /\ k \in Nat /\ DOMAIN d = 1..k /\ n <= k
  BY DEF Backward, Grown
<1>2. q \in TransferType /\ Shape(q) /\ Authorized(q) /\ Refers(c, q) /\ Carries(c, q)
  BY DEF Sound
<1>3. q.parts \in Seq(Nat) /\ q.main \in Nat /\ q.pos \in Nat
  BY <1>2 DEF TransferType
<1>4. Range(q.parts) \subseteq DOMAIN c /\ \A j \in Range(q.parts) : d[j] = c[j]
  BY <1>2 DEF Refers, Grown
<1>5. Refers(d, q)
  <2>1. Range(q.parts) \subseteq DOMAIN d /\ q.main \in 0..k
    BY <1>1, <1>2, <1>4 DEF Refers
  <2>2. ASSUME q.pc = "record" PROVE q.main # 0 /\ d[q.main].parts = q.parts
    <3>1. q.main # 0 /\ c[q.main].parts = q.parts /\ q.main \in DOMAIN c
      BY <1>1, <1>2, <2>2 DEF Refers
    <3>. QED
      BY <3>1 DEF Grown
  <2>. QED
    BY <1>1, <2>1, <2>2 DEF Refers
<1>6. Carries(d, q)
  <2>. SUFFICES ASSUME q.pc \in Working, ~ q.mixed
                PROVE  IF q.pc = "record" THEN Holding(d, q.main, q.pos)
                       ELSE \E j \in 0..q.pos : Carried(d, q.parts, j) /\ q.buf = Slice(j, q.pos)
    BY DEF Carries
  <2>1. CASE q.pc = "record"
    <3>1. q.main \in DOMAIN c /\ Holding(c, q.main, q.pos)
      BY <1>1, <1>2, <2>1 DEF Refers, Carries
    <3>2. Range(c[q.main].parts) \subseteq DOMAIN c /\ c \in Seq(Message)
      BY <1>1, <3>1 DEF Backward
    <3>. QED
      BY <2>1, <3>1, <3>2, HoldingStays
  <2>2. CASE q.pc # "record"
    <3>1. PICK j \in 0..q.pos : Carried(c, q.parts, j) /\ q.buf = Slice(j, q.pos)
      BY <1>2, <2>2 DEF Carries
    <3>2. Carried(d, q.parts, j)
      BY <1>3, <1>4, <3>1, CarriedStays
    <3>. QED
      BY <2>2, <3>1, <3>2
  <2>. QED
    BY <2>1, <2>2
<1>. QED
  BY <1>2, <1>5, <1>6 DEF Sound

Marked(q) == [q EXCEPT !.mixed = TRUE]

\* A mark only takes promises back.
LEMMA SoundMarked ==
  ASSUME NEW c, NEW q, Sound(c, q)
  PROVE  Sound(c, Marked(q)) /\ HoldsOf(Marked(q)) = HoldsOf(q)
<1>1. q \in TransferType
  BY DEF Sound
<1>2. /\ Marked(q) \in TransferType /\ Marked(q).mixed
      /\ Marked(q).kind = q.kind /\ Marked(q).pc = q.pc /\ Marked(q).size = q.size
      /\ Marked(q).pos = q.pos /\ Marked(q).buf = q.buf /\ Marked(q).parts = q.parts
      /\ Marked(q).verified = q.verified /\ Marked(q).checked = q.checked /\ Marked(q).key = q.key
      /\ Marked(q).result = q.result /\ Marked(q).main = q.main /\ Marked(q).off = q.off
      /\ Marked(q).next = q.next /\ Marked(q).cut = q.cut /\ Marked(q).shown = q.shown
      /\ Marked(q).stored = q.stored
  BY <1>1 DEF Marked, TransferType
<1>3. Shape(Marked(q))
  BY <1>2 DEF Sound, Shape, Blank
<1>4. Refers(c, Marked(q)) /\ Carries(c, Marked(q)) /\ Authorized(Marked(q))
  BY <1>2 DEF Sound, Refers, Carries, Authorized
<1>5. HoldsOf(Marked(q)) = HoldsOf(q)
  BY <1>2 DEF HoldsOf
<1>. QED
  BY <1>2, <1>3, <1>4, <1>5 DEF Sound

\* A transfer holds messages that are there.
LEMMA HoldsThere ==
  ASSUME NEW c, Backward(c), NEW q, Sound(c, q)
  PROVE  HoldsOf(q) \subseteq DOMAIN c
<1>1. DOMAIN c = 1..Len(c) /\ Len(c) \in Nat
  BY DEF Backward
<1>. QED
  BY <1>1 DEF Sound, Refers, HoldsOf

\* What is behind a message is there, and stays.
LEMMA MessagesThere ==
  ASSUME NEW c, NEW d, Backward(c), Grown(c, d), NEW m \in DOMAIN c
  PROVE  MessagesIn(c, m) \subseteq DOMAIN c /\ MessagesIn(d, m) = MessagesIn(c, m)
<1>1. DOMAIN c = 1..Len(c) /\ Len(c) \in Nat /\ m \in 1..Len(c)
  BY DEF Backward
<1>2. Range(c[m].parts) \subseteq 1..(m - 1)
  BY DEF Backward
<1>. QED
  BY <1>1, <1>2 DEF MessagesIn, Grown


-----------------------------------------------------------------------------
(* A step of transfer t, whatever it does: the others are at most marked,   *)
(* the channel grows by a message that t then holds or leaves behind, and a *)
(* new row takes over what t held.                                         *)

NewMessages == DOMAIN channel' \ DOMAIN channel

\* What is recorded of a transfer is not taken back.
Keeps(p, q) ==
  p.stored => /\ q.stored /\ q.size = p.size
              /\ p.mixed => q.mixed
              /\ p.cut => q.cut

Sending ==
  \/ channel' = channel
  \/ \E m \in Message : Range(m.parts) \subseteq DOMAIN channel /\ channel' = Append(channel, m)

Moves(t) ==
  /\ x' = [u \in Transfers |-> x'[u]]
  /\ \A u \in Transfers \ {t} : x'[u] = x[u] \/ x'[u] = Marked(x[u])
  /\ Sound(channel', x'[t]) /\ Keeps(x[t], x'[t])
  /\ Sending
  /\ orphans \subseteq orphans' /\ orphans' \subseteq DOMAIN channel'
  /\ HoldsOf(x'[t]) \subseteq HoldsOf(x[t]) \cup NewMessages
  /\ UNCHANGED <<gone, down, del>>

Unrecorded(t) ==
  /\ rows' = rows
  /\ HoldsOf(x[t]) \cup NewMessages \subseteq HoldsOf(x'[t]) \cup orphans'

Recorded(t) ==
  /\ channel' = channel /\ HoldsOf(x'[t]) = {}
  /\ \E r \in Row : /\ rows' = rows \cup {r}
                    /\ RowOK(channel, x', r) /\ MessagesIn(channel, r.main) = HoldsOf(x[t])

\* Grown channels are proper, and what is behind their messages stays.
LEMMA SendingGrows ==
  ASSUME ChannelInv, Sending
  PROVE  /\ Backward(channel) /\ Backward(channel') /\ Grown(channel, channel')
         /\ DOMAIN channel \subseteq DOMAIN channel'
         /\ \A m \in DOMAIN channel : /\ MessagesIn(channel, m) \subseteq DOMAIN channel
                                      /\ MessagesIn(channel', m) = MessagesIn(channel, m)
<1>1. Backward(channel) /\ DOMAIN channel = 1..Len(channel) /\ Len(channel) \in Nat
  BY DEF ChannelInv, Backward
<1>2. Backward(channel') /\ Grown(channel, channel') /\ DOMAIN channel \subseteq DOMAIN channel'
  <2>1. CASE channel' = channel
    BY <1>1, <2>1 DEF Grown
  <2>2. CASE channel' # channel
    <3>1. PICK m \in Message : Range(m.parts) \subseteq DOMAIN channel /\ channel' = Append(channel, m)
      BY <2>2 DEF Sending
    <3>2. PICK d : d = Append(channel, m) /\ channel' = d
      BY <3>1
    <3>3. /\ Backward(d) /\ Grown(channel, d)
          /\ DOMAIN channel = 1..Len(channel) /\ DOMAIN d = 1..(Len(channel) + 1)
      BY <1>1, <3>1, <3>2, ChannelAppend
    <3>. QED
      BY <1>1, <3>2, <3>3
  <2>. QED
    BY <2>1, <2>2
<1>. QED
  BY <1>1, <1>2, MessagesThere

\* The others stay sound and keep what they hold.
LEMMA OthersMove ==
  ASSUME UploadInv, NEW t \in Transfers, Moves(t)
  PROVE  /\ Transferring'
         /\ \A u \in Transfers \ {t} : HoldsOf(x'[u]) = HoldsOf(x[u])
         /\ \A u \in Transfers : HoldsOf(x[u]) \subseteq DOMAIN channel /\ Keeps(x[u], x'[u])
<1>1. Backward(channel) /\ Backward(channel') /\ Grown(channel, channel')
  BY SendingGrows DEF UploadInv, Moves
<1>2. \A u \in Transfers : Sound(channel, x[u]) /\ x[u] \in TransferType
  BY DEF UploadInv, Transferring, Sound
<1>3. \A u \in Transfers : HoldsOf(x[u]) \subseteq DOMAIN channel
  BY <1>1, <1>2, HoldsThere
<1>4. ASSUME NEW u \in Transfers \ {t}
      PROVE  Sound(channel', x'[u]) /\ HoldsOf(x'[u]) = HoldsOf(x[u]) /\ Keeps(x[u], x'[u])
  <2>1. Sound(channel', x[u])
    BY <1>1, <1>2, SoundStays
  <2>2. CASE x'[u] = x[u]
    BY <2>1, <2>2 DEF Keeps
  <2>3. CASE x'[u] = Marked(x[u])
    <3>1. Keeps(x[u], Marked(x[u]))
      BY <1>2 DEF Keeps, Marked, TransferType
    <3>. QED
      BY <2>1, <2>3, <3>1, SoundMarked
  <2>. QED
    BY <2>2, <2>3 DEF Moves
<1>5. Sound(channel', x'[t]) /\ Keeps(x[t], x'[t]) /\ x' = [u \in Transfers |-> x'[u]]
  BY DEF Moves
<1>6. Transferring'
  BY <1>4, <1>5 DEF Transferring
<1>. QED
  BY <1>3, <1>4, <1>5, <1>6

\* A row stays right while its transfer goes on.
LEMMA RowStays ==
  ASSUME NEW c, NEW d, Backward(c), Backward(d), Grown(c, d), NEW y, NEW z, NEW r,
         RowOK(c, y, r), Keeps(y[r.by], z[r.by])
  PROVE  RowOK(d, z, r)
<1>1. PICK n : n = Len(c) /\ n \in Nat /\ DOMAIN c = 1..n /\ DOMAIN c \subseteq DOMAIN d /\ c \in Seq(Message)
  BY DEF Backward, Grown
<1>2. r \in Row /\ r.main \in DOMAIN c
  BY DEF RowOK
<1>3. Range(c[r.main].parts) \subseteq DOMAIN c
  <2>1. Range(c[r.main].parts) \subseteq 1..(r.main - 1)
    BY <1>2 DEF Backward
  <2>2. PICK m : m = r.main /\ m \in 1..n
    BY <1>1, <1>2
  <2>. QED
    BY <1>1, <2>1, <2>2
<1>4. Holding(c, r.main, r.size) => Holding(d, r.main, r.size)
  BY <1>1, <1>2, <1>3, HoldingStays
<1>. QED
  BY <1>1, <1>2, <1>4 DEF RowOK, Keeps

\* The rows stay right, and so does a new one.
LEMMA RowsMove ==
  ASSUME UploadInv, NEW t \in Transfers, Moves(t), Unrecorded(t) \/ Recorded(t)
  PROVE  RowsInv'
<1>1. Backward(channel) /\ Backward(channel') /\ Grown(channel, channel')
  BY SendingGrows DEF UploadInv, Moves
<1>2. \A u \in Transfers : Keeps(x[u], x'[u])
  BY OthersMove
<1>3. ASSUME NEW r \in rows PROVE RowOK(channel', x', r)
  <2>1. RowOK(channel, x, r) /\ r.by \in Transfers
    BY DEF UploadInv, RowsInv, RowOK, Row
  <2>2. Keeps(x[r.by], x'[r.by])
    BY <1>2, <2>1
  <2>3. PICK y, d : y = x' /\ d = channel'
    OBVIOUS
  <2>. QED
    BY <1>1, <2>1, <2>2, <2>3, RowStays
<1>4. ASSUME NEW r \in rows' PROVE RowOK(channel', x', r)
  BY <1>3 DEF Unrecorded, Recorded
<1>. QED
  BY <1>4 DEF RowsInv

\* No message gets a second owner.
LEMMA ApartMove ==
  ASSUME UploadInv, NEW t \in Transfers, Moves(t), Unrecorded(t) \/ Recorded(t)
  PROVE  ApartInv'
<1>1. /\ DOMAIN channel \subseteq DOMAIN channel'
      /\ \A m \in DOMAIN channel : /\ MessagesIn(channel, m) \subseteq DOMAIN channel
                                   /\ MessagesIn(channel', m) = MessagesIn(channel, m)
  BY SendingGrows DEF UploadInv, Moves
<1>2. /\ \A u \in Transfers \ {t} : HoldsOf(x'[u]) = HoldsOf(x[u])
      /\ \A u \in Transfers : HoldsOf(x[u]) \subseteq DOMAIN channel
      /\ HoldsOf(x'[t]) \subseteq HoldsOf(x[t]) \cup NewMessages
  BY OthersMove DEF Moves
<1>3. NewMessages \cap DOMAIN channel = {}
  BY DEF NewMessages
<1>4. \A r \in Filed : r.main \in DOMAIN channel
  BY DEF UploadInv, Filed, RowsInv, RowOK, DelInv
<1>5. /\ \A u, v \in Transfers : u # v => HoldsOf(x[u]) \cap HoldsOf(x[v]) = {}
      /\ \A r \in Filed, u \in Transfers : MessagesIn(channel, r.main) \cap HoldsOf(x[u]) = {}
      /\ \A r, s \in Filed :
           r # s => MessagesIn(channel, r.main) \cap MessagesIn(channel, s.main) = {}
      /\ gone \subseteq IF del.pc = "idle" THEN {} ELSE MessagesIn(channel, del.row.main)
  BY DEF UploadInv, ApartInv
<1>6. ASSUME NEW u \in Transfers, NEW v \in Transfers, u # v
      PROVE  HoldsOf(x'[u]) \cap HoldsOf(x'[v]) = {}
  BY <1>2, <1>3, <1>5, <1>6
<1>7. \A r \in Filed, u \in Transfers : MessagesIn(channel', r.main) \cap HoldsOf(x'[u]) = {}
  BY <1>1, <1>2, <1>3, <1>4, <1>5
<1>8. \A r, s \in Filed :
        r # s => MessagesIn(channel', r.main) \cap MessagesIn(channel', s.main) = {}
  BY <1>1, <1>4, <1>5
<1>9. gone' \subseteq IF del'.pc = "idle" THEN {} ELSE MessagesIn(channel', del'.row.main)
  <2>1. del.pc # "idle" => del.row \in Filed
    BY DEF Filed
  <2>. QED
    BY <1>1, <1>4, <1>5, <2>1 DEF Moves
<1>10. CASE Unrecorded(t)
  <2>1. Filed' = Filed
    BY <1>10 DEF Filed, Unrecorded, Moves
  <2>. QED
    BY <1>6, <1>7, <1>8, <1>9, <2>1 DEF ApartInv
<1>11. CASE Recorded(t)
  <2>1. PICK r \in Row : /\ rows' = rows \cup {r} /\ r.main \in DOMAIN channel
                         /\ MessagesIn(channel, r.main) = HoldsOf(x[t])
    BY <1>11 DEF Recorded, RowOK
  <2>2. Filed' = Filed \cup {r}
    BY <2>1 DEF Filed, Moves
  <2>3. HoldsOf(x'[t]) = {} /\ channel' = channel
    BY <1>11 DEF Recorded
  <2>4. \A u \in Transfers : MessagesIn(channel', r.main) \cap HoldsOf(x'[u]) = {}
    BY <1>2, <1>5, <2>1, <2>3
  <2>5. \A s \in Filed : MessagesIn(channel', r.main) \cap MessagesIn(channel', s.main) = {}
    BY <1>5, <2>1, <2>3
  <2>6. \A a \in Filed', u \in Transfers : MessagesIn(channel', a.main) \cap HoldsOf(x'[u]) = {}
    BY <1>7, <2>2, <2>4
  <2>7. \A a, b \in Filed' :
          a # b => MessagesIn(channel', a.main) \cap MessagesIn(channel', b.main) = {}
    BY <1>8, <2>2, <2>5
  <2>. QED
    BY <1>6, <1>9, <2>6, <2>7 DEF ApartInv
<1>. QED
  BY <1>10, <1>11

\* No message is forgotten: what a transfer gives up is in its row or left behind.
LEMMA TracedMove ==
  ASSUME UploadInv, NEW t \in Transfers, Moves(t), Unrecorded(t) \/ Recorded(t)
  PROVE  TracedInv'
<1>1. \A m \in DOMAIN channel : MessagesIn(channel', m) = MessagesIn(channel, m)
  BY SendingGrows DEF UploadInv, Moves
<1>2. \A u \in Transfers \ {t} : HoldsOf(x'[u]) = HoldsOf(x[u])
  BY OthersMove
<1>3. \A r \in rows : r.main \in DOMAIN channel
  BY DEF UploadInv, RowsInv, RowOK
<1>4. rows \subseteq rows'
  BY DEF Unrecorded, Recorded
<1>5. ASSUME NEW m \in HoldsOf(x[t]) \cup NewMessages, m \notin orphans'
      PROVE  m \in HoldsOf(x'[t]) \/ \E r \in rows' : m \in MessagesIn(channel', r.main)
  <2>1. CASE Unrecorded(t)
    BY <1>5, <2>1 DEF Unrecorded
  <2>2. CASE Recorded(t)
    BY <1>5, <2>2 DEF Recorded, NewMessages
  <2>. QED
    BY <2>1, <2>2
<1>6. ASSUME NEW m \in DOMAIN channel' \ (gone' \cup orphans')
      PROVE  \/ \E r \in rows' : m \in MessagesIn(channel', r.main)
             \/ \E u \in Transfers : m \in HoldsOf(x'[u])
  <2>1. m \notin gone /\ m \notin orphans
    BY <1>6 DEF Moves
  <2>2. CASE m \in NewMessages
    BY <1>5, <1>6, <2>2
  <2>3. CASE m \in DOMAIN channel
    <3>1. CASE \E r \in rows : m \in MessagesIn(channel, r.main)
      BY <1>1, <1>3, <1>4, <3>1
    <3>2. CASE \E u \in Transfers : m \in HoldsOf(x[u])
      BY <1>2, <1>5, <1>6, <3>2
    <3>. QED
      BY <2>1, <2>3, <3>1, <3>2 DEF UploadInv, TracedInv
  <2>. QED
    BY <1>6, <2>2, <2>3 DEF NewMessages
<1>. QED
  BY <1>6 DEF TracedInv

\* A download goes on as before: the messages it reads stay as they are.
LEMMA DownMove ==
  ASSUME ChannelInv, Sending, DownInv, UNCHANGED down
  PROVE  DownInv'
<1>1. /\ Backward(channel) /\ Grown(channel, channel') /\ DOMAIN channel \subseteq DOMAIN channel'
  BY SendingGrows
<1>2. CASE down.pc = "idle"
  BY <1>2 DEF DownInv
<1>3. CASE down.pc # "idle"
  <2>. DEFINE P == channel[down.row.main].parts
  <2>1. down.row.main \in DOMAIN channel /\ P # <<>>
    BY <1>3 DEF DownInv
  <2>2. channel'[down.row.main] = channel[down.row.main] /\ down.row.main \in DOMAIN channel'
    BY <1>1, <2>1 DEF Grown
  <2>3. P \in Seq(Nat) /\ \A i \in Range(P) : channel'[i] = channel[i]
    <3>1. channel[down.row.main] \in Message /\ down.row.main \in 1..Len(channel)
          /\ Len(channel) \in Nat /\ DOMAIN channel = 1..Len(channel)
      BY <1>1, <2>1 DEF Backward
    <3>2. Range(P) \subseteq 1..(down.row.main - 1)
      BY <1>1, <2>1 DEF Backward
    <3>3. \A i \in Range(P) : i \in DOMAIN channel
      BY <3>1, <3>2
    <3>. QED
      BY <1>1, <3>1, <3>3 DEF Message, Grown
  <2>4. \A k \in 0..Len(P) : Joined(channel', SubSeq(P, 1, k)) = Joined(channel, SubSeq(P, 1, k))
    <3>. TAKE k \in 0..Len(P)
    <3>1. SubSeq(P, 1, k) \in Seq(Nat) /\ Range(SubSeq(P, 1, k)) \subseteq Range(P)
      <4>. PICK p : p = P /\ p \in Seq(Nat)
        BY <2>3
      <4>. PICK n : n = Len(p) /\ n \in Nat /\ DOMAIN p = 1..n
        OBVIOUS
      <4>1. SubSeq(p, 1, k) \in Seq(Nat) /\ Len(SubSeq(p, 1, k)) = k
        OBVIOUS
      <4>2. \A i \in 1..k : i \in 1..n /\ SubSeq(p, 1, k)[i] = p[i]
        OBVIOUS
      <4>. QED
        BY <4>1, <4>2 DEF Range
    <3>2. PICK d : d = channel'
      OBVIOUS
    <3>. QED
      BY <2>3, <3>1, <3>2, JoinedStays
  <2>5. Joined(channel', P) = Joined(channel, P)
    <3>1. PICK d : d = channel'
      OBVIOUS
    <3>. QED
      BY <2>3, <3>1, JoinedStays
  <2>. QED
    BY <2>1, <2>2, <2>4, <2>5 DEF DownInv
<1>. QED
  BY <1>2, <1>3

\* The rest of the invariant after a step of a transfer that leaves the disk in order.
LEMMA TransferStep ==
  ASSUME UploadInv, NEW t \in Transfers, Moves(t), Unrecorded(t) \/ Recorded(t), DiskInv', MixInv'
  PROVE  UploadInv'
<1>1. ChannelInv /\ Sending /\ DownInv /\ DelInv /\ UNCHANGED <<gone, down, del>>
  BY DEF UploadInv, Moves
<1>2. /\ Backward(channel) /\ Backward(channel') /\ Grown(channel, channel')
      /\ DOMAIN channel \subseteq DOMAIN channel'
      /\ \A m \in DOMAIN channel : MessagesIn(channel', m) = MessagesIn(channel, m)
  BY <1>1, SendingGrows
<1>3. ChannelInv'
  BY <1>1, <1>2 DEF ChannelInv, Moves
<1>4. DownInv'
  BY <1>1, DownMove
<1>5. DelInv'
  <2>1. orphans \subseteq orphans'
    BY DEF Moves
  <2>2. del.row.main \in DOMAIN channel => channel'[del.row.main] = channel[del.row.main]
    BY <1>2 DEF Grown
  <2>. QED
    BY <1>1, <1>2, <2>1, <2>2 DEF DelInv
<1>6. Transferring' /\ RowsInv' /\ ApartInv' /\ TracedInv'
  BY OthersMove, RowsMove, ApartMove, TracedMove
<1>. QED
  BY <1>3, <1>4, <1>5, <1>6 DEF UploadInv


-----------------------------------------------------------------------------
(* What becomes of one transfer q.                                         *)

\* A request that ends holds nothing; what it has recorded it has recorded.
LEMMA ClosedSound ==
  ASSUME NEW c, Backward(c), NEW q, Sound(c, q), q.pc # "idle",
         NEW pc \in {"done", "failed", "refused"}, pc = "refused" => q.kind # "chunks"
  PROVE  LET r == Closed(q, pc) IN
         Sound(c, r) /\ HoldsOf(r) = {} /\ Keeps(q, r) /\ ~ Opened(r)
<1>. DEFINE r == Closed(q, pc)
<1>1. q \in TransferType /\ Shape(q) /\ Authorized(q)
  BY DEF Sound
<1>2. /\ r \in TransferType
      /\ r.kind = q.kind /\ r.pc = pc /\ r.size = q.size /\ r.pos = 0 /\ r.buf = <<>>
      /\ r.parts = <<>> /\ r.verified = q.verified /\ r.checked = q.checked /\ r.key = q.key
      /\ r.result = q.result /\ r.main = 0 /\ r.cut = q.cut /\ r.mixed = q.mixed
      /\ r.shown = q.shown /\ r.stored = q.stored
  <2>1. <<>> \in Seq(Nat) /\ <<>> \in Seq({"file", "good", "bad"}) /\ pc \in Pcs
    BY DEF Pcs
  <2>2. r \in TransferType
    BY <1>1, <2>1 DEF TransferType, Closed
  <2>. QED
    BY <1>1, <2>2 DEF TransferType, Closed
<1>. HIDE DEF r
<1>3. Shape(r)
  BY <1>1, <1>2, UploadConstants DEF Shape, Working, AfterStream
<1>4. Refers(c, r)
  <2>1. Len(c) \in Nat
    BY DEF Backward
  <2>. QED
    BY <1>2, <2>1 DEF Refers, Range
<1>5. Carries(c, r) /\ Authorized(r) /\ HoldsOf(r) = {} /\ Keeps(q, r) /\ ~ Opened(r)
  BY <1>1, <1>2 DEF Carries, Authorized, HoldsOf, Keeps, Opened, Working
<1>. QED
  BY <1>2, <1>3, <1>4, <1>5 DEF Sound, r

\* An upload that fails holds nothing, either.
LEMMA BrokenSound ==
  ASSUME NEW c, Backward(c), NEW q, Sound(c, q), q.pc # "idle"
  PROVE  Sound(c, Broken(q)) /\ HoldsOf(Broken(q)) = {} /\ Keeps(q, Broken(q)) /\ ~ Opened(Broken(q))
<1>1. CASE q.kind # "form"
  BY <1>1, ClosedSound DEF Broken
<1>2. CASE q.kind = "form"
  <2>. DEFINE r == Broken(q)
  <2>1. q \in TransferType /\ Shape(q) /\ Authorized(q)
    BY DEF Sound
  <2>2. /\ r \in TransferType
        /\ r.kind = "form" /\ r.pc = "fields" /\ r.size = q.size /\ r.pos = 0 /\ r.buf = <<>>
        /\ r.parts = <<>> /\ r.verified = q.verified /\ r.checked = q.checked /\ r.key = q.key
        /\ r.result = "err" /\ r.main = 0 /\ r.cut = q.cut /\ r.mixed = q.mixed
        /\ r.shown = q.shown /\ r.stored = q.stored
    <3>. DEFINE p == Closed(q, "fields")
    <3>1. /\ <<>> \in Seq(Nat) /\ "fields" \in Pcs
          /\ <<>> \in Seq({"file", "good", "bad"})
      BY DEF Pcs
    <3>2. p \in TransferType
      BY <2>1, <3>1 DEF TransferType, Closed
    <3>3. /\ p.kind = "form" /\ p.pc = "fields" /\ p.size = q.size /\ p.pos = 0 /\ p.buf = <<>>
          /\ p.parts = <<>> /\ p.verified = q.verified /\ p.checked = q.checked /\ p.key = q.key
          /\ p.main = 0 /\ p.cut = q.cut /\ p.mixed = q.mixed
          /\ p.shown = q.shown /\ p.stored = q.stored
      BY <1>2, <2>1 DEF TransferType, Closed
    <3>4. r = [p EXCEPT !.fields = q.fields, !.result = "err"]
      BY <1>2 DEF Broken
    <3>. HIDE DEF p, r
    <3>. QED
      BY <2>1, <3>2, <3>3, <3>4 DEF TransferType
  <2>. HIDE DEF r
  <2>3. Shape(r)
    BY <2>1, <2>2, UploadConstants DEF Shape, Working, AfterStream
  <2>4. Refers(c, r)
    <3>1. Len(c) \in Nat
      BY DEF Backward
    <3>. QED
      BY <2>2, <3>1 DEF Refers, Range
  <2>5. Carries(c, r) /\ Authorized(r) /\ HoldsOf(r) = {} /\ Keeps(q, r) /\ ~ Opened(r)
    BY <1>2, <2>1, <2>2 DEF Carries, Authorized, HoldsOf, Keeps, Opened, Working
  <2>. QED
    BY <2>2, <2>3, <2>4, <2>5 DEF Sound, r
<1>. QED
  BY <1>1, <1>2

\* A unit that is taken is the next one, unless the file is mixed.
LEMMA TakenSound ==
  ASSUME NEW c, NEW q, Sound(c, q), q.pc = "recv", NEW u \in Nat, ~ q.mixed => u = q.pos + 1
  PROVE  LET r == Taken(q, u) IN
         /\ Sound(c, r) /\ HoldsOf(r) = HoldsOf(q) /\ Keeps(q, r)
         /\ r.kind = q.kind /\ r.mixed = q.mixed /\ r.pc \in {"recv", "part"} /\ r.pos = q.pos + 1
<1>. DEFINE r == Taken(q, u)
<1>1. q \in TransferType /\ Shape(q) /\ Authorized(q) /\ Refers(c, q) /\ Carries(c, q)
  BY DEF Sound
<1>2. q.pos \in Nat /\ q.buf \in Seq(Nat) /\ Len(q.buf) \in Nat /\ Len(q.buf) < Part /\ Part \in Nat
  BY <1>1, UploadConstants DEF TransferType, Shape
<1>3. /\ r \in TransferType
      /\ r.kind = q.kind /\ r.size = q.size /\ r.pos = q.pos + 1 /\ r.buf = Append(q.buf, u)
      /\ r.pc = (IF Len(q.buf) + 1 = Part THEN "part" ELSE "recv")
      /\ r.parts = q.parts /\ r.verified = q.verified /\ r.checked = q.checked /\ r.key = q.key
      /\ r.result = q.result /\ r.main = q.main /\ r.cut = q.cut /\ r.mixed = q.mixed
      /\ r.shown = q.shown /\ r.stored = q.stored
  <2>. DEFINE n == [q EXCEPT !.pos = @ + 1, !.buf = Append(@, u)]
  <2>1. /\ Append(q.buf, u) \in Seq(Nat) /\ Len(Append(q.buf, u)) = Len(q.buf) + 1
        /\ q.pos + 1 \in Nat
    BY <1>2
  <2>2. /\ n \in TransferType
        /\ n.kind = q.kind /\ n.size = q.size /\ n.pos = q.pos + 1 /\ n.buf = Append(q.buf, u)
        /\ n.parts = q.parts /\ n.verified = q.verified /\ n.checked = q.checked /\ n.key = q.key
        /\ n.result = q.result /\ n.main = q.main /\ n.cut = q.cut /\ n.mixed = q.mixed
        /\ n.shown = q.shown /\ n.stored = q.stored
    BY <1>1, <2>1 DEF TransferType
  <2>3. r = [n EXCEPT !.pc = IF Len(n.buf) = Part THEN "part" ELSE "recv"]
    BY DEF Taken
  <2>. HIDE DEF n, r
  <2>4. PICK p : p = (IF Len(n.buf) = Part THEN "part" ELSE "recv") /\ p \in Pcs
    BY DEF Pcs, Working
  <2>5. r = [n EXCEPT !.pc = p]
    BY <2>3, <2>4
  <2>6. r \in TransferType /\ r.pc = p
    BY <2>2, <2>4, <2>5 DEF TransferType
  <2>7. p = IF Len(q.buf) + 1 = Part THEN "part" ELSE "recv"
    BY <2>1, <2>2, <2>4
  <2>8. /\ r.kind = n.kind /\ r.size = n.size /\ r.pos = n.pos /\ r.buf = n.buf
        /\ r.parts = n.parts /\ r.verified = n.verified /\ r.checked = n.checked /\ r.key = n.key
        /\ r.result = n.result /\ r.main = n.main /\ r.cut = n.cut /\ r.mixed = n.mixed
        /\ r.shown = n.shown /\ r.stored = n.stored
    BY <2>2, <2>5 DEF TransferType
  <2>. QED
    BY Zenon, <2>2, <2>6, <2>7, <2>8
<1>. HIDE DEF r
<1>4. Len(r.buf) = Len(q.buf) + 1
  BY <1>2, <1>3
<1>5. Shape(r)
  BY <1>1, <1>2, <1>3, <1>4 DEF Shape, Working, AfterStream
<1>6. Refers(c, r) /\ Authorized(r) /\ HoldsOf(r) = HoldsOf(q) /\ Keeps(q, r)
  BY <1>1, <1>3 DEF Refers, Authorized, HoldsOf, Keeps, Working
<1>7. Carries(c, r)
  <2>. SUFFICES ASSUME ~ q.mixed
                PROVE  \E n \in 0..r.pos : Carried(c, r.parts, n) /\ r.buf = Slice(n, r.pos)
    BY <1>3 DEF Carries
  <2>1. PICK n \in 0..q.pos : Carried(c, q.parts, n) /\ q.buf = Slice(n, q.pos)
    BY <1>1 DEF Carries, Working
  <2>2. Append(q.buf, u) = Slice(n, q.pos + 1)
    <3>1. q.pos \in Nat /\ n \in Nat /\ n <= q.pos /\ u = q.pos + 1
      BY <1>2, <2>1
    <3>2. Append(Slice(n, q.pos), q.pos + 1) = Slice(n, q.pos + 1)
      BY <3>1, Slices
    <3>. QED
      BY <2>1, <3>1, <3>2
  <2>3. n \in 0..(q.pos + 1)
    BY <1>2, <2>1
  <2>. QED
    BY <1>3, <2>1, <2>2, <2>3
<1>. QED
  BY <1>3, <1>5, <1>6, <1>7 DEF Sound, r

\* At the end of the stream what it holds and what is in its buffer is all it was given.
LEMMA EndedSound ==
  ASSUME NEW c, Backward(c), NEW q, Sound(c, q), q.pc = "recv",
         ~ q.cut /\ ~ q.mixed => q.pos = q.size
  PROVE  LET r == Ended(q) IN
         Sound(c, r) /\ HoldsOf(r) = HoldsOf(q) /\ Keeps(q, r) /\ ~ Opened(r)
<1>. DEFINE r == Ended(q)
<1>1. q \in TransferType /\ Shape(q) /\ Authorized(q) /\ Refers(c, q) /\ Carries(c, q)
  BY DEF Sound
<1>2. CASE Ending(q) = "failed"
  <2>1. q.parts = <<>> /\ q.main = 0
    BY <1>1, <1>2 DEF Ending, Shape, Working
  <2>2. HoldsOf(q) = {}
    BY <2>1 DEF HoldsOf, Range
  <2>. QED
    BY <1>2, <2>2, BrokenSound DEF Ended
<1>3. CASE Ending(q) # "failed"
  <2>1. /\ r \in TransferType
        /\ r.kind = q.kind /\ r.size = q.size /\ r.pos = q.pos /\ r.buf = q.buf
        /\ r.pc \in {"single", "last", "manifest"}
        /\ r.pc = "single" => q.parts = <<>>
        /\ r.pc = "manifest" => q.parts # <<>> /\ q.buf = <<>>
        /\ r.parts = q.parts /\ r.verified = q.verified /\ r.checked = q.checked /\ r.key = q.key
        /\ r.result = q.result /\ r.main = q.main /\ r.cut = q.cut /\ r.mixed = q.mixed
        /\ r.shown = q.shown /\ r.stored = q.stored
    BY <1>1, <1>3 DEF TransferType, Ended, Ending, Pcs, Working
  <2>. HIDE DEF r
  <2>2. Shape(r)
    BY <1>1, <2>1 DEF Shape, Working, AfterStream
  <2>3. /\ Refers(c, r) /\ Carries(c, r) /\ Authorized(r) /\ HoldsOf(r) = HoldsOf(q)
        /\ Keeps(q, r) /\ ~ Opened(r)
    BY <1>1, <2>1 DEF Refers, Carries, Authorized, HoldsOf, Keeps, Opened, Working
  <2>. QED
    BY <2>1, <2>2, <2>3 DEF Sound, r
<1>. QED
  BY <1>2, <1>3

Cutting(q) == [q EXCEPT !.cut = TRUE]

\* A stream that breaks off promises less.
LEMMA CuttingSound ==
  ASSUME NEW c, NEW q, Sound(c, q)
  PROVE  LET r == Cutting(q) IN
         /\ Sound(c, r) /\ HoldsOf(r) = HoldsOf(q) /\ Keeps(q, r)
         /\ r.cut /\ r.pc = q.pc /\ r.kind = q.kind
<1>. DEFINE r == Cutting(q)
<1>1. q \in TransferType /\ Shape(q) /\ Authorized(q) /\ Refers(c, q) /\ Carries(c, q)
  BY DEF Sound
<1>2. /\ r \in TransferType
      /\ r.kind = q.kind /\ r.pc = q.pc /\ r.size = q.size /\ r.pos = q.pos /\ r.buf = q.buf
      /\ r.parts = q.parts /\ r.verified = q.verified /\ r.checked = q.checked /\ r.key = q.key
      /\ r.result = q.result /\ r.main = q.main /\ r.off = q.off /\ r.next = q.next
      /\ r.cut /\ r.mixed = q.mixed /\ r.shown = q.shown /\ r.stored = q.stored
  BY <1>1 DEF TransferType, Cutting
<1>. HIDE DEF r
<1>3. Shape(r)
  BY <1>1, <1>2 DEF Shape, Blank
<1>4. /\ Refers(c, r) /\ Carries(c, r) /\ Authorized(r) /\ HoldsOf(r) = HoldsOf(q)
      /\ Keeps(q, r)
  BY <1>1, <1>2 DEF Refers, Carries, Authorized, HoldsOf, Keeps
<1>. QED
  BY <1>2, <1>3, <1>4 DEF Sound, r


-----------------------------------------------------------------------------
(* Steps of transfer t that send nothing.                                  *)

\* Transfer t goes on as q: as a completion that has assembled.bin open it had it open
\* before, and reads what it expects unless it is marked; only then it may write to it.
MixOK(t, q) ==
  /\ disk'.asm = disk.asm \/ Opened(x[t])
  /\ Opened(q) =>
       /\ Opened(x[t]) /\ (x[t].mixed => q.mixed)
       /\ ~ q.mixed => IF q.pc = "copy"
                       THEN q.next = q.off + 1 /\ q.off <= Chunks /\ disk'.asm = Whole(q.off)
                       ELSE q.pos <= Chunks /\ disk'.asm = Whole(Chunks)

\* assembled.bin is as its one completion expects, after the step as before.
LEMMA MixKept ==
  ASSUME UploadInv, NEW t \in Transfers, NEW q, Become(t, q), MixOK(t, q)
  PROVE  MixInv'
<1>1. x' = [u \in Transfers |-> IF u = t THEN q ELSE x[u]]
  BY DEF Become, UploadInv, Transferring
<1>2. OpenAlone(x, disk.asm)
  BY DEF UploadInv, MixInv
<1>. DEFINE A == disk'.asm
<1>3. ASSUME NEW u \in Transfers, Opened(x'[u]), ~ x'[u].mixed
      PROVE  /\ \A v \in Transfers \ {u} : ~ Opened(x'[v])
             /\ IF x'[u].pc = "copy"
                THEN x'[u].next = x'[u].off + 1 /\ x'[u].off <= Chunks /\ A = Whole(x'[u].off)
                ELSE x'[u].pos <= Chunks /\ A = Whole(Chunks)
  <2>1. Opened(x[u]) /\ ~ x[u].mixed
    BY <1>1, <1>3 DEF MixOK
  <2>2. \A v \in Transfers \ {u} : ~ Opened(x[v])
    BY <1>2, <2>1 DEF OpenAlone
  <2>3. \A v \in Transfers \ {u} : ~ Opened(x'[v])
    BY <1>1, <2>2 DEF MixOK
  <2>4. CASE u = t
    BY <1>1, <1>3, <2>3, <2>4 DEF MixOK
  <2>5. CASE u # t
    <3>1. disk'.asm = disk.asm /\ x'[u] = x[u]
      BY <1>1, <2>2, <2>5 DEF MixOK
    <3>. QED
      BY <1>2, <2>1, <2>3, <3>1 DEF OpenAlone
  <2>. QED
    BY <2>4, <2>5
<1>4. OpenAlone(x', disk'.asm)
  BY <1>3 DEF OpenAlone
<1>. QED
  BY <1>4 DEF MixInv

\* A step in which t becomes q.
LEMMA MovesOn ==
  ASSUME UploadInv, NEW t \in Transfers, NEW q, Become(t, q), Sending,
         Sound(channel', q), Keeps(x[t], q), HoldsOf(q) \subseteq HoldsOf(x[t]) \cup NewMessages,
         orphans \subseteq orphans', orphans' \subseteq DOMAIN channel',
         HoldsOf(x[t]) \cup NewMessages \subseteq HoldsOf(q) \cup orphans',
         MixOK(t, q), DiskInv', UNCHANGED <<gone, rows, down, del>>
  PROVE  UploadInv'
<1>1. x' = [u \in Transfers |-> IF u = t THEN q ELSE x[u]]
  BY DEF Become, UploadInv, Transferring
<1>2. x'[t] = q /\ \A u \in Transfers \ {t} : x'[u] = x[u]
  BY <1>1
<1>3. Moves(t) /\ Unrecorded(t)
  BY <1>1, <1>2 DEF Moves, Unrecorded
<1>4. MixInv'
  BY MixKept
<1>. QED
  BY <1>3, <1>4, TransferStep

\* A step that sends nothing: q holds what t held, or it is left.
LEMMA GoesOn ==
  ASSUME UploadInv, NEW t \in Transfers, NEW q, Become(t, q),
         Sound(channel, q), Keeps(x[t], q), HoldsOf(q) \subseteq HoldsOf(x[t]),
         orphans' \subseteq DOMAIN channel, orphans \cup (HoldsOf(x[t]) \ HoldsOf(q)) \subseteq orphans',
         MixOK(t, q), DiskInv', UNCHANGED <<channel, gone, rows, down, del>>
  PROVE  UploadInv'
<1>1. NewMessages = {} /\ Sending
  BY DEF NewMessages, Sending
<1>. QED
  BY <1>1, MovesOn

\* What is known of transfer t.
LEMMA TransferOf ==
  ASSUME UploadInv, NEW t \in Transfers
  PROVE  /\ Sound(channel, x[t]) /\ x[t] \in TransferType /\ Shape(x[t]) /\ Refers(channel, x[t])
         /\ Carries(channel, x[t]) /\ Authorized(x[t])
         /\ Backward(channel) /\ DiskInv /\ orphans \subseteq DOMAIN channel
         /\ Len(channel) \in Nat /\ DOMAIN channel = 1..Len(channel)
BY DEF UploadInv, Transferring, Sound, ChannelInv, Backward

\* A form begins with nothing sent, verified by its headers or not at all.
LEMMA StartFormStep ==
  ASSUME UploadInv, NEW t \in Transfers, StartForm(t)
  PROVE  UploadInv'
<1>1. PICK n \in Sizes, F \in Forms, ok \in BOOLEAN :
        Become(t, [x[t] EXCEPT !.pc = "fields", !.size = n, !.fields = F,
                               !.verified = ok, !.checked = ok])
  BY DEF StartForm
<1>. PICK p : p = x[t]
  OBVIOUS
<1>2. /\ p \in TransferType /\ Shape(p) /\ Refers(channel, p) /\ Authorized(p)
      /\ p.pc = "idle" /\ p.kind = "form"
  BY TransferOf DEF StartForm, At
<1>. DEFINE q == [p EXCEPT !.pc = "fields", !.size = n, !.fields = F,
                           !.verified = ok, !.checked = ok]
<1>3. /\ q \in TransferType
      /\ q.kind = "form" /\ q.pc = "fields" /\ q.pos = p.pos /\ q.buf = p.buf
      /\ q.parts = p.parts /\ q.verified = ok /\ q.checked = ok /\ q.key = p.key
      /\ q.result = p.result /\ q.main = p.main /\ q.shown = p.shown /\ q.stored = p.stored
  <2>1. n \in Nat /\ F \in Seq({"file", "good", "bad"}) /\ "fields" \in Pcs
    BY UploadConstants DEF Pcs
  <2>. QED
    BY <1>2, <2>1 DEF TransferType
<1>. HIDE DEF q
<1>4. Shape(q)
  BY <1>2, <1>3, UploadConstants DEF Shape, Blank, Working, AfterStream
<1>5. /\ Refers(channel, q) /\ Carries(channel, q) /\ Authorized(q)
      /\ HoldsOf(q) = {} /\ HoldsOf(p) = {} /\ Keeps(p, q) /\ ~ Opened(q)
  BY <1>2, <1>3 DEF Refers, Carries, Authorized, HoldsOf, Keeps, Opened, Working, Shape
<1>6. Sound(channel, q) /\ Become(t, q)
  BY <1>1, <1>3, <1>4, <1>5 DEF Sound, q
<1>7. UNCHANGED <<channel, gone, rows, disk, down, del, orphans>>
  BY DEF StartForm
<1>8. MixOK(t, q) /\ DiskInv' /\ orphans \subseteq DOMAIN channel
  BY <1>5, <1>7, TransferOf DEF MixOK, DiskInv
<1>. QED
  BY <1>5, <1>6, <1>7, <1>8, GoesOn

\* A body begins with nothing sent and nothing in the buffer.
LEMMA StartBodyStep ==
  ASSUME UploadInv, NEW t \in Transfers, StartBody(t)
  PROVE  UploadInv'
<1>1. PICK n \in Sizes : Become(t, [x[t] EXCEPT !.pc = "recv", !.size = n])
  BY DEF StartBody
<1>. PICK p : p = x[t]
  OBVIOUS
<1>2. /\ p \in TransferType /\ Shape(p) /\ Refers(channel, p) /\ Authorized(p)
      /\ p.pc = "idle" /\ p.kind = "body"
  BY TransferOf DEF StartBody, At
<1>. DEFINE q == [p EXCEPT !.pc = "recv", !.size = n]
<1>3. /\ q \in TransferType
      /\ q.kind = "body" /\ q.pc = "recv" /\ q.pos = 0 /\ q.buf = <<>> /\ q.parts = <<>>
      /\ q.verified = p.verified /\ q.checked = p.checked /\ q.key = p.key
      /\ q.result = p.result /\ q.main = 0 /\ q.shown = p.shown /\ q.stored = p.stored
  <2>1. n \in Nat /\ "recv" \in Pcs
    BY UploadConstants DEF Pcs, Working
  <2>. QED
    BY <1>2, <2>1 DEF TransferType, Shape, Blank
<1>. HIDE DEF q
<1>4. Shape(q)
  BY <1>2, <1>3, UploadConstants DEF Shape, Blank, Working, AfterStream
<1>5. Carries(channel, q)
  <2>1. Carried(channel, q.parts, 0) /\ q.buf = Slice(0, q.pos) /\ 0 \in 0..q.pos
    BY <1>3, CarriedNone, Slices
  <2>. QED
    BY <1>3, <2>1 DEF Carries
<1>6. /\ Refers(channel, q) /\ Authorized(q)
      /\ HoldsOf(q) = {} /\ HoldsOf(p) = {} /\ Keeps(p, q) /\ ~ Opened(q)
  BY <1>2, <1>3 DEF Refers, Authorized, HoldsOf, Keeps, Opened, Working, Shape, Range, Blank
<1>7. Sound(channel, q) /\ Become(t, q)
  BY <1>1, <1>3, <1>4, <1>5, <1>6 DEF Sound, q
<1>8. UNCHANGED <<channel, gone, rows, disk, down, del, orphans>>
  BY DEF StartBody
<1>9. MixOK(t, q) /\ DiskInv' /\ orphans \subseteq DOMAIN channel
  BY <1>6, <1>8, TransferOf DEF MixOK, DiskInv
<1>. QED
  BY <1>6, <1>7, <1>8, <1>9, GoesOn

\* A completion begins with nothing sent; its size is the number of chunks.
LEMMA StartCompleteStep ==
  ASSUME UploadInv, NEW t \in Transfers, StartComplete(t)
  PROVE  UploadInv'
<1>. PICK p : p = x[t]
  OBVIOUS
<1>1. /\ p \in TransferType /\ Shape(p) /\ Refers(channel, p) /\ Authorized(p)
      /\ p.pc = "idle" /\ p.kind = "chunks"
  BY TransferOf DEF StartComplete, At
<1>. DEFINE q == [p EXCEPT !.pc = "create", !.size = Chunks]
<1>2. /\ q \in TransferType
      /\ q.kind = "chunks" /\ q.pc = "create" /\ q.size = Chunks /\ q.pos = p.pos /\ q.buf = p.buf
      /\ q.parts = p.parts /\ q.verified = p.verified /\ q.checked = p.checked /\ q.key = p.key
      /\ q.result = p.result /\ q.main = p.main /\ q.off = p.off /\ q.shown = p.shown
      /\ q.stored = p.stored
  <2>1. Chunks \in Nat /\ "create" \in Pcs
    BY UploadConstants DEF Pcs
  <2>. QED
    BY <1>1, <2>1 DEF TransferType
<1>. HIDE DEF q
<1>3. Shape(q)
  BY <1>1, <1>2, UploadConstants DEF Shape, Blank, Working, AfterStream
<1>4. /\ Refers(channel, q) /\ Carries(channel, q) /\ Authorized(q)
      /\ HoldsOf(q) = {} /\ HoldsOf(p) = {} /\ Keeps(p, q) /\ ~ Opened(q)
  BY <1>1, <1>2 DEF Refers, Carries, Authorized, HoldsOf, Keeps, Opened, Working, Shape
<1>5. Sound(channel, q) /\ Become(t, q)
  BY <1>2, <1>3, <1>4 DEF Sound, StartComplete, q
<1>6. UNCHANGED <<channel, gone, rows, disk, down, del, orphans>>
  BY DEF StartComplete
<1>7. MixOK(t, q) /\ DiskInv' /\ orphans \subseteq DOMAIN channel
  BY <1>4, <1>6, TransferOf DEF MixOK, DiskInv
<1>. QED
  BY <1>4, <1>5, <1>6, <1>7, GoesOn


\* A step of t alone, after which it has assembled.bin not open.
LEMMA Quiet ==
  ASSUME UploadInv, NEW t \in Transfers, NEW q, Become(t, q), Sound(channel, q), Keeps(x[t], q),
         HoldsOf(q) = HoldsOf(x[t]), ~ Opened(q),
         UNCHANGED <<channel, gone, rows, disk, down, del, orphans>>
  PROVE  UploadInv'
<1>1. MixOK(t, q) /\ DiskInv' /\ orphans \subseteq DOMAIN channel
  BY TransferOf DEF MixOK, DiskInv
<1>. QED
  BY <1>1, GoesOn

\* A key verifies the form only if it is the right one, or if it was verified before.
LEMMA KeyFieldStep ==
  ASSUME UploadInv, NEW t \in Transfers, KeyField(t)
  PROVE  UploadInv'
<1>. PICK p : p = x[t]
  OBVIOUS
<1>1. /\ p \in TransferType /\ Shape(p) /\ Refers(channel, p) /\ Authorized(p)
      /\ Sound(channel, p) /\ Backward(channel)
      /\ p.pc = "fields" /\ p.kind = "form" /\ p.fields # <<>>
  BY TransferOf DEF KeyField, At, Shape
<1>. DEFINE k == Head(p.fields)
            q == [p EXCEPT !.fields = Tail(@), !.key = k, !.shown = @ \cup {k}]
<1>2. k \in {"good", "bad"} /\ Tail(p.fields) \in Seq({"file", "good", "bad"})
  <2>1. p.fields \in Seq({"file", "good", "bad"})
    BY <1>1 DEF TransferType
  <2>2. k \in {"file", "good", "bad"} /\ Tail(p.fields) \in Seq({"file", "good", "bad"})
    BY <1>1, <2>1
  <2>. QED
    BY <2>2 DEF KeyField
<1>3. Become(t, IF ~ p.verified /\ k = "bad" THEN Closed(q, "refused") ELSE [q EXCEPT !.verified = TRUE])
  BY DEF KeyField
<1>. HIDE DEF k
<1>4. /\ q \in TransferType
      /\ q.kind = "form" /\ q.pc = "fields" /\ q.pos = p.pos /\ q.buf = p.buf
      /\ q.parts = p.parts /\ q.verified = p.verified /\ q.checked = p.checked /\ q.key = k
      /\ q.result = p.result /\ q.main = p.main /\ q.shown = p.shown \cup {k}
      /\ q.stored = p.stored /\ q.size = p.size /\ q.mixed = p.mixed /\ q.cut = p.cut
  BY <1>1, <1>2 DEF TransferType
<1>. HIDE DEF q
<1>5. Shape(q) /\ Refers(channel, q) /\ Carries(channel, q) /\ Keeps(p, q)
  BY <1>1, <1>4 DEF Shape, Blank, Working, AfterStream, Refers, Carries, Keeps
<1>6. Authorized(q) /\ HoldsOf(q) = {} /\ HoldsOf(p) = {} /\ ~ Opened(q)
  BY <1>1, <1>4 DEF Authorized, HoldsOf, Opened, Working
<1>7. Sound(channel, q)
  BY <1>4, <1>5, <1>6 DEF Sound
<1>8. UNCHANGED <<channel, gone, rows, disk, down, del, orphans>>
  BY DEF KeyField
<1>9. CASE ~ p.verified /\ k = "bad"
  <2>1. Become(t, Closed(q, "refused"))
    BY <1>3, <1>9
  <2>2. /\ Sound(channel, Closed(q, "refused")) /\ HoldsOf(Closed(q, "refused")) = {}
        /\ Keeps(q, Closed(q, "refused")) /\ ~ Opened(Closed(q, "refused"))
    BY <1>1, <1>4, <1>7, ClosedSound
  <2>3. Keeps(p, Closed(q, "refused"))
    BY <1>5, <2>2 DEF Keeps
  <2>. QED
    BY <1>6, <1>8, <2>1, <2>2, <2>3, Quiet
<1>10. CASE ~ (~ p.verified /\ k = "bad")
  <2>. DEFINE r == [q EXCEPT !.verified = TRUE]
  <2>1. Become(t, r)
    BY <1>3, <1>10
  <2>2. /\ r \in TransferType
        /\ r.kind = "form" /\ r.pc = "fields" /\ r.pos = q.pos /\ r.buf = q.buf
        /\ r.parts = q.parts /\ r.verified /\ r.checked = q.checked /\ r.key = q.key
        /\ r.result = q.result /\ r.main = q.main /\ r.shown = q.shown
        /\ r.stored = q.stored /\ r.size = q.size /\ r.mixed = q.mixed /\ r.cut = q.cut
    BY <1>4 DEF TransferType
  <2>. HIDE DEF r
  <2>3. Shape(r) /\ Refers(channel, r) /\ Carries(channel, r) /\ Keeps(p, r)
    BY <1>4, <1>5, <2>2 DEF Shape, Blank, Working, AfterStream, Refers, Carries, Keeps
  <2>4. p.checked \/ "good" \in r.shown
    BY <1>1, <1>2, <1>4, <1>10, <2>2 DEF Authorized
  <2>5. Authorized(r) /\ HoldsOf(r) = {} /\ ~ Opened(r)
    BY <1>4, <1>6, <2>2, <2>4 DEF Authorized, HoldsOf, Opened, Working
  <2>6. Sound(channel, r)
    BY <2>2, <2>3, <2>5 DEF Sound
  <2>. QED
    BY <1>6, <1>8, <2>1, <2>3, <2>5, <2>6, Quiet
<1>. QED
  BY <1>9, <1>10

\* A file is received at once if the form is verified, and otherwise put aside or refused.
LEMMA FileFieldStep ==
  ASSUME UploadInv, NEW t \in Transfers, FileField(t)
  PROVE  UploadInv'
<1>. PICK p : p = x[t]
  OBVIOUS
<1>1. /\ p \in TransferType /\ Shape(p) /\ Refers(channel, p) /\ Authorized(p)
      /\ Len(channel) \in Nat
      /\ p.pc = "fields" /\ p.kind = "form" /\ p.fields # <<>>
  BY TransferOf DEF FileField, At, Shape
<1>. DEFINE q == [p EXCEPT !.fields = Tail(@)]
<1>2. Tail(p.fields) \in Seq({"file", "good", "bad"})
  <2>1. p.fields \in Seq({"file", "good", "bad"})
    BY <1>1 DEF TransferType
  <2>. QED
    BY <1>1, <2>1
<1>3. /\ q \in TransferType
      /\ q.kind = "form" /\ q.pc = "fields" /\ q.pos = p.pos /\ q.buf = p.buf
      /\ q.parts = p.parts /\ q.verified = p.verified /\ q.checked = p.checked /\ q.key = p.key
      /\ q.result = p.result /\ q.main = p.main /\ q.shown = p.shown
      /\ q.stored = p.stored /\ q.size = p.size /\ q.mixed = p.mixed /\ q.cut = p.cut
  BY <1>1, <1>2 DEF TransferType
<1>4. \/ q.verified /\ Become(t, [q EXCEPT !.pc = "recv", !.pos = 0, !.buf = <<>>, !.parts = <<>>,
                                           !.main = 0])
      \/ Become(t, [q EXCEPT !.pending = TRUE])
      \/ Become(t, [q EXCEPT !.result = "err"])
  BY DEF FileField
<1>. HIDE DEF q
<1>5. UNCHANGED <<channel, gone, rows, disk, down, del, orphans>>
  BY DEF FileField
<1>6. HoldsOf(p) = {}
  BY <1>1 DEF HoldsOf, Working
<1>7. ASSUME q.verified, Become(t, [q EXCEPT !.pc = "recv", !.pos = 0, !.buf = <<>>, !.parts = <<>>,
                                             !.main = 0])
      PROVE  UploadInv'
  <2>. DEFINE r == [q EXCEPT !.pc = "recv", !.pos = 0, !.buf = <<>>, !.parts = <<>>, !.main = 0]
  <2>1. /\ r \in TransferType
        /\ r.kind = "form" /\ r.pc = "recv" /\ r.pos = 0 /\ r.buf = <<>>
        /\ r.parts = <<>> /\ r.verified = q.verified /\ r.checked = q.checked /\ r.key = q.key
        /\ r.result = q.result /\ r.main = 0 /\ r.shown = q.shown
        /\ r.stored = q.stored /\ r.size = q.size /\ r.mixed = q.mixed /\ r.cut = q.cut
    <3>1. "recv" \in Pcs /\ <<>> \in Seq(Nat)
      BY DEF Pcs, Working
    <3>. QED
      BY <1>3, <3>1 DEF TransferType
  <2>. HIDE DEF r
  <2>2. Shape(r)
    BY <1>1, <1>3, <2>1, UploadConstants DEF Shape, Blank, Working, AfterStream
  <2>3. Carries(channel, r)
    <3>1. Carried(channel, r.parts, 0) /\ r.buf = Slice(0, r.pos) /\ 0 \in 0..r.pos
      BY <2>1, CarriedNone, Slices
    <3>. QED
      BY <2>1, <3>1 DEF Carries
  <2>4. Refers(channel, r) /\ Authorized(r) /\ HoldsOf(r) = {} /\ Keeps(p, r) /\ ~ Opened(r)
    BY <1>1, <1>3, <1>7, <2>1 DEF Refers, Authorized, HoldsOf, Keeps, Opened, Range
  <2>5. Sound(channel, r)
    BY <2>1, <2>2, <2>3, <2>4 DEF Sound
  <2>6. Become(t, r)
    BY <1>7 DEF r
  <2>. QED
    BY <1>5, <1>6, <2>4, <2>5, <2>6, Quiet
<1>8. ASSUME NEW r \in TransferType, Become(t, r),
             r.kind = "form", r.pc = "fields", r.pos = q.pos, r.buf = q.buf,
             r.parts = q.parts, r.verified = q.verified, r.checked = q.checked, r.key = q.key,
             r.result = q.result \/ r.result # "none", r.main = q.main, r.shown = q.shown,
             r.stored = q.stored, r.size = q.size, r.mixed = q.mixed, r.cut = q.cut
      PROVE  UploadInv'
  <2>1. Shape(r)
    BY <1>1, <1>3, <1>8 DEF Shape, Blank, Working, AfterStream
  <2>2. /\ Refers(channel, r) /\ Carries(channel, r) /\ Authorized(r) /\ HoldsOf(r) = {}
        /\ Keeps(p, r) /\ ~ Opened(r)
    BY <1>1, <1>3, <1>8 DEF Refers, Carries, Authorized, HoldsOf, Keeps, Opened, Working
  <2>3. Sound(channel, r)
    BY <2>1, <2>2 DEF Sound
  <2>. QED
    BY <1>5, <1>6, <1>8, <2>2, <2>3, Quiet
<1>9. ASSUME Become(t, [q EXCEPT !.pending = TRUE]) PROVE UploadInv'
  <2>. DEFINE r == [q EXCEPT !.pending = TRUE]
  <2>1. /\ r \in TransferType
        /\ r.kind = "form" /\ r.pc = "fields" /\ r.pos = q.pos /\ r.buf = q.buf
        /\ r.parts = q.parts /\ r.verified = q.verified /\ r.checked = q.checked /\ r.key = q.key
        /\ r.result = q.result /\ r.main = q.main /\ r.shown = q.shown
        /\ r.stored = q.stored /\ r.size = q.size /\ r.mixed = q.mixed /\ r.cut = q.cut
    BY <1>3 DEF TransferType
  <2>2. Become(t, r)
    BY <1>9
  <2>. HIDE DEF r
  <2>. QED
    BY <1>8, <2>1, <2>2
<1>10. ASSUME Become(t, [q EXCEPT !.result = "err"]) PROVE UploadInv'
  <2>. DEFINE r == [q EXCEPT !.result = "err"]
  <2>1. /\ r \in TransferType
        /\ r.kind = "form" /\ r.pc = "fields" /\ r.pos = q.pos /\ r.buf = q.buf
        /\ r.parts = q.parts /\ r.verified = q.verified /\ r.checked = q.checked /\ r.key = q.key
        /\ r.result # "none" /\ r.main = q.main /\ r.shown = q.shown
        /\ r.stored = q.stored /\ r.size = q.size /\ r.mixed = q.mixed /\ r.cut = q.cut
    BY <1>3 DEF TransferType
  <2>2. Become(t, r)
    BY <1>10
  <2>. HIDE DEF r
  <2>. QED
    BY <1>8, <2>1, <2>2
<1>. QED
  BY <1>4, <1>7, <1>9, <1>10

\* What was put aside is uploaded after a check or the right key, and from its beginning.
LEMMA EndFormStep ==
  ASSUME UploadInv, NEW t \in Transfers, EndForm(t)
  PROVE  UploadInv'
<1>. PICK p : p = x[t]
  OBVIOUS
<1>1. /\ p \in TransferType /\ Shape(p) /\ Refers(channel, p) /\ Authorized(p)
      /\ Sound(channel, p) /\ Backward(channel) /\ Len(channel) \in Nat
      /\ p.pc = "fields" /\ p.kind = "form"
  BY TransferOf DEF EndForm, At, Shape
<1>2. Become(t, IF ~ p.checked /\ p.key # "good" THEN Closed(p, "refused")
                ELSE IF ~ p.pending \/ p.result # "none"
                     THEN Closed(p, IF p.result = "ok" THEN "done" ELSE "failed")
                ELSE IF p.size \in 1..Part
                     THEN [p EXCEPT !.kind = "bytes", !.pc = "single", !.buf = Whole(p.size),
                                    !.pos = p.size]
                     ELSE [p EXCEPT !.kind = "bytes", !.pc = "recv"])
  BY DEF EndForm
<1>3. UNCHANGED <<channel, gone, rows, disk, down, del, orphans>>
  BY DEF EndForm
<1>4. HoldsOf(p) = {}
  BY <1>1 DEF HoldsOf, Working
<1>5. ASSUME NEW pc \in {"done", "failed", "refused"}, Become(t, Closed(p, pc)) PROVE UploadInv'
  <2>1. /\ Sound(channel, Closed(p, pc)) /\ HoldsOf(Closed(p, pc)) = {}
        /\ Keeps(p, Closed(p, pc)) /\ ~ Opened(Closed(p, pc))
    BY <1>1, ClosedSound
  <2>. QED
    BY <1>3, <1>4, <1>5, <2>1, Quiet
<1>6. ASSUME p.checked \/ p.key = "good", p.result = "none"
      PROVE  /\ p.checked \/ "good" \in p.shown
             /\ p.pos = 0 /\ p.buf = <<>> /\ p.parts = <<>> /\ p.main = 0
  BY <1>1, <1>6 DEF Authorized, Shape, Blank
<1>7. ASSUME p.checked \/ p.key = "good", p.result = "none", p.size \in 1..Part,
             Become(t, [p EXCEPT !.kind = "bytes", !.pc = "single", !.buf = Whole(p.size),
                                 !.pos = p.size])
      PROVE  UploadInv'
  <2>. DEFINE q == [p EXCEPT !.kind = "bytes", !.pc = "single", !.buf = Whole(p.size),
                             !.pos = p.size]
  <2>1. p.size \in Nat /\ Whole(p.size) \in Seq(Nat) /\ Len(Whole(p.size)) = p.size
        /\ p.size <= Part
    BY <1>7, UploadConstants DEF Whole
  <2>2. /\ q \in TransferType
        /\ q.kind = "bytes" /\ q.pc = "single" /\ q.pos = p.size /\ q.buf = Whole(p.size)
        /\ q.parts = <<>> /\ q.verified = p.verified /\ q.checked = p.checked /\ q.key = p.key
        /\ q.result = p.result /\ q.main = 0 /\ q.shown = p.shown
        /\ q.stored = p.stored /\ q.size = p.size /\ q.mixed = p.mixed /\ q.cut = p.cut
    <3>1. "single" \in Pcs
      BY DEF Pcs, Working
    <3>. QED
      BY <1>1, <1>6, <1>7, <2>1, <3>1 DEF TransferType
  <2>3. Become(t, q)
    BY <1>7
  <2>. HIDE DEF q
  <2>4. Shape(q)
    BY <1>1, <2>1, <2>2 DEF Shape, Blank, Working, AfterStream
  <2>5. Carries(channel, q)
    <3>1. Carried(channel, q.parts, 0) /\ q.buf = Slice(0, q.pos) /\ 0 \in 0..q.pos
      <4>. PICK n \in Nat : n = p.size
        BY <2>1
      <4>1. q.parts = <<>> /\ q.pos = n /\ q.buf = Whole(n)
        BY <2>2
      <4>2. Carried(channel, <<>>, 0)
        BY CarriedNone
      <4>3. 0 <= n /\ 0 \in 0..n
        OBVIOUS
      <4>4. Slice(0, n) = Whole(n)
        BY <4>3, Slices
      <4>. QED
        BY <4>1, <4>2, <4>3, <4>4
    <3>. QED
      BY <2>2, <3>1 DEF Carries
  <2>6. Refers(channel, q) /\ Authorized(q) /\ HoldsOf(q) = {} /\ Keeps(p, q) /\ ~ Opened(q)
    BY <1>1, <1>6, <1>7, <2>2 DEF Refers, Authorized, HoldsOf, Keeps, Opened, Range
  <2>7. Sound(channel, q)
    BY <2>2, <2>4, <2>5, <2>6 DEF Sound
  <2>. QED
    BY <1>3, <1>4, <2>3, <2>6, <2>7, Quiet
<1>8. ASSUME p.checked \/ p.key = "good", p.result = "none",
             Become(t, [p EXCEPT !.kind = "bytes", !.pc = "recv"])
      PROVE  UploadInv'
  <2>. DEFINE q == [p EXCEPT !.kind = "bytes", !.pc = "recv"]
  <2>2. /\ q \in TransferType
        /\ q.kind = "bytes" /\ q.pc = "recv" /\ q.pos = 0 /\ q.buf = <<>>
        /\ q.parts = <<>> /\ q.verified = p.verified /\ q.checked = p.checked /\ q.key = p.key
        /\ q.result = p.result /\ q.main = 0 /\ q.shown = p.shown
        /\ q.stored = p.stored /\ q.size = p.size /\ q.mixed = p.mixed /\ q.cut = p.cut
    <3>1. "recv" \in Pcs
      BY DEF Pcs, Working
    <3>. QED
      BY <1>1, <1>6, <1>8, <3>1 DEF TransferType
  <2>3. Become(t, q)
    BY <1>8
  <2>. HIDE DEF q
  <2>4. Shape(q)
    BY <1>1, <2>2, UploadConstants DEF Shape, Blank, Working, AfterStream
  <2>5. Carries(channel, q)
    <3>1. Carried(channel, q.parts, 0) /\ q.buf = Slice(0, q.pos) /\ 0 \in 0..q.pos
      BY <2>2, CarriedNone, Slices
    <3>. QED
      BY <2>2, <3>1 DEF Carries
  <2>6. Refers(channel, q) /\ Authorized(q) /\ HoldsOf(q) = {} /\ Keeps(p, q) /\ ~ Opened(q)
    BY <1>1, <1>6, <1>8, <2>2 DEF Refers, Authorized, HoldsOf, Keeps, Opened, Range
  <2>7. Sound(channel, q)
    BY <2>2, <2>4, <2>5, <2>6 DEF Sound
  <2>. QED
    BY <1>3, <1>4, <2>3, <2>6, <2>7, Quiet
<1>. QED
  BY <1>2, <1>5, <1>7, <1>8


\* An unmarked completion that has copied every chunk reads the whole back.
LEMMA ReopenStep ==
  ASSUME UploadInv, NEW t \in Transfers, Reopen(t)
  PROVE  UploadInv'
<1>. PICK p : p = x[t]
  OBVIOUS
<1>1. /\ p \in TransferType /\ Shape(p) /\ Refers(channel, p) /\ Authorized(p)
      /\ p.pc = "copy" /\ p.next > Chunks /\ p.kind = "chunks" /\ orphans \subseteq DOMAIN channel
      /\ DiskInv
  BY TransferOf DEF Reopen, At, Shape
<1>2. PICK pc \in {"recv", "failed"} : Become(t, [p EXCEPT !.pc = pc])
  BY DEF Reopen, Goto
<1>. DEFINE q == [p EXCEPT !.pc = pc]
<1>3. /\ q \in TransferType
      /\ q.kind = "chunks" /\ q.pc = pc /\ q.pos = p.pos /\ q.buf = p.buf
      /\ q.parts = p.parts /\ q.verified = p.verified /\ q.checked = p.checked /\ q.key = p.key
      /\ q.result = p.result /\ q.main = p.main /\ q.shown = p.shown /\ q.size = p.size
      /\ q.stored = p.stored /\ q.mixed = p.mixed /\ q.cut = p.cut
  <2>1. pc \in Pcs
    BY DEF Pcs, Working
  <2>. QED
    BY <1>1, <2>1 DEF TransferType
<1>4. Become(t, q)
  BY <1>2
<1>. HIDE DEF q
<1>5. Shape(q)
  BY <1>1, <1>3, UploadConstants DEF Shape, Blank, Working, AfterStream
<1>6. p.pos = 0 /\ p.buf = <<>> /\ p.parts = <<>> /\ p.main = 0
  BY <1>1 DEF Shape, Blank
<1>7. Carries(channel, q)
  <2>1. Carried(channel, q.parts, 0) /\ q.buf = Slice(0, q.pos) /\ 0 \in 0..q.pos
    BY <1>3, <1>6, CarriedNone, Slices
  <2>. QED
    BY <1>3, <2>1 DEF Carries, Working
<1>8. /\ Refers(channel, q) /\ Authorized(q)
      /\ HoldsOf(q) = {} /\ HoldsOf(p) = {} /\ Keeps(p, q)
  BY <1>1, <1>3, <1>6 DEF Refers, Authorized, HoldsOf, Keeps, Working, Range
<1>9. Sound(channel, q)
  BY <1>3, <1>5, <1>7, <1>8 DEF Sound
<1>10. UNCHANGED <<channel, gone, rows, disk, down, del, orphans>>
  BY DEF Reopen
<1>11. MixOK(t, q)
  <2>1. ~ p.mixed => /\ p.next = p.off + 1 /\ p.off <= Chunks /\ disk.asm = Whole(p.off)
    BY <1>1 DEF UploadInv, MixInv, OpenAlone, Opened
  <2>2. p.next \in Nat /\ p.off \in Nat /\ Chunks \in Nat
    BY <1>1, UploadConstants DEF TransferType
  <2>3. ~ p.mixed => disk.asm = Whole(Chunks)
    <3>1. ~ p.mixed => p.off = Chunks
      BY <1>1, <2>1, <2>2
    <3>. QED
      BY <2>1, <3>1
  <2>4. Opened(p)
    BY <1>1 DEF Opened
  <2>5. q.pos <= Chunks /\ q.pc # "copy"
    BY <1>3, <1>6, <2>2
  <2>. QED
    BY <1>3, <1>10, <2>3, <2>4, <2>5 DEF MixOK
<1>. QED
  BY <1>1, <1>4, <1>8, <1>9, <1>10, <1>11, GoesOn DEF DiskInv

\* Receiving a unit, or the end, of what does not come from the session.
LEMMA ReceiveStep ==
  ASSUME UploadInv, NEW t \in Transfers, At(t, "recv"), x[t].kind # "chunks",
         \/ Become(t, Taken(x[t], x[t].pos + 1))
         \/ x[t].pos = x[t].size /\ Become(t, Ended(x[t]))
         \/ Become(t, Ended([x[t] EXCEPT !.cut = TRUE])),
         UNCHANGED <<channel, gone, rows, disk, down, del, orphans>>
  PROVE  UploadInv'
<1>. PICK p : p = x[t]
  OBVIOUS
<1>1. Sound(channel, p) /\ p.pc = "recv" /\ p.kind # "chunks" /\ Backward(channel)
  BY TransferOf DEF At
<1>2. CASE Become(t, Taken(p, p.pos + 1))
  <2>1. p.pos + 1 \in Nat
    BY <1>1 DEF Sound, TransferType
  <2>2. LET r == Taken(p, p.pos + 1) IN
        Sound(channel, r) /\ HoldsOf(r) = HoldsOf(p) /\ Keeps(p, r) /\ ~ Opened(r)
    BY <1>1, <2>1, TakenSound DEF Opened
  <2>. QED
    BY <1>2, <2>2, Quiet
<1>3. CASE p.pos = p.size /\ Become(t, Ended(p))
  <2>1. LET r == Ended(p) IN
        Sound(channel, r) /\ HoldsOf(r) = HoldsOf(p) /\ Keeps(p, r) /\ ~ Opened(r)
    BY <1>1, <1>3, EndedSound
  <2>. QED
    BY <1>3, <2>1, Quiet
<1>4. CASE Become(t, Ended(Cutting(p)))
  <2>1. PICK q : q = Cutting(p)
    OBVIOUS
  <2>2. /\ Sound(channel, q) /\ HoldsOf(q) = HoldsOf(p) /\ Keeps(p, q)
        /\ q.cut /\ q.pc = "recv" /\ q.kind = p.kind
    BY <1>1, <2>1, CuttingSound
  <2>3. LET r == Ended(q) IN
        Sound(channel, r) /\ HoldsOf(r) = HoldsOf(q) /\ Keeps(q, r) /\ ~ Opened(r)
    BY <1>1, <2>2, EndedSound
  <2>4. Keeps(p, Ended(q)) /\ HoldsOf(Ended(q)) = HoldsOf(p)
    BY <2>2, <2>3 DEF Keeps
  <2>. QED
    BY <1>4, <2>1, <2>3, <2>4, Quiet
<1>. QED
  BY <1>2, <1>3, <1>4 DEF Cutting

\* A form receives its next unit, or its end, or breaks off and is cut.
LEMMA RecvFormStep ==
  ASSUME UploadInv, NEW t \in Transfers, RecvForm(t)
  PROVE  UploadInv'
BY ReceiveStep DEF RecvForm

\* A body receives its next unit or its end.
LEMMA RecvBodyStep ==
  ASSUME UploadInv, NEW t \in Transfers, RecvBody(t)
  PROVE  UploadInv'
BY ReceiveStep DEF RecvBody

\* An unmarked completion reads the next unit of assembled.bin, or its end.
LEMMA RecvChunksStep ==
  ASSUME UploadInv, NEW t \in Transfers, RecvChunks(t)
  PROVE  UploadInv'
<1>. PICK p : p = x[t]
  OBVIOUS
<1>. PICK asm : asm = disk.asm
  OBVIOUS
<1>1. /\ Sound(channel, p) /\ p \in TransferType /\ Shape(p) /\ Backward(channel) /\ DiskInv
      /\ p.pc = "recv" /\ p.kind = "chunks" /\ orphans \subseteq DOMAIN channel
  BY TransferOf DEF RecvChunks, At
<1>2. asm \in Seq(0..Chunks) /\ Len(asm) \in Nat /\ p.pos \in Nat /\ Chunks \in Nat
  BY <1>1, UploadConstants DEF DiskInv, TransferType
<1>3. Opened(p)
  BY <1>1 DEF Opened
<1>4. ~ p.mixed => p.pos <= Chunks /\ asm = Whole(Chunks) /\ Len(asm) = Chunks
  <2>1. ~ p.mixed => p.pos <= Chunks /\ asm = Whole(Chunks)
    BY <1>1, <1>3 DEF UploadInv, MixInv, OpenAlone
  <2>2. Len(Whole(Chunks)) = Chunks
    BY <1>2 DEF Whole
  <2>. QED
    BY <2>1, <2>2
<1>5. UNCHANGED <<channel, gone, rows, disk, down, del, orphans>>
  BY DEF RecvChunks
<1>6. CASE p.pos < Len(asm)
  <2>. DEFINE u == asm[p.pos + 1]
              r == Taken(p, u)
  <2>1. p.pos + 1 \in 1..Len(asm)
    BY <1>2, <1>6
  <2>2. u \in Nat
    <3>1. u \in 0..Chunks
      BY <1>2, <2>1
    <3>. QED
      BY <1>2, <3>1
  <2>3. ~ p.mixed => u = p.pos + 1
    BY <1>4, <2>1 DEF Whole
  <2>4. /\ Sound(channel, r) /\ HoldsOf(r) = HoldsOf(p) /\ Keeps(p, r)
        /\ r.mixed = p.mixed /\ r.pc \in {"recv", "part"} /\ r.pos = p.pos + 1
    BY <1>1, <2>2, <2>3, TakenSound
  <2>5. Become(t, r)
    BY <1>6 DEF RecvChunks
  <2>. HIDE DEF r
  <2>6. MixOK(t, r)
    BY <1>2, <1>3, <1>4, <1>5, <1>6, <2>4 DEF MixOK
  <2>. QED
    BY <1>1, <1>5, <2>4, <2>5, <2>6, GoesOn DEF DiskInv
<1>7. CASE ~ (p.pos < Len(asm))
  <2>1. ~ p.cut /\ ~ p.mixed => p.pos = p.size
    BY <1>1, <1>2, <1>4, <1>7 DEF Shape
  <2>2. LET r == Ended(p) IN
        Sound(channel, r) /\ HoldsOf(r) = HoldsOf(p) /\ Keeps(p, r) /\ ~ Opened(r)
    BY <1>1, <2>1, EndedSound
  <2>3. Become(t, Ended(p))
    BY <1>7 DEF RecvChunks
  <2>. QED
    BY <1>5, <2>2, <2>3, Quiet
<1>. QED
  BY <1>6, <1>7

\* The elements of a sequence.
LEMMA Elements ==
  ASSUME NEW S, NEW s \in Seq(S), NEW i \in 1..Len(s)
  PROVE  s[i] \in S
OBVIOUS

\* What WriteAt leaves in assembled.bin.
LEMMA Written ==
  ASSUME NEW asm \in Seq(0..Chunks), NEW o \in Nat, NEW u \in 1..Chunks
  PROVE  /\ WriteAt(asm, o, u) \in Seq(0..Chunks)
         /\ asm = Whole(o) /\ u = o + 1 => WriteAt(asm, o, u) = Whole(o + 1)
<1>. PICK n : n = Len(asm) /\ n \in Nat
  OBVIOUS
<1>. PICK k : k = (IF n > o THEN n ELSE o + 1) /\ k \in Nat
  OBVIOUS
<1>1. WriteAt(asm, o, u) = [i \in 1..k |-> IF i = o + 1 THEN u ELSE IF i <= n THEN asm[i] ELSE 0]
  BY DEF WriteAt
<1>2. \A i \in 1..k : (IF i = o + 1 THEN u ELSE IF i <= n THEN asm[i] ELSE 0) \in 0..Chunks
  <2>1. \A i \in 1..k : i <= n => asm[i] \in 0..Chunks
    <3>1. \A i \in 1..n : asm[i] \in 0..Chunks
      BY Zenon, Elements
    <3>2. \A i \in 1..k : i <= n => i \in 1..n
      OBVIOUS
    <3>. QED
      BY <3>1, <3>2
  <2>2. u \in 0..Chunks /\ 0 \in 0..Chunks
    BY UploadConstants
  <2>. QED
    BY <2>1, <2>2
<1>3. WriteAt(asm, o, u) \in Seq(0..Chunks)
  BY <1>1, <1>2
<1>4. ASSUME asm = Whole(o), u = o + 1 PROVE WriteAt(asm, o, u) = Whole(o + 1)
  <2>1. n = o /\ \A i \in 1..o : asm[i] = i
    BY <1>4 DEF Whole
  <2>2. k = o + 1
    BY <2>1
  <2>3. \A i \in 1..(o + 1) : (IF i = o + 1 THEN u ELSE IF i <= n THEN asm[i] ELSE 0) = i
    BY <1>4, <2>1
  <2>. QED
    BY <1>1, <2>2, <2>3 DEF Whole
<1>. QED
  BY <1>3, <1>4

\* An unmarked completion writes the next chunk behind those it has written.
LEMMA CopyStep ==
  ASSUME UploadInv, NEW t \in Transfers, Copy(t)
  PROVE  UploadInv'
<1>. PICK p : p = x[t]
  OBVIOUS
<1>1. /\ Sound(channel, p) /\ p \in TransferType /\ Shape(p) /\ Refers(channel, p) /\ Authorized(p)
      /\ Backward(channel) /\ DiskInv
      /\ p.pc = "copy" /\ p.next <= Chunks /\ p.kind = "chunks" /\ orphans \subseteq DOMAIN channel
  BY TransferOf DEF Copy, At, Shape
<1>2. p.next \in Nat \ {0} /\ p.off \in Nat /\ Chunks \in Nat /\ Opened(p) /\ HoldsOf(p) = {}
  BY <1>1, UploadConstants DEF Shape, TransferType, Opened, HoldsOf, Working
<1>3. UNCHANGED <<channel, gone, rows, down, del, orphans>>
  BY DEF Copy
<1>4. ASSUME NEW r \in TransferType, Become(t, r),
             r.kind = "chunks", r.pc = "copy", r.size = p.size, r.pos = p.pos, r.buf = p.buf,
             r.parts = p.parts, r.verified = p.verified, r.checked = p.checked, r.key = p.key,
             r.result = p.result, r.main = p.main, r.next = p.next + 1, r.shown = p.shown,
             r.stored = p.stored, p.mixed => r.mixed, r.cut = p.cut,
             DiskInv',
             ~ r.mixed => r.next = r.off + 1 /\ r.off <= Chunks /\ disk'.asm = Whole(r.off)
      PROVE  UploadInv'
  <2>1. Shape(r)
    BY <1>1, <1>2, <1>4 DEF Shape, Blank, Working, AfterStream
  <2>2. /\ Refers(channel, r) /\ Carries(channel, r) /\ Authorized(r) /\ HoldsOf(r) = {}
        /\ Keeps(p, r)
    BY <1>1, <1>4 DEF Refers, Carries, Authorized, HoldsOf, Keeps, Working
  <2>3. Sound(channel, r)
    BY <2>1, <2>2 DEF Sound
  <2>4. MixOK(t, r)
    BY <1>2, <1>4 DEF MixOK
  <2>. QED
    BY <1>1, <1>2, <1>3, <1>4, <2>2, <2>3, <2>4, GoesOn
<1>5. CASE /\ disk' = [disk EXCEPT !.asm = WriteAt(@, p.off, p.next)]
           /\ Become(t, [[p EXCEPT !.next = p.next + 1] EXCEPT !.off = @ + 1])
  <2>. DEFINE s == [p EXCEPT !.next = p.next + 1]
  <2>0. /\ s \in TransferType
        /\ s.kind = "chunks" /\ s.pc = "copy" /\ s.size = p.size /\ s.pos = p.pos /\ s.buf = p.buf
        /\ s.parts = p.parts /\ s.verified = p.verified /\ s.checked = p.checked /\ s.key = p.key
        /\ s.result = p.result /\ s.main = p.main /\ s.next = p.next + 1 /\ s.off = p.off
        /\ s.shown = p.shown
        /\ s.stored = p.stored /\ s.mixed = p.mixed /\ s.cut = p.cut
    <3>1. p.next + 1 \in Nat
      BY <1>2
    <3>. QED
      BY <1>1, <3>1 DEF TransferType
  <2>. DEFINE r == [s EXCEPT !.off = @ + 1]
  <2>1. /\ r \in TransferType
        /\ r.kind = "chunks" /\ r.pc = "copy" /\ r.size = p.size /\ r.pos = p.pos /\ r.buf = p.buf
        /\ r.parts = p.parts /\ r.verified = p.verified /\ r.checked = p.checked /\ r.key = p.key
        /\ r.result = p.result /\ r.main = p.main /\ r.next = p.next + 1 /\ r.off = p.off + 1
        /\ r.shown = p.shown
        /\ r.stored = p.stored /\ r.mixed = p.mixed /\ r.cut = p.cut
    <3>. HIDE DEF s
    <3>1. p.off + 1 \in Nat
      BY <1>2
    <3>. QED
      BY <2>0, <3>1 DEF TransferType
  <2>2. Become(t, r)
    BY <1>5
  <2>. HIDE DEF r, s
  <2>. PICK asm : asm = disk.asm
    OBVIOUS
  <2>3. asm \in Seq(0..Chunks) /\ p.next \in 1..Chunks
    BY <1>1, <1>2 DEF DiskInv
  <2>4. disk'.asm = WriteAt(asm, p.off, p.next) /\ disk' = [disk EXCEPT !.asm = WriteAt(asm, p.off, p.next)]
    BY <1>1, <1>5 DEF DiskInv
  <2>5. WriteAt(asm, p.off, p.next) \in Seq(0..Chunks)
    BY <1>2, <2>3, Written
  <2>6. DiskInv'
    BY <1>1, <2>4, <2>5 DEF DiskInv
  <2>7. ASSUME ~ p.mixed
        PROVE  p.next + 1 = p.off + 2 /\ p.off + 1 <= Chunks /\ disk'.asm = Whole(p.off + 1)
    <3>1. p.next = p.off + 1 /\ p.off <= Chunks /\ asm = Whole(p.off)
      BY <1>1, <1>2, <2>7 DEF UploadInv, MixInv, OpenAlone
    <3>2. p.off + 1 <= Chunks
      BY <1>1, <3>1
    <3>3. WriteAt(asm, p.off, p.next) = Whole(p.off + 1)
      BY <1>2, <2>3, <3>1, Written
    <3>. QED
      BY <1>2, <2>4, <3>1, <3>2, <3>3
  <2>. QED
    BY <1>2, <1>4, <2>1, <2>2, <2>6, <2>7
<1>6. CASE Become(t, [[p EXCEPT !.next = p.next + 1] EXCEPT !.mixed = TRUE]) /\ disk' = disk
  <2>. DEFINE s == [p EXCEPT !.next = p.next + 1]
  <2>0. /\ s \in TransferType
        /\ s.kind = "chunks" /\ s.pc = "copy" /\ s.size = p.size /\ s.pos = p.pos /\ s.buf = p.buf
        /\ s.parts = p.parts /\ s.verified = p.verified /\ s.checked = p.checked /\ s.key = p.key
        /\ s.result = p.result /\ s.main = p.main /\ s.next = p.next + 1 /\ s.off = p.off
        /\ s.shown = p.shown
        /\ s.stored = p.stored /\ s.mixed = p.mixed /\ s.cut = p.cut
    <3>1. p.next + 1 \in Nat
      BY <1>2
    <3>. QED
      BY <1>1, <3>1 DEF TransferType
  <2>. DEFINE r == [s EXCEPT !.mixed = TRUE]
  <2>1. /\ r \in TransferType
        /\ r.kind = "chunks" /\ r.pc = "copy" /\ r.size = p.size /\ r.pos = p.pos /\ r.buf = p.buf
        /\ r.parts = p.parts /\ r.verified = p.verified /\ r.checked = p.checked /\ r.key = p.key
        /\ r.result = p.result /\ r.main = p.main /\ r.next = p.next + 1
        /\ r.shown = p.shown
        /\ r.stored = p.stored /\ r.mixed /\ r.cut = p.cut
    <3>. HIDE DEF s
    <3>. QED
      BY <2>0 DEF TransferType
  <2>2. Become(t, r)
    BY <1>6
  <2>. HIDE DEF r, s
  <2>3. DiskInv'
    BY <1>1, <1>6 DEF DiskInv
  <2>. QED
    BY <1>4, <2>1, <2>2, <2>3
<1>7. CASE Become(t, Closed(p, "failed")) /\ disk' = disk
  <2>1. LET r == Closed(p, "failed") IN
        Sound(channel, r) /\ HoldsOf(r) = {} /\ Keeps(p, r) /\ ~ Opened(r)
    BY <1>1, ClosedSound
  <2>. QED
    BY <1>2, <1>3, <1>7, <2>1, Quiet
<1>. QED
  BY <1>5, <1>6, <1>7 DEF Copy, Close


\* A completion creates assembled.bin: whoever has it open is marked.
LEMMA CreateStep ==
  ASSUME UploadInv, NEW t \in Transfers, Create(t)
  PROVE  UploadInv'
<1>. PICK p : p = x[t]
  OBVIOUS
<1>1. /\ Sound(channel, p) /\ p \in TransferType /\ Shape(p) /\ Refers(channel, p) /\ Authorized(p)
      /\ Backward(channel) /\ DiskInv
      /\ p.pc = "create" /\ p.kind = "chunks" /\ ~ p.stored /\ orphans \subseteq DOMAIN channel
  BY TransferOf DEF Create, At, Shape
<1>2. HoldsOf(p) = {}
  BY <1>1 DEF HoldsOf, Working
<1>3. UNCHANGED <<channel, gone, rows, down, del, orphans>>
  BY DEF Create
<1>4. CASE ~ disk.dir
  <2>1. LET r == Closed(p, "failed") IN
        Sound(channel, r) /\ HoldsOf(r) = {} /\ Keeps(p, r) /\ ~ Opened(r)
    BY <1>1, ClosedSound
  <2>2. Become(t, Closed(p, "failed")) /\ UNCHANGED disk
    BY <1>4 DEF Create, Close
  <2>. QED
    BY <1>2, <1>3, <2>1, <2>2, Quiet
<1>5. CASE disk.dir
  <2>. DEFINE others == \E v \in Transfers : Opened(x[v])
              q == [p EXCEPT !.pc = "copy", !.next = 1, !.mixed = others]
  <2>1. /\ disk' = [disk EXCEPT !.asm = <<>>]
        /\ x' = [u \in Transfers |-> IF u = t THEN q ELSE [x[u] EXCEPT !.mixed = @ \/ Opened(x[u])]]
    BY <1>5 DEF Create, Open, Opened
  <2>. PICK o \in BOOLEAN : o = others
    OBVIOUS
  <2>2. /\ q \in TransferType
        /\ q.kind = "chunks" /\ q.pc = "copy" /\ q.size = p.size /\ q.pos = p.pos /\ q.buf = p.buf
        /\ q.parts = p.parts /\ q.verified = p.verified /\ q.checked = p.checked /\ q.key = p.key
        /\ q.result = p.result /\ q.main = p.main /\ q.off = p.off /\ q.next = 1
        /\ q.shown = p.shown /\ q.stored = p.stored /\ q.cut = p.cut /\ q.mixed = o
    <3>1. q = [p EXCEPT !.pc = "copy", !.next = 1, !.mixed = o] /\ "copy" \in Pcs
      BY DEF Pcs
    <3>. HIDE DEF q
    <3>. QED
      BY <1>1, <3>1 DEF TransferType
  <2>. HIDE DEF q
  <2>3. Shape(q)
    BY <1>1, <2>2, UploadConstants DEF Shape, Blank, Working, AfterStream
  <2>4. /\ Refers(channel, q) /\ Carries(channel, q) /\ Authorized(q)
        /\ HoldsOf(q) = {} /\ Keeps(p, q)
    BY <1>1, <2>2 DEF Refers, Carries, Authorized, HoldsOf, Keeps, Working
  <2>5. Sound(channel, q)
    BY <2>2, <2>3, <2>4 DEF Sound
  <2>6. ASSUME NEW u \in Transfers \ {t}
        PROVE  /\ x'[u] = IF Opened(x[u]) THEN Marked(x[u]) ELSE x[u]
               /\ Opened(x'[u]) => x'[u].mixed
    <3>1. x[u] \in TransferType /\ x'[u] = [x[u] EXCEPT !.mixed = @ \/ Opened(x[u])]
      BY <2>1, TransferOf
    <3>2. CASE Opened(x[u])
      BY <3>1, <3>2 DEF Marked, TransferType
    <3>3. CASE ~ Opened(x[u])
      <4>1. x'[u] = [x[u] EXCEPT !.mixed = @]
        BY <3>1, <3>3 DEF TransferType
      <4>2. x'[u] = x[u]
        BY <3>1, <4>1 DEF TransferType
      <4>. QED
        BY <3>3, <4>2
    <3>. QED
      BY <3>2, <3>3
  <2>7. x'[t] = q
    BY <2>1
  <2>8. NewMessages = {} /\ Sending
    BY <1>3 DEF NewMessages, Sending
  <2>9. Moves(t)
    <3>1. x' = [u \in Transfers |-> x'[u]]
      BY <2>1
    <3>. QED
      BY <1>1, <1>2, <1>3, <2>4, <2>5, <2>6, <2>7, <2>8, <3>1 DEF Moves
  <2>10. Unrecorded(t)
    BY <1>2, <1>3, <2>8 DEF Unrecorded
  <2>11. DiskInv' /\ disk'.asm = <<>>
    <3>1. <<>> \in Seq(0..Chunks)
      OBVIOUS
    <3>. QED
      BY <1>1, <2>1, <3>1 DEF DiskInv
  <2>12. MixInv'
    <3>1. OpenAlone(x', <<>>)
      <4>. SUFFICES ASSUME NEW u \in Transfers, Opened(x'[u]), ~ x'[u].mixed
                    PROVE  /\ \A v \in Transfers \ {u} : ~ Opened(x'[v])
                           /\ IF x'[u].pc = "copy"
                              THEN /\ x'[u].next = x'[u].off + 1 /\ x'[u].off <= Chunks
                                   /\ <<>> = Whole(x'[u].off)
                              ELSE x'[u].pos <= Chunks /\ <<>> = Whole(Chunks)
        BY Zenon DEF OpenAlone
      <4>1. u = t
        BY <2>6
      <4>2. \A v \in Transfers \ {t} : ~ Opened(x[v])
        BY <2>2, <2>7, <4>1
      <4>3. \A v \in Transfers \ {t} : ~ Opened(x'[v])
        BY <2>6, <4>2
      <4>4. q.off = 0 /\ Chunks \in Nat /\ Whole(0) = <<>>
        BY <1>1, <2>2, UploadConstants DEF Shape, Whole
      <4>. QED
        BY <2>2, <2>7, <4>1, <4>3, <4>4
    <3>. QED
      BY <2>11, <3>1 DEF MixInv
  <2>. QED
    BY <2>9, <2>10, <2>11, <2>12, TransferStep
<1>. QED
  BY <1>4, <1>5

\* The session is cleared away; the completion has nothing left in hand.
LEMMA CleanupStep ==
  ASSUME UploadInv, NEW t \in Transfers, Cleanup(t)
  PROVE  UploadInv'
<1>. PICK p : p = x[t]
  OBVIOUS
<1>1. /\ Sound(channel, p) /\ Backward(channel) /\ DiskInv /\ p.pc = "cleanup"
      /\ orphans \subseteq DOMAIN channel
  BY TransferOf DEF Cleanup, At
<1>2. HoldsOf(p) = {}
  BY <1>1 DEF HoldsOf, Working
<1>3. /\ UNCHANGED <<channel, gone, rows, down, del, orphans>> /\ Become(t, Closed(p, "done"))
      /\ disk' = [disk EXCEPT !.dir = FALSE, !.chunk = [i \in 1..Chunks |-> "none"]]
  BY DEF Cleanup, Close
<1>4. LET r == Closed(p, "done") IN
      Sound(channel, r) /\ HoldsOf(r) = {} /\ Keeps(p, r) /\ ~ Opened(r)
  BY <1>1, ClosedSound
<1>5. DiskInv' /\ disk'.asm = disk.asm
  BY <1>1, <1>3 DEF DiskInv
<1>6. MixOK(t, Closed(p, "done"))
  BY <1>4, <1>5 DEF MixOK
<1>. QED
  BY <1>1, <1>2, <1>3, <1>4, <1>5, <1>6, GoesOn

\* A transfer holds no more than the messages that a failure leaves behind.
LEMMA HeldThere ==
  ASSUME UploadInv, NEW t \in Transfers
  PROVE  HoldsOf(x[t]) \subseteq Held(t) /\ Held(t) \subseteq DOMAIN channel
<1>1. /\ Refers(channel, x[t]) /\ Len(channel) \in Nat /\ DOMAIN channel = 1..Len(channel)
  BY TransferOf
<1>. QED
  BY <1>1 DEF HoldsOf, Held, Refers

\* A failure leaves behind what the transfer held.
LEMMA FailStep ==
  ASSUME UploadInv, NEW t \in Transfers, Fail(t)
  PROVE  UploadInv'
<1>. PICK p : p = x[t]
  OBVIOUS
<1>1. /\ Sound(channel, p) /\ Backward(channel) /\ DiskInv /\ p.pc # "idle"
      /\ orphans \subseteq DOMAIN channel
  BY TransferOf DEF Fail
<1>2. /\ HoldsOf(p) \subseteq Held(t) /\ Held(t) \subseteq DOMAIN channel
      /\ p.pc = "cleanup" => HoldsOf(p) = {}
  BY HeldThere DEF HoldsOf, Working
<1>3. UNCHANGED <<channel, gone, rows, disk, down, del>>
  BY DEF Fail
<1>4. orphans \cup HoldsOf(p) \subseteq orphans' /\ orphans' \subseteq DOMAIN channel
  BY <1>1, <1>2 DEF Fail, At
<1>5. PICK r : /\ Become(t, r)
               /\ Sound(channel, r) /\ HoldsOf(r) = {} /\ Keeps(p, r) /\ ~ Opened(r)
  <2>1. LET r == Closed(p, "failed") IN
        Sound(channel, r) /\ HoldsOf(r) = {} /\ Keeps(p, r) /\ ~ Opened(r)
    BY <1>1, ClosedSound
  <2>2. LET r == Broken(p) IN
        Sound(channel, r) /\ HoldsOf(r) = {} /\ Keeps(p, r) /\ ~ Opened(r)
    BY <1>1, BrokenSound
  <2>. QED
    BY <2>1, <2>2 DEF Fail, Close
<1>6. MixOK(t, r) /\ DiskInv'
  BY <1>1, <1>3, <1>5 DEF MixOK, DiskInv
<1>. QED
  BY <1>3, <1>4, <1>5, <1>6, GoesOn

\* The row takes over what the transfer held.
LEMMA RecordStep ==
  ASSUME UploadInv, NEW t \in Transfers, Record(t)
  PROVE  UploadInv'
<1>. PICK p : p = x[t]
  OBVIOUS
<1>1. /\ Sound(channel, p) /\ p \in TransferType /\ Shape(p) /\ Refers(channel, p)
      /\ Authorized(p) /\ Carries(channel, p)
      /\ Backward(channel) /\ DiskInv /\ Len(channel) \in Nat /\ DOMAIN channel = 1..Len(channel)
      /\ p.pc = "record" /\ orphans \subseteq DOMAIN channel
  BY TransferOf DEF Record, At
<1>. DEFINE row == [main |-> p.main, size |-> p.pos, by |-> t]
            q == [p EXCEPT !.stored = TRUE]
<1>2. /\ UNCHANGED <<channel, gone, disk, down, del, orphans>> /\ rows' = rows \cup {row}
      /\ Become(t, CASE q.kind = "form" -> [q EXCEPT !.pc = "fields", !.result = "ok"]
                     [] q.kind = "chunks" -> [q EXCEPT !.pc = "cleanup"]
                     [] OTHER -> Closed(q, "done"))
  BY DEF Record
<1>3. /\ q \in TransferType /\ q.stored
      /\ q.kind = p.kind /\ q.pc = "record" /\ q.size = p.size /\ q.pos = p.pos /\ q.buf = p.buf
      /\ q.parts = p.parts /\ q.verified = p.verified /\ q.checked = p.checked /\ q.key = p.key
      /\ q.result = p.result /\ q.main = p.main
      /\ q.shown = p.shown /\ q.mixed = p.mixed /\ q.cut = p.cut
  BY <1>1 DEF TransferType
<1>. HIDE DEF q
<1>4. p.kind \in {"form", "bytes"} => p.checked \/ "good" \in p.shown
  BY <1>1 DEF Authorized, Working
<1>5. PICK r : /\ Become(t, r) /\ Sound(channel, r) /\ HoldsOf(r) = {} /\ Keeps(p, r) /\ ~ Opened(r)
               /\ r.stored /\ r.size = p.size /\ r.mixed = p.mixed /\ r.cut = p.cut
  <2>1. CASE p.kind = "form"
    <3>. DEFINE r == [q EXCEPT !.pc = "fields", !.result = "ok"]
    <3>1. /\ r \in TransferType /\ r.stored
          /\ r.kind = p.kind /\ r.pc = "fields" /\ r.size = p.size /\ r.pos = p.pos /\ r.buf = p.buf
          /\ r.parts = p.parts /\ r.verified = p.verified /\ r.checked = p.checked
          /\ r.key = p.key /\ r.result = "ok" /\ r.main = p.main
          /\ r.shown = p.shown /\ r.mixed = p.mixed /\ r.cut = p.cut
      <4>1. "fields" \in Pcs
        BY DEF Pcs
      <4>. QED
        BY <1>3, <4>1 DEF TransferType
    <3>2. Become(t, r)
      BY <1>2, <1>3, <2>1
    <3>. HIDE DEF r
    <3>3. Shape(r)
      BY <1>1, <2>1, <3>1 DEF Shape, Working, AfterStream
    <3>4. /\ Refers(channel, r) /\ Carries(channel, r) /\ Authorized(r) /\ HoldsOf(r) = {}
          /\ Keeps(p, r) /\ ~ Opened(r)
      BY <1>1, <1>4, <2>1, <3>1 DEF Refers, Carries, Authorized, HoldsOf, Keeps, Opened, Working
    <3>5. Sound(channel, r)
      BY <3>1, <3>3, <3>4 DEF Sound
    <3>. QED
      BY <3>1, <3>2, <3>4, <3>5
  <2>2. CASE p.kind = "chunks"
    <3>. DEFINE r == [q EXCEPT !.pc = "cleanup"]
    <3>1. /\ r \in TransferType /\ r.stored
          /\ r.kind = p.kind /\ r.pc = "cleanup" /\ r.size = p.size /\ r.pos = p.pos /\ r.buf = p.buf
          /\ r.parts = p.parts /\ r.verified = p.verified /\ r.checked = p.checked
          /\ r.key = p.key /\ r.result = p.result /\ r.main = p.main
          /\ r.shown = p.shown /\ r.mixed = p.mixed /\ r.cut = p.cut
      <4>1. "cleanup" \in Pcs
        BY DEF Pcs
      <4>. QED
        BY <1>3, <4>1 DEF TransferType
    <3>2. Become(t, r)
      BY <1>2, <1>3, <2>2
    <3>. HIDE DEF r
    <3>3. Shape(r)
      BY <1>1, <2>2, <3>1 DEF Shape, Working, AfterStream
    <3>4. /\ Refers(channel, r) /\ Carries(channel, r) /\ Authorized(r) /\ HoldsOf(r) = {}
          /\ Keeps(p, r) /\ ~ Opened(r)
      BY <1>1, <1>4, <2>2, <3>1 DEF Refers, Carries, Authorized, HoldsOf, Keeps, Opened, Working
    <3>5. Sound(channel, r)
      BY <3>1, <3>3, <3>4 DEF Sound
    <3>. QED
      BY <3>1, <3>2, <3>4, <3>5
  <2>3. CASE p.kind \notin {"form", "chunks"}
    <3>1. Become(t, Closed(q, "done"))
      BY <1>2, <1>3, <2>3
    <3>2. Shape(q)
      BY <1>1, <1>3, <2>3 DEF Shape, Working, AfterStream, Blank
    <3>3. Refers(channel, q) /\ Carries(channel, q) /\ Authorized(q)
      BY <1>1, <1>3, <1>4, <2>3 DEF Refers, Carries, Authorized
    <3>4. Sound(channel, q)
      BY <1>3, <3>2, <3>3 DEF Sound
    <3>5. LET r == Closed(q, "done") IN
          Sound(channel, r) /\ HoldsOf(r) = {} /\ Keeps(q, r) /\ ~ Opened(r)
      BY <1>1, <1>3, <3>4, ClosedSound
    <3>6. LET r == Closed(q, "done") IN
          r.stored /\ r.size = p.size /\ r.mixed = p.mixed /\ r.cut = p.cut
      BY <1>3 DEF Closed, TransferType
    <3>7. Keeps(p, Closed(q, "done"))
      BY <3>6 DEF Keeps
    <3>. QED
      BY <3>1, <3>5, <3>6, <3>7
  <2>. QED
    BY <2>1, <2>2, <2>3
<1>6. x' = [u \in Transfers |-> IF u = t THEN r ELSE x[u]]
  BY <1>5 DEF Become, UploadInv, Transferring
<1>7. NewMessages = {} /\ Sending
  BY <1>2 DEF NewMessages, Sending
<1>8. x'[t] = r /\ \A u \in Transfers \ {t} : x'[u] = x[u]
  BY <1>6
<1>9. Moves(t)
  BY <1>1, <1>2, <1>5, <1>6, <1>7, <1>8 DEF Moves
<1>10. MessagesIn(channel, p.main) = HoldsOf(p) /\ p.main \in DOMAIN channel
  BY <1>1 DEF Refers, MessagesIn, HoldsOf, Working
<1>11. row \in Row /\ row.main = p.main /\ row.size = p.pos /\ row.by = t
  BY <1>1 DEF Row, TransferType
<1>12. RowOK(channel, x', row)
  <2>1. ~ p.mixed => Holding(channel, p.main, p.pos)
    BY <1>1 DEF Carries, Working
  <2>2. ~ p.mixed /\ ~ p.cut => p.pos = p.size
    BY <1>1 DEF Shape, AfterStream
  <2>. QED
    BY <1>5, <1>8, <1>10, <1>11, <2>1, <2>2 DEF RowOK
<1>13. Recorded(t)
  BY <1>2, <1>5, <1>8, <1>10, <1>11, <1>12 DEF Recorded
<1>14. MixOK(t, r) /\ DiskInv'
  BY <1>1, <1>2, <1>5 DEF MixOK, DiskInv
<1>15. MixInv'
  BY <1>5, <1>14, MixKept
<1>. QED
  BY <1>9, <1>13, <1>14, <1>15, TransferStep


-----------------------------------------------------------------------------
(* Steps of transfer t that send a message.                                *)

\* The step of a message: q is what t becomes when it arrives.
LEMMA SendsStep ==
  ASSUME UploadInv, NEW t \in Transfers, x[t].pc # "idle", NEW q,
         NEW m \in Message, Range(m.parts) \subseteq DOMAIN channel, Sends(t, m, q),
         Sound(Append(channel, m), q), Keeps(x[t], q),
         HoldsOf(q) = HoldsOf(x[t]) \cup {Len(channel) + 1},
         Opened(q) => /\ Opened(x[t]) /\ x[t].pc # "copy" /\ q.pc # "copy"
                      /\ q.mixed = x[t].mixed /\ q.pos = x[t].pos
  PROVE  UploadInv'
<1>. PICK p : p = x[t]
  OBVIOUS
<1>. PICK d : d = Append(channel, m)
  OBVIOUS
<1>. PICK n : n = Len(channel) + 1
  OBVIOUS
<1>1. /\ Sound(channel, p) /\ Backward(channel) /\ DiskInv /\ orphans \subseteq DOMAIN channel
      /\ HoldsOf(p) \subseteq Held(t) /\ Held(t) \subseteq DOMAIN channel
  BY TransferOf, HeldThere
<1>2. /\ Backward(d) /\ Grown(channel, d) /\ DOMAIN d \ DOMAIN channel = {n}
      /\ DOMAIN channel \subseteq DOMAIN d /\ n \in DOMAIN d
  <2>. /\ Backward(d) /\ Grown(channel, d) /\ Len(channel) \in Nat
       /\ DOMAIN channel = 1..Len(channel) /\ DOMAIN d = 1..(Len(channel) + 1)
       /\ DOMAIN d \ DOMAIN channel = {Len(channel) + 1}
    BY <1>1, ChannelAppend
  <2>. QED
    OBVIOUS
<1>3. UNCHANGED <<gone, rows, disk, down, del>>
  BY DEF Sends
<1>4. DiskInv'
  BY <1>1, <1>3 DEF DiskInv
<1>5. Sound(channel, Broken(p)) /\ HoldsOf(Broken(p)) = {} /\ Keeps(p, Broken(p)) /\ ~ Opened(Broken(p))
  BY <1>1, BrokenSound
<1>6. CASE channel' = d /\ Become(t, q) /\ UNCHANGED orphans
  <2>1. NewMessages = {n} /\ Sending
    BY <1>2, <1>6 DEF NewMessages, Sending
  <2>2. MixOK(t, q)
    BY <1>3 DEF MixOK, UploadInv, MixInv, OpenAlone
  <2>3. Sound(channel', q)
    BY <1>6
  <2>. QED
    BY <1>1, <1>2, <1>3, <1>4, <1>6, <2>1, <2>2, <2>3, MovesOn
<1>7. CASE Become(t, Broken(p)) /\ orphans' = orphans \cup Held(t) /\ UNCHANGED channel
  <2>1. MixOK(t, Broken(p))
    BY <1>3, <1>5 DEF MixOK
  <2>. QED
    BY <1>1, <1>3, <1>4, <1>5, <1>7, <2>1, GoesOn
<1>8. CASE Become(t, Broken(p)) /\ channel' = d /\ orphans' = orphans \cup Held(t) \cup {n}
  <2>1. NewMessages = {n} /\ Sending
    BY <1>2, <1>8 DEF NewMessages, Sending
  <2>2. MixOK(t, Broken(p))
    BY <1>3, <1>5 DEF MixOK
  <2>3. Sound(d, Broken(p))
    BY <1>1, <1>2, <1>5, SoundStays
  <2>4. Sound(channel', Broken(p))
    BY <1>8, <2>3
  <2>. QED
    BY <1>1, <1>2, <1>3, <1>4, <1>5, <1>8, <2>1, <2>2, <2>4, MovesOn
<1>. QED
  BY <1>6, <1>7, <1>8 DEF Sends

\* A part holds the slice of the bytes that follows those sent before.
LEMMA SendPartStep ==
  ASSUME UploadInv, NEW t \in Transfers, SendPart(t)
  PROVE  UploadInv'
<1>. PICK p : p = x[t]
  OBVIOUS
<1>. PICK n : n = Len(channel) + 1
  OBVIOUS
<1>1. /\ Sound(channel, p) /\ p \in TransferType /\ Shape(p) /\ Refers(channel, p)
      /\ Authorized(p) /\ Carries(channel, p) /\ Backward(channel)
      /\ Len(channel) \in Nat /\ DOMAIN channel = 1..Len(channel) /\ p.pc \in {"part", "last"}
  BY TransferOf DEF SendPart
<1>. DEFINE m == [units |-> p.buf, parts |-> <<>>]
            d == Append(channel, m)
            q == [p EXCEPT !.parts = Append(@, n), !.buf = <<>>,
                           !.pc = IF @ = "part" THEN "recv" ELSE "manifest"]
<1>2. Sends(t, m, q)
  BY DEF SendPart
<1>3. m \in Message /\ Range(m.parts) \subseteq DOMAIN channel /\ m.units = p.buf
  BY <1>1 DEF Message, Range, TransferType
<1>4. p.parts \in Seq(Nat) /\ Append(p.parts, n) \in Seq(Nat) /\ Append(p.parts, n) # <<>>
      /\ Range(Append(p.parts, n)) = Range(p.parts) \cup {n}
  <2>. PICK s : s = p.parts /\ s \in Seq(Nat) /\ n \in Nat
    BY <1>1 DEF TransferType
  <2>. PICK l : l = Len(s) /\ l \in Nat /\ DOMAIN s = 1..l
    OBVIOUS
  <2>1. /\ Append(s, n) \in Seq(Nat) /\ DOMAIN Append(s, n) = 1..(l + 1) /\ Append(s, n)[l + 1] = n
        /\ \A i \in 1..l : Append(s, n)[i] = s[i]
    OBVIOUS
  <2>2. l + 1 \in 1..(l + 1) /\ \A i \in 1..(l + 1) : i \in 1..l \/ i = l + 1
    OBVIOUS
  <2>3. Range(Append(s, n)) = Range(s) \cup {n}
    BY <2>1, <2>2 DEF Range
  <2>4. Append(s, n) # <<>>
    BY <2>1, <2>2
  <2>. QED
    BY <2>1, <2>3, <2>4
<1>5. /\ q \in TransferType
      /\ q.kind = p.kind /\ q.size = p.size /\ q.pos = p.pos /\ q.buf = <<>>
      /\ q.pc = (IF p.pc = "part" THEN "recv" ELSE "manifest")
      /\ q.parts = Append(p.parts, n) /\ q.verified = p.verified /\ q.checked = p.checked
      /\ q.key = p.key /\ q.result = p.result /\ q.main = p.main
      /\ q.shown = p.shown /\ q.mixed = p.mixed /\ q.cut = p.cut /\ q.stored = p.stored
  <2>. PICK pc \in Pcs : pc = (IF p.pc = "part" THEN "recv" ELSE "manifest")
    BY DEF Pcs, Working
  <2>1. q = [p EXCEPT !.parts = Append(p.parts, n), !.buf = <<>>, !.pc = pc]
    BY <1>1 DEF TransferType
  <2>. PICK ps \in Seq(Nat) : ps = Append(p.parts, n)
    BY <1>4
  <2>2. q = [p EXCEPT !.parts = ps, !.buf = <<>>, !.pc = pc] /\ <<>> \in Seq(Nat)
    BY <2>1
  <2>. HIDE DEF q
  <2>3. q \in TransferType
    BY <1>1, <2>2 DEF TransferType
  <2>4. /\ q.kind = p.kind /\ q.size = p.size /\ q.pos = p.pos /\ q.buf = <<>> /\ q.pc = pc
        /\ q.parts = ps /\ q.verified = p.verified /\ q.checked = p.checked
        /\ q.key = p.key /\ q.result = p.result /\ q.main = p.main
        /\ q.shown = p.shown /\ q.mixed = p.mixed /\ q.cut = p.cut /\ q.stored = p.stored
    BY <1>1, <2>2 DEF TransferType
  <2>. QED
    BY Zenon, <2>3, <2>4
<1>. HIDE DEF q
<1>6. /\ Backward(d) /\ Grown(channel, d) /\ d[n] = m /\ Len(d) = n /\ DOMAIN d = 1..n
  BY <1>1, <1>3, ChannelAppend
<1>. HIDE DEF d, m
<1>7. Shape(q)
  BY <1>1, <1>4, <1>5, UploadConstants DEF Shape, Working, AfterStream
<1>8. Refers(d, q)
  <2>1. Range(q.parts) \subseteq DOMAIN d /\ p.main \in 0..n
    BY <1>1, <1>4, <1>5, <1>6 DEF Refers
  <2>. QED
    BY <1>5, <1>6, <2>1 DEF Refers
<1>9. Carries(d, q)
  <2>. SUFFICES ASSUME ~ p.mixed
                PROVE  \E k \in 0..q.pos : Carried(d, q.parts, k) /\ q.buf = Slice(k, q.pos)
    BY <1>5 DEF Carries
  <2>1. PICK k \in 0..p.pos : Carried(channel, p.parts, k) /\ p.buf = Slice(k, p.pos)
    BY <1>1 DEF Carries, Working
  <2>2. p.pos \in Nat /\ k \in Nat /\ k <= p.pos /\ n \in Nat
    BY <1>1 DEF TransferType
  <2>3. d[n].units = Slice(k, p.pos)
    BY <1>3, <1>6, <2>1
  <2>4. \A j \in Range(p.parts) : d[j] = channel[j]
    BY <1>1, <1>6 DEF Refers, Grown
  <2>5. Carried(d, Append(p.parts, n), p.pos)
    BY <1>4, <2>1, <2>2, <2>3, <2>4, CarriedExtend
  <2>6. Slice(p.pos, p.pos) = <<>> /\ p.pos \in 0..p.pos
    BY <2>2, NoSlice
  <2>. QED
    BY <1>5, <2>5, <2>6
<1>10. Authorized(q) /\ Keeps(p, q) /\ HoldsOf(q) = HoldsOf(p) \cup {n}
  BY <1>1, <1>4, <1>5 DEF Authorized, Keeps, HoldsOf, Working
<1>11. Sound(d, q)
  BY <1>5, <1>7, <1>8, <1>9, <1>10 DEF Sound
<1>12. Opened(q) => /\ Opened(p) /\ p.pc # "copy" /\ q.pc # "copy"
                    /\ q.mixed = p.mixed /\ q.pos = p.pos
  BY <1>1, <1>5 DEF Opened
<1>. QED
  BY <1>1, <1>2, <1>3, <1>10, <1>11, <1>12, SendsStep DEF d

\* The last message of a file: it becomes the main one, and what it holds is the whole.
LEMMA SendMain ==
  ASSUME UploadInv, NEW t \in Transfers, x[t].pc \in {"single", "manifest"},
         NEW m \in Message, m.parts = x[t].parts,
         x[t].pc = "single" => m.units = x[t].buf,
         Sends(t, m, [x[t] EXCEPT !.main = Len(channel) + 1, !.pc = "record"])
  PROVE  UploadInv'
<1>. PICK p : p = x[t]
  OBVIOUS
<1>. PICK n : n = Len(channel) + 1
  OBVIOUS
<1>1. /\ Sound(channel, p) /\ p \in TransferType /\ Shape(p) /\ Refers(channel, p)
      /\ Authorized(p) /\ Carries(channel, p) /\ Backward(channel)
      /\ Len(channel) \in Nat /\ DOMAIN channel = 1..Len(channel) /\ n \in Nat /\ n # 0
  BY TransferOf
<1>. DEFINE d == Append(channel, m)
            q == [p EXCEPT !.main = n, !.pc = "record"]
<1>2. Range(m.parts) \subseteq DOMAIN channel
  BY <1>1 DEF Refers
<1>3. /\ q \in TransferType
      /\ q.kind = p.kind /\ q.size = p.size /\ q.pos = p.pos /\ q.buf = p.buf /\ q.pc = "record"
      /\ q.parts = p.parts /\ q.verified = p.verified /\ q.checked = p.checked
      /\ q.key = p.key /\ q.result = p.result /\ q.main = n
      /\ q.shown = p.shown /\ q.mixed = p.mixed /\ q.cut = p.cut /\ q.stored = p.stored
  <2>1. "record" \in Pcs
    BY DEF Pcs, Working
  <2>. QED
    BY <1>1, <2>1 DEF TransferType
<1>4. Sends(t, m, q)
  OBVIOUS
<1>. HIDE DEF q
<1>5. /\ Backward(d) /\ Grown(channel, d) /\ d[n] = m /\ Len(d) = n /\ DOMAIN d = 1..n
      /\ DOMAIN channel \subseteq DOMAIN d
  BY <1>1, <1>2, ChannelAppend
<1>. HIDE DEF d
<1>6. Shape(q)
  BY <1>1, <1>3 DEF Shape, Working, AfterStream
<1>7. Refers(d, q)
  BY <1>1, <1>3, <1>5 DEF Refers
<1>8. Carries(d, q)
  <2>. SUFFICES ASSUME ~ p.mixed PROVE Holding(d, n, p.pos)
    BY <1>3 DEF Carries
  <2>1. PICK k \in 0..p.pos : Carried(channel, p.parts, k) /\ p.buf = Slice(k, p.pos)
    BY <1>1 DEF Carries, Working
  <2>2. p.pos \in Nat /\ k \in Nat /\ k <= p.pos /\ p.parts \in Seq(Nat)
    BY <1>1 DEF TransferType
  <2>3. CASE p.pc = "single"
    <3>1. p.parts = <<>>
      BY <1>1, <2>3 DEF Shape
    <3>2. k = 0
      BY <2>1, <3>1, CarriedNone
    <3>3. p.buf = Whole(p.pos)
      BY <2>1, <2>2, <3>2, Slices
    <3>. QED
      BY <1>5, <2>3, <3>1, <3>3 DEF Holding
  <2>4. CASE p.pc = "manifest"
    <3>1. p.parts # <<>> /\ Slice(k, p.pos) = <<>>
      BY <1>1, <2>1, <2>4 DEF Shape
    <3>2. k = p.pos
      BY <2>2, <3>1, Slices
    <3>3. \A j \in Range(p.parts) : d[j] = channel[j]
      BY <1>1, <1>5 DEF Refers, Grown
    <3>4. Carried(d, p.parts, p.pos)
      BY <2>1, <2>2, <3>2, <3>3, CarriedStays
    <3>. QED
      BY <1>5, <3>1, <3>4 DEF Holding
  <2>. QED
    BY <2>3, <2>4
<1>9. Authorized(q) /\ Keeps(p, q) /\ HoldsOf(q) = HoldsOf(p) \cup {n} /\ ~ Opened(q)
  BY <1>1, <1>3 DEF Authorized, Keeps, HoldsOf, Opened, Working, Shape
<1>10. Sound(d, q)
  BY <1>3, <1>6, <1>7, <1>8, <1>9 DEF Sound
<1>. QED
  BY <1>2, <1>4, <1>9, <1>10, SendsStep DEF d

\* The only message of a small file holds the whole of it.
LEMMA SendSingleStep ==
  ASSUME UploadInv, NEW t \in Transfers, SendSingle(t)
  PROVE  UploadInv'
<1>1. /\ x[t] \in TransferType /\ Shape(x[t]) /\ x[t].pc = "single"
  BY TransferOf DEF SendSingle, At
<1>. DEFINE m == [units |-> x[t].buf, parts |-> <<>>]
<1>2. m \in Message /\ m.parts = x[t].parts /\ m.units = x[t].buf
  BY <1>1 DEF Message, TransferType, Shape
<1>3. Sends(t, m, [x[t] EXCEPT !.main = Len(channel) + 1, !.pc = "record"])
  BY DEF SendSingle
<1>. HIDE DEF m
<1>. QED
  BY <1>1, <1>2, <1>3, SendMain

\* The manifest names the messages that together hold the whole.
LEMMA SendManifestStep ==
  ASSUME UploadInv, NEW t \in Transfers, SendManifest(t)
  PROVE  UploadInv'
<1>1. /\ x[t] \in TransferType /\ x[t].pc = "manifest"
  BY TransferOf DEF SendManifest, At
<1>. DEFINE m == [units |-> <<>>, parts |-> x[t].parts]
<1>2. m \in Message /\ m.parts = x[t].parts
  BY <1>1 DEF Message, TransferType
<1>3. Sends(t, m, [x[t] EXCEPT !.main = Len(channel) + 1, !.pc = "record"])
  BY DEF SendManifest
<1>. HIDE DEF m
<1>. QED
  BY <1>1, <1>2, <1>3, SendMain


-----------------------------------------------------------------------------
(* The session, downloads and deletions.                                   *)

\* Steps that leave everything but the chunk files alone.
LEMMA SessionStep ==
  ASSUME UploadInv,
         UNCHANGED <<channel, gone, rows, x, down, del, orphans>>,
         \/ disk' = disk
         \/ disk' = [disk EXCEPT !.dir = TRUE]
         \/ \E i \in 1..Chunks, c \in {"torn", "full"} : disk' = [disk EXCEPT !.chunk[i] = c]
  PROVE  UploadInv'
<1>1. DiskInv
  BY DEF UploadInv
<1>2. DiskInv' /\ disk'.asm = disk.asm
  BY <1>1 DEF DiskInv
<1>3. /\ ChannelInv' /\ Transferring' /\ MixInv' /\ RowsInv'
  BY <1>2 DEF UploadInv, ChannelInv, Transferring, MixInv, RowsInv
<1>4. ApartInv' /\ TracedInv' /\ DelInv' /\ DownInv'
  BY DEF UploadInv, ApartInv, Filed, TracedInv, DelInv, DownInv
<1>. QED
  BY <1>2, <1>3, <1>4 DEF UploadInv

\* Steps that leave everything but the download alone.
LEMMA DownloadStep ==
  ASSUME UploadInv, UNCHANGED <<channel, gone, rows, x, disk, del, orphans>>, DownInv'
  PROVE  UploadInv'
<1>1. ChannelInv' /\ DiskInv' /\ Transferring' /\ MixInv' /\ RowsInv'
  BY DEF UploadInv, ChannelInv, DiskInv, Transferring, MixInv, RowsInv
<1>2. ApartInv' /\ TracedInv' /\ DelInv'
  BY DEF UploadInv, ApartInv, Filed, TracedInv, DelInv
<1>. QED
  BY <1>1, <1>2 DEF UploadInv

\* The parts of a message are a sequence.
LEMMA PartsOf ==
  ASSUME UploadInv, NEW m \in DOMAIN channel
  PROVE  channel[m].parts \in Seq(Nat)
<1>1. channel[m] \in Message
  BY DEF UploadInv, ChannelInv, Backward
<1>. QED
  BY <1>1 DEF Message

\* A download begins with nothing delivered and every part to fetch.
LEMMA StartDownloadStep ==
  ASSUME UploadInv, StartDownload
  PROVE  UploadInv'
<1>1. PICK r \in rows :
        /\ channel[r.main].parts # <<>>
        /\ down' = [pc |-> "stream", row |-> r, todo |-> channel[r.main].parts, got |-> <<>>]
  BY DEF StartDownload
<1>2. r.main \in DOMAIN channel
  BY DEF UploadInv, RowsInv, RowOK
<1>3. UNCHANGED <<channel, gone, rows, x, disk, del, orphans>>
  BY DEF StartDownload
<1>. PICK P : P = channel[r.main].parts /\ P \in Seq(Nat)
  BY <1>2, PartsOf
<1>4. 0 \in 0..Len(P) /\ P = SubSeq(P, 0 + 1, Len(P)) /\ SubSeq(P, 1, 0) = <<>>
  OBVIOUS
<1>5. Joined(channel, SubSeq(P, 1, 0)) = <<>>
  BY <1>4, JoinedNone
<1>6. DownInv'
  BY <1>1, <1>2, <1>3, <1>4, <1>5 DEF DownInv
<1>. QED
  BY <1>3, <1>6, DownloadStep

\* Nothing is left of a sequence after its first k elements: these are all.
LEMMA NoRest ==
  ASSUME NEW P \in Seq(Nat), NEW k \in 0..Len(P), SubSeq(P, k + 1, Len(P)) = <<>>
  PROVE  SubSeq(P, 1, k) = P
<1>. PICK n : n = Len(P) /\ n \in Nat
  OBVIOUS
<1>1. Len(SubSeq(P, k + 1, n)) = n - k
  OBVIOUS
<1>2. n - k = 0
  BY <1>1
<1>3. k = n
  BY <1>2
<1>. QED
  BY <1>3

\* Something is left: the next element is its first.
LEMMA RestOf ==
  ASSUME NEW P \in Seq(Nat), NEW k \in 0..Len(P), NEW todo,
         todo = SubSeq(P, k + 1, Len(P)), todo # <<>>
  PROVE  /\ k + 1 \in 0..Len(P) /\ Head(todo) = P[k + 1]
         /\ Tail(todo) = SubSeq(P, k + 2, Len(P))
         /\ SubSeq(P, 1, k + 1) = Append(SubSeq(P, 1, k), P[k + 1])
         /\ SubSeq(P, 1, k) \in Seq(Nat) /\ P[k + 1] \in Nat
<1>. PICK n : n = Len(P) /\ n \in Nat /\ DOMAIN P = 1..n
  OBVIOUS
<1>1. /\ todo \in Seq(Nat) /\ Len(todo) = n - k
      /\ \A i \in 1..(n - k) : todo[i] = P[k + i]
  OBVIOUS
<1>2. k + 1 \in 1..n /\ k + 1 \in 0..n /\ k \in Nat
  BY <1>1
<1>3. Head(todo) = P[k + 1] /\ P[k + 1] \in Nat
  BY <1>1, <1>2
<1>4. Tail(todo) = SubSeq(P, k + 2, n)
  BY <1>1, <1>2
<1>5. SubSeq(P, 1, k + 1) = Append(SubSeq(P, 1, k), P[k + 1]) /\ SubSeq(P, 1, k) \in Seq(Nat)
  BY <1>2
<1>. QED
  BY <1>2, <1>3, <1>4, <1>5

\* A download delivers the part that follows those delivered, or breaks off.
LEMMA FetchPartStep ==
  ASSUME UploadInv, FetchPart
  PROVE  UploadInv'
<1>1. /\ UNCHANGED <<channel, gone, rows, x, disk, del, orphans>>
      /\ down.pc = "stream" /\ down.todo # <<>> /\ DownInv
  BY DEF FetchPart, UploadInv
<1>. PICK P : P = channel[down.row.main].parts
  OBVIOUS
<1>2. down.row.main \in DOMAIN channel /\ P # <<>>
  BY <1>1 DEF DownInv
<1>3. P \in Seq(Nat)
  BY <1>2, PartsOf
<1>4. CASE down' = [down EXCEPT !.todo = Tail(@), !.got = @ \o channel[Head(down.todo)].units]
  <2>1. PICK k \in 0..Len(P) : /\ down.todo = SubSeq(P, k + 1, Len(P))
                               /\ down.got = Joined(channel, SubSeq(P, 1, k))
    BY <1>1 DEF DownInv
  <2>2. /\ k + 1 \in 0..Len(P) /\ Head(down.todo) = P[k + 1]
        /\ Tail(down.todo) = SubSeq(P, k + 2, Len(P))
        /\ SubSeq(P, 1, k + 1) = Append(SubSeq(P, 1, k), P[k + 1])
        /\ SubSeq(P, 1, k) \in Seq(Nat) /\ P[k + 1] \in Nat
    <3>. PICK todo : todo = down.todo
      OBVIOUS
    <3>1. todo # <<>> /\ todo = SubSeq(P, k + 1, Len(P))
      BY <1>1, <2>1
    <3>2. /\ k + 1 \in 0..Len(P) /\ Head(todo) = P[k + 1]
          /\ Tail(todo) = SubSeq(P, k + 2, Len(P))
          /\ SubSeq(P, 1, k + 1) = Append(SubSeq(P, 1, k), P[k + 1])
          /\ SubSeq(P, 1, k) \in Seq(Nat) /\ P[k + 1] \in Nat
      BY ZenonT(60), <1>3, <3>1, RestOf
    <3>. QED
      BY Zenon, <3>2
  <2>3. Joined(channel, SubSeq(P, 1, k + 1)) = down.got \o channel[Head(down.todo)].units
    BY <2>1, <2>2, JoinedAppend
  <2>4. /\ down' = [pc |-> down'.pc, row |-> down'.row, todo |-> down'.todo, got |-> down'.got]
        /\ down'.pc = "stream" /\ down'.row = down.row
        /\ down'.todo = SubSeq(P, k + 2, Len(P))
        /\ down'.got = Joined(channel, SubSeq(P, 1, k + 1))
    BY <1>1, <1>4, <2>2, <2>3 DEF DownInv
  <2>5. (k + 1) + 1 = k + 2
    OBVIOUS
  <2>6. DownInv'
    BY <1>1, <1>2, <2>2, <2>4, <2>5 DEF DownInv
  <2>. QED
    BY <1>1, <2>6, DownloadStep
<1>5. CASE \E g : down' = [down EXCEPT !.pc = "broken", !.got = g]
  <2>1. DownInv'
    BY <1>1, <1>2, <1>5 DEF DownInv
  <2>. QED
    BY <1>1, <2>1, DownloadStep
<1>. QED
  BY <1>4, <1>5 DEF FetchPart

\* A download that has nothing left to fetch has delivered everything.
LEMMA EndDownloadStep ==
  ASSUME UploadInv, EndDownload
  PROVE  UploadInv'
<1>1. /\ UNCHANGED <<channel, gone, rows, x, disk, del, orphans>>
      /\ down.pc = "stream" /\ down.todo = <<>> /\ DownInv /\ down' = [down EXCEPT !.pc = "ended"]
  BY DEF EndDownload, UploadInv
<1>. PICK P : P = channel[down.row.main].parts
  OBVIOUS
<1>2. down.row.main \in DOMAIN channel /\ P # <<>>
  BY <1>1 DEF DownInv
<1>3. P \in Seq(Nat)
  BY <1>2, PartsOf
<1>4. PICK k \in 0..Len(P) : /\ down.todo = SubSeq(P, k + 1, Len(P))
                             /\ down.got = Joined(channel, SubSeq(P, 1, k))
  BY <1>1 DEF DownInv
<1>5. down.got = Joined(channel, P)
  <2>1. SubSeq(P, 1, k) = P
    BY <1>1, <1>3, <1>4, NoRest
  <2>. QED
    BY <1>4, <2>1
<1>6. DownInv'
  BY <1>1, <1>2, <1>5 DEF DownInv
<1>. QED
  BY <1>1, <1>6, DownloadStep

\* Steps of the deletion before the row is gone: what is deleted, or left, is of that row.
LEMMA DeletionStep ==
  ASSUME UploadInv, UNCHANGED <<channel, rows, x, disk, down>>,
         del'.pc # "idle", Filed' = Filed, del'.row \in rows \/ del'.row = del.row,
         del.pc # "idle" => del'.row = del.row,
         gone \subseteq gone', orphans \subseteq orphans',
         gone' \cup orphans' \subseteq DOMAIN channel,
         gone' \subseteq gone \cup MessagesIn(channel, del'.row.main),
         DelInv'
  PROVE  UploadInv'
<1>1. ChannelInv' /\ DiskInv' /\ Transferring' /\ MixInv' /\ RowsInv' /\ DownInv'
  BY DEF UploadInv, ChannelInv, DiskInv, Transferring, MixInv, RowsInv, DownInv
<1>2. gone' \subseteq MessagesIn(channel, del'.row.main)
  BY DEF UploadInv, ApartInv
<1>3. ApartInv'
  BY <1>2 DEF UploadInv, ApartInv
<1>4. TracedInv'
  BY DEF UploadInv, TracedInv
<1>. QED
  BY <1>1, <1>3, <1>4 DEF UploadInv

\* A deletion that cannot read the manifest leaves the parts behind.
LEMMA StartDeleteStep ==
  ASSUME UploadInv, StartDelete
  PROVE  UploadInv'
<1>1. PICK r \in rows :
        \/ /\ del' = [pc |-> "parts", row |-> r, todo |-> Range(channel[r.main].parts)]
           /\ UNCHANGED orphans
        \/ /\ del' = [pc |-> "parts", row |-> r, todo |-> {}]
           /\ orphans' = orphans \cup Range(channel[r.main].parts)
  BY DEF StartDelete
<1>2. UNCHANGED <<channel, gone, rows, x, disk, down>> /\ del.pc = "idle"
  BY DEF StartDelete
<1>3. /\ r \in Row /\ r.main \in DOMAIN channel /\ Backward(channel)
      /\ gone \cup orphans \subseteq DOMAIN channel
  BY DEF UploadInv, RowsInv, RowOK, ChannelInv
<1>4. MessagesIn(channel, r.main) \subseteq DOMAIN channel
  BY <1>3, MessagesThere DEF Grown, Backward
<1>5. Range(channel[r.main].parts) \subseteq DOMAIN channel
  BY <1>4 DEF MessagesIn
<1>6. DelInv'
  BY <1>1, <1>2, <1>3 DEF DelInv
<1>7. Filed' = Filed /\ del'.row = r /\ del'.pc # "idle"
  BY <1>1, <1>2 DEF Filed
<1>. QED
  BY <1>1, <1>2, <1>3, <1>5, <1>6, <1>7, DeletionStep

\* A part is deleted, or left behind.
LEMMA DeletePartStep ==
  ASSUME UploadInv, DeletePart
  PROVE  UploadInv'
<1>1. PICK m \in del.todo :
        /\ del' = [del EXCEPT !.todo = @ \ {m}]
        /\ \/ gone' = gone \cup {m} /\ UNCHANGED orphans
           \/ orphans' = orphans \cup {m} /\ UNCHANGED gone
  BY DEF DeletePart
<1>2. UNCHANGED <<channel, rows, x, disk, down>> /\ del.pc = "parts"
  BY DEF DeletePart
<1>3. /\ DelInv /\ del.row.main \in DOMAIN channel /\ Backward(channel)
      /\ m \in Range(channel[del.row.main].parts)
      /\ gone \cup orphans \subseteq DOMAIN channel
  BY <1>2 DEF UploadInv, DelInv, ChannelInv
<1>4. m \in MessagesIn(channel, del.row.main) /\ m \in DOMAIN channel
  BY <1>3, MessagesThere DEF Grown, Backward, MessagesIn
<1>5. /\ del' = [pc |-> del'.pc, row |-> del'.row, todo |-> del'.todo]
      /\ del'.pc = "parts" /\ del'.row = del.row /\ del'.todo = del.todo \ {m}
  BY <1>1, <1>2, <1>3 DEF DelInv
<1>6. DelInv'
  BY <1>1, <1>2, <1>3, <1>5 DEF DelInv
<1>7. Filed' = Filed
  BY <1>2, <1>5 DEF Filed
<1>. QED
  BY <1>1, <1>2, <1>3, <1>4, <1>5, <1>6, <1>7, DeletionStep

\* The main message is deleted, or left behind, after all the parts.
LEMMA DeleteMainStep ==
  ASSUME UploadInv, DeleteMain
  PROVE  UploadInv'
<1>1. /\ del' = [del EXCEPT !.pc = "row"]
      /\ \/ gone' = gone \cup {del.row.main} /\ UNCHANGED orphans
         \/ orphans' = orphans \cup {del.row.main} /\ UNCHANGED gone
  BY DEF DeleteMain
<1>2. UNCHANGED <<channel, rows, x, disk, down>> /\ del.pc = "parts" /\ del.todo = {}
  BY DEF DeleteMain
<1>3. /\ DelInv /\ del.row.main \in DOMAIN channel
      /\ gone \cup orphans \subseteq DOMAIN channel
  BY <1>2 DEF UploadInv, DelInv, ChannelInv
<1>4. del.row.main \in MessagesIn(channel, del.row.main)
  BY DEF MessagesIn
<1>5. /\ del' = [pc |-> del'.pc, row |-> del'.row, todo |-> del'.todo]
      /\ del'.pc = "row" /\ del'.row = del.row
  BY <1>1, <1>3 DEF DelInv
<1>6. MessagesIn(channel, del.row.main) \subseteq gone' \cup orphans'
  BY <1>1, <1>2, <1>3 DEF DelInv, MessagesIn
<1>7. DelInv'
  BY <1>2, <1>3, <1>5, <1>6 DEF DelInv
<1>8. Filed' = Filed
  BY <1>2, <1>5 DEF Filed
<1>. QED
  BY <1>1, <1>2, <1>3, <1>4, <1>5, <1>7, <1>8, DeletionStep

\* The row goes when none of its messages is left without a note.
LEMMA DeleteRowStep ==
  ASSUME UploadInv, DeleteRow
  PROVE  UploadInv'
<1>1. /\ UNCHANGED <<channel, gone, x, disk, down, orphans>> /\ del.pc = "row"
      /\ rows' = rows \ {del.row} /\ del' = [del EXCEPT !.pc = "done"]
  BY DEF DeleteRow
<1>2. /\ del' = [pc |-> del'.pc, row |-> del'.row, todo |-> del'.todo]
      /\ del'.pc = "done" /\ del'.row = del.row
  BY <1>1 DEF UploadInv, DelInv
<1>3. ChannelInv' /\ DiskInv' /\ Transferring' /\ MixInv' /\ RowsInv' /\ DownInv'
  BY <1>1 DEF UploadInv, ChannelInv, DiskInv, Transferring, MixInv, RowsInv, DownInv
<1>4. DelInv'
  BY <1>1, <1>2 DEF UploadInv, DelInv
<1>5. Filed' = Filed
  BY <1>1, <1>2 DEF Filed
<1>6. ApartInv'
  BY <1>1, <1>2, <1>5 DEF UploadInv, ApartInv
<1>7. TracedInv'
  <2>1. MessagesIn(channel, del.row.main) \subseteq gone \cup orphans
    BY <1>1 DEF UploadInv, DelInv
  <2>. QED
    BY <1>1, <2>1 DEF UploadInv, TracedInv
<1>. QED
  BY <1>3, <1>4, <1>6, <1>7 DEF UploadInv


-----------------------------------------------------------------------------
(* The invariant holds, and what follows from it.                          *)

\* It holds at the start, when nothing has been sent.
LEMMA InvInit == Init => UploadInv
<1>. SUFFICES ASSUME Init PROVE UploadInv
  OBVIOUS
<1>1. PICK L \in Loads : x = [t \in Transfers |-> [Idle EXCEPT !.kind = L[t]]]
  BY DEF Init
<1>2. /\ channel = <<>> /\ gone = {} /\ rows = {} /\ orphans = {}
      /\ disk = [dir |-> FALSE, chunk |-> [i \in 1..Chunks |-> "none"], asm |-> <<>>]
      /\ down = [pc |-> "idle", row |-> None, todo |-> <<>>, got |-> <<>>]
      /\ del = [pc |-> "idle", row |-> None, todo |-> {}]
  BY DEF Init
<1>3. ChannelInv
  BY <1>2 DEF ChannelInv, Backward
<1>4. DiskInv
  <2>1. <<>> \in Seq(0..Chunks) /\ [i \in 1..Chunks |-> "none"] \in [1..Chunks -> {"none", "torn", "full"}]
    OBVIOUS
  <2>. QED
    BY <1>2, <2>1 DEF DiskInv
<1>5. ASSUME NEW t \in Transfers
      PROVE  Sound(channel, x[t]) /\ HoldsOf(x[t]) = {} /\ ~ Opened(x[t])
  <2>. DEFINE q == x[t]
  <2>1. q = [Idle EXCEPT !.kind = L[t]] /\ L[t] \in {"form", "body", "chunks", "none"}
    BY <1>1, UploadConstants
  <2>2. /\ <<>> \in Seq(Nat) /\ <<>> \in Seq({"file", "good", "bad"}) /\ "idle" \in Pcs
        /\ {} \in SUBSET {"good", "bad"}
    BY DEF Pcs
  <2>. HIDE DEF q
  <2>3. /\ q \in TransferType
        /\ q.kind = L[t] /\ q.pc = "idle" /\ q.pos = 0 /\ q.buf = <<>> /\ q.parts = <<>>
        /\ q.main = 0 /\ q.result = "none" /\ q.off = 0 /\ q.stored = FALSE
        /\ q.verified = FALSE /\ q.key = "none"
    BY <2>1, <2>2 DEF Idle, TransferType
  <2>4. Shape(q)
    BY <2>1, <2>3, UploadConstants DEF Shape, Blank, Working, AfterStream
  <2>5. Refers(channel, q)
    BY <1>2, <2>3 DEF Refers, Range
  <2>6. Carries(channel, q) /\ Authorized(q) /\ HoldsOf(q) = {} /\ ~ Opened(q)
    BY <2>1, <2>3 DEF Carries, Authorized, HoldsOf, Opened, Working
  <2>. QED
    BY <2>3, <2>4, <2>5, <2>6 DEF Sound, q
<1>6. Transferring /\ MixInv
  BY <1>1, <1>5 DEF Transferring, MixInv, OpenAlone
<1>7. RowsInv /\ ApartInv /\ TracedInv
  BY <1>2, <1>5 DEF RowsInv, ApartInv, Filed, TracedInv
<1>8. DelInv /\ DownInv
  BY <1>2 DEF DelInv, DownInv
<1>. QED
  BY <1>3, <1>4, <1>6, <1>7, <1>8 DEF UploadInv

\* Every step keeps it.
LEMMA InvNext == UploadInv /\ [Next]_vars => UploadInv'
<1>. SUFFICES ASSUME UploadInv, [Next]_vars PROVE UploadInv'
  OBVIOUS
<1>1. CASE UNCHANGED vars
  BY <1>1, SessionStep DEF vars
<1>2. ASSUME NEW t \in Transfers, StartForm(t) \/ StartBody(t) \/ StartComplete(t)
      PROVE  UploadInv'
  BY <1>2, StartFormStep, StartBodyStep, StartCompleteStep
<1>3. ASSUME NEW t \in Transfers, KeyField(t) \/ FileField(t) \/ EndForm(t)
      PROVE  UploadInv'
  BY <1>3, KeyFieldStep, FileFieldStep, EndFormStep
<1>4. ASSUME NEW t \in Transfers, Create(t) \/ Copy(t) \/ Reopen(t)
      PROVE  UploadInv'
  BY <1>4, CreateStep, CopyStep, ReopenStep
<1>5. ASSUME NEW t \in Transfers, RecvForm(t) \/ RecvBody(t) \/ RecvChunks(t)
      PROVE  UploadInv'
  BY <1>5, RecvFormStep, RecvBodyStep, RecvChunksStep
<1>6. ASSUME NEW t \in Transfers, SendPart(t) \/ SendSingle(t) \/ SendManifest(t)
      PROVE  UploadInv'
  BY <1>6, SendPartStep, SendSingleStep, SendManifestStep
<1>7. ASSUME NEW t \in Transfers, Record(t) \/ Cleanup(t) \/ Fail(t)
      PROVE  UploadInv'
  BY <1>7, RecordStep, CleanupStep, FailStep
<1>8. CASE InitSession
  BY <1>8, SessionStep DEF InitSession
<1>9. ASSUME NEW i \in 1..Chunks, StartChunk(i) \/ EndChunk(i)
      PROVE  UploadInv'
  BY <1>9, SessionStep DEF StartChunk, EndChunk
<1>10. CASE StartDownload \/ FetchPart \/ EndDownload
  BY <1>10, StartDownloadStep, FetchPartStep, EndDownloadStep
<1>11. CASE StartDelete \/ DeletePart \/ DeleteMain \/ DeleteRow
  BY <1>11, StartDeleteStep, DeletePartStep, DeleteMainStep, DeleteRowStep
<1>. QED
  BY <1>1, <1>2, <1>3, <1>4, <1>5, <1>6, <1>7, <1>8, <1>9, <1>10, <1>11 DEF Next

\* The inductive invariant holds of every behaviour.
THEOREM UploadInvHolds == Spec => []UploadInv
<1>. QED
  BY InvInit, InvNext, PTL DEF Spec

\* The variables hold what they are for, and ids refer to messages that exist, however
\* many transfers run at once.
THEOREM UploadsTyped == Spec => []TypeOK
<1>1. UploadInv => TypeOK
  <2>. SUFFICES ASSUME UploadInv PROVE TypeOK
    OBVIOUS
  <2>1. \A i \in DOMAIN channel :
          channel[i].units \in Seq(Nat) /\ Range(channel[i].parts) \subseteq 1..(i - 1)
    <3>. TAKE i \in DOMAIN channel
    <3>1. channel[i] \in Message /\ Range(channel[i].parts) \subseteq 1..(i - 1)
      BY DEF UploadInv, ChannelInv, Backward
    <3>. QED
      BY <3>1 DEF Message
  <2>2. gone \cup orphans \subseteq DOMAIN channel
    BY DEF UploadInv, ChannelInv
  <2>3. \A r \in rows : r.main \in DOMAIN channel /\ r.size \in Nat /\ r.by \in Transfers
    BY DEF UploadInv, RowsInv, RowOK, Row
  <2>4. \A t \in Transfers : Len(x[t].buf) <= Part /\ Held(t) \subseteq DOMAIN channel
    BY TransferOf, HeldThere DEF Shape
  <2>5. disk.dir \in BOOLEAN /\ disk.asm \in Seq(0..Chunks)
    BY DEF UploadInv, DiskInv
  <2>. QED
    BY <2>1, <2>2, <2>3, <2>4, <2>5 DEF TypeOK
<1>. QED
  BY <1>1, UploadInvHolds, PTL

\* What a message holds is what a reader of it puts together.
LEMMA HoldingRead ==
  ASSUME UploadInv, NEW m \in DOMAIN channel, NEW n, Holding(channel, m, n)
  PROVE  Content(m) = Whole(n)
<1>1. channel[m].parts \in Seq(Nat)
  BY PartsOf
<1>2. channel[m].parts # <<>> => Joined(channel, channel[m].parts) = Whole(n)
  BY <1>1, CarriedJoined DEF Holding
<1>. QED
  BY <1>2, ContentSpelled DEF Holding

\* What is recorded can be read back as a whole, and stays in the channel until its row
\* is deleted, whatever else is uploaded, fails or is deleted.
THEOREM RecordedUploadsAreWhole == Spec => []RecordedWhole
<1>1. UploadInv => RecordedWhole
  <2>. SUFFICES ASSUME UploadInv, NEW r \in rows
                PROVE  LET q == x[r.by] IN
                       /\ del.row # r => Messages(r.main) \cap gone = {}
                       /\ ~ (q.cut \/ q.mixed) => Content(r.main) = Whole(q.size) /\ r.size = q.size
    BY DEF RecordedWhole
  <2>1. ASSUME del.row # r PROVE Messages(r.main) \cap gone = {}
    <3>1. r \in Filed /\ (del.pc # "idle" => del.row \in Filed)
      BY DEF Filed
    <3>2. del.pc # "idle" => MessagesIn(channel, r.main) \cap MessagesIn(channel, del.row.main) = {}
      BY <2>1, <3>1 DEF UploadInv, ApartInv
    <3>3. MessagesIn(channel, r.main) \cap gone = {}
      BY <3>2 DEF UploadInv, ApartInv
    <3>. QED
      BY <3>3 DEF Messages, MessagesIn
  <2>2. ASSUME ~ (x[r.by].cut \/ x[r.by].mixed)
        PROVE  Content(r.main) = Whole(x[r.by].size) /\ r.size = x[r.by].size
    <3>1. r.main \in DOMAIN channel /\ Holding(channel, r.main, r.size) /\ r.size = x[r.by].size
      BY <2>2 DEF UploadInv, RowsInv, RowOK
    <3>2. Content(r.main) = Whole(r.size)
      BY <3>1, HoldingRead
    <3>. QED
      BY <3>1, <3>2
  <2>. QED
    BY <2>1, <2>2
<1>. QED
  BY <1>1, UploadInvHolds, PTL

\* A form stores nothing without a session, a key in its headers or the right key among
\* its fields, whatever fields it has.
THEOREM FormsNeedTheKey == Spec => []FormNeedsKey
<1>1. UploadInv => FormNeedsKey
  <2>. SUFFICES ASSUME UploadInv, NEW r \in rows, x[r.by].kind \in {"form", "bytes"}
                PROVE  x[r.by].checked \/ "good" \in x[r.by].shown
    BY DEF FormNeedsKey
  <2>1. x[r.by].stored /\ r.by \in Transfers
    BY DEF UploadInv, RowsInv, RowOK, Row
  <2>. QED
    BY <2>1, TransferOf DEF Authorized
<1>. QED
  BY <1>1, UploadInvHolds, PTL

\* A download that ends without an error has delivered the whole file.
THEOREM DownloadsAreWhole == Spec => []DownloadWhole
<1>1. UploadInv => DownloadWhole
  <2>. SUFFICES ASSUME UploadInv, down.pc = "ended" PROVE down.got = Content(down.row.main)
    BY DEF DownloadWhole
  <2>1. /\ channel[down.row.main].parts # <<>>
        /\ down.got = Joined(channel, channel[down.row.main].parts)
    BY DEF UploadInv, DownInv
  <2>. QED
    BY <2>1, ContentSpelled
<1>. QED
  BY <1>1, UploadInvHolds, PTL

\* No message is forgotten: a row leads to it, a transfer works on it, or a failure that
\* is known left it behind.
THEOREM NothingIsForgotten == Spec => []NoSilentOrphan
<1>1. UploadInv => NoSilentOrphan
  <2>. SUFFICES ASSUME UploadInv, NEW m \in DOMAIN channel \ (gone \cup orphans)
                PROVE  \/ \E r \in rows : m \in Messages(r.main)
                       \/ \E t \in Transfers :
                            m \in Held(t) /\ x[t].pc \notin {"done", "failed", "refused"}
    BY DEF NoSilentOrphan
  <2>1. CASE \E r \in rows : m \in MessagesIn(channel, r.main)
    BY <2>1 DEF Messages, MessagesIn
  <2>2. CASE \E t \in Transfers : m \in HoldsOf(x[t])
    BY <2>2 DEF HoldsOf, Held, Working
  <2>. QED
    BY <2>1, <2>2 DEF UploadInv, TracedInv
<1>. QED
  BY <1>1, UploadInvHolds, PTL

\* A step that clears the session away is one of a completion that has recorded its file.
THEOREM SessionsAreKept == Spec => SessionKeptUntilRecorded
<1>1. ASSUME UploadInv, [Next]_vars, disk.dir, ~ disk'.dir
      PROVE  \E t \in Transfers : x[t].kind = "chunks" /\ x[t].stored
  <2>1. PICK t \in Transfers : Cleanup(t)
    <3>1. disk = [dir |-> disk.dir, chunk |-> disk.chunk, asm |-> disk.asm]
      BY <1>1 DEF UploadInv, DiskInv
    <3>2. disk' # disk
      BY <1>1
    <3>3. \A t \in Transfers : (Create(t) \/ Copy(t)) => disk'.dir = disk.dir
      BY <3>1, <3>2 DEF Create, Copy
    <3>4. InitSession => disk'.dir
      BY <3>1 DEF InitSession
    <3>5. \A i \in 1..Chunks : (StartChunk(i) \/ EndChunk(i)) => disk'.dir = disk.dir
      BY <3>1 DEF StartChunk, EndChunk
    <3>6. \A t \in Transfers : SendPart(t) \/ SendSingle(t) \/ SendManifest(t) => disk' = disk
      BY DEF SendPart, SendSingle, SendManifest, Sends
    <3>7. \A t \in Transfers :
            (\/ StartForm(t) \/ StartBody(t) \/ StartComplete(t) \/ KeyField(t) \/ FileField(t)
             \/ EndForm(t) \/ Reopen(t) \/ RecvForm(t) \/ RecvBody(t) \/ RecvChunks(t)
             \/ Record(t) \/ Fail(t)) => disk' = disk
      BY DEF StartForm, StartBody, StartComplete, KeyField, FileField, EndForm, Reopen,
             RecvForm, RecvBody, RecvChunks, Record, Fail
    <3>8. (\/ StartDownload \/ FetchPart \/ EndDownload
           \/ StartDelete \/ DeletePart \/ DeleteMain \/ DeleteRow) => disk' = disk
      BY DEF StartDownload, FetchPart, EndDownload, StartDelete, DeletePart, DeleteMain, DeleteRow
    <3>. QED
      BY <1>1, <3>2, <3>3, <3>4, <3>5, <3>6, <3>7, <3>8 DEF Next, vars
  <2>2. Shape(x[t]) /\ x[t].pc = "cleanup"
    BY <1>1, <2>1, TransferOf DEF Cleanup, At
  <2>. QED
    BY <2>2 DEF Shape
<1>2. UploadInv /\ [Next]_vars =>
        [disk.dir /\ ~ disk'.dir => \E t \in Transfers : x[t].kind = "chunks" /\ x[t].stored]_vars
  BY <1>1
<1>. QED
  BY <1>2, UploadInvHolds, PTL DEF Spec, SessionKeptUntilRecorded
=============================================================================
