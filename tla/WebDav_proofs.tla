---------------------------- MODULE WebDav_proofs ----------------------------
(***************************************************************************)
(* Proofs about the requests of the file API, of WebDAV and of the bot over  *)
(* the tables files and folder_settings, for any number of requests, files,  *)
(* folders and databases to start from.                                     *)
(***************************************************************************)
EXTENDS WebDav, SequenceTheorems, FiniteSetTheorems, WellFoundedInduction, TLAPS

(***************************************************************************)
(* Folders as sequences.                                                   *)

\* A bounded set of numbers that is not empty has a greatest one.
LEMMA GreatestOf ==
  ASSUME NEW n \in Nat, NEW S \in SUBSET (1..n), S # {}
  PROVE  \E i \in S : \A j \in S : j <= i
<1>. DEFINE T == {k..n : k \in S}
<1>1. T \subseteq FiniteSubsetsOf(Nat)
  <2>. SUFFICES ASSUME NEW k \in S PROVE k..n \in FiniteSubsetsOf(Nat)
    OBVIOUS
  <2>1. k \in Nat /\ k..n \subseteq Nat
    OBVIOUS
  <2>2. IsFiniteSet(k..n)
    BY <2>1, FS_Interval
  <2>. QED
    BY <2>1, <2>2 DEF FiniteSubsetsOf
<1>2. T # {}
  OBVIOUS
<1>3. PICK x \in T : \A y \in T : <<y, x>> \notin StrictSubsetOrdering(Nat)
  BY <1>1, <1>2, WFMin, FS_StrictSubsetOrderingWellFounded
<1>4. PICK i \in S : x = i..n
  OBVIOUS
<1>5. ASSUME NEW j \in S PROVE j <= i
  <2>1. <<j..n, i..n>> \notin StrictSubsetOrdering(Nat)
    BY <1>3, <1>4
  <2>2. i \in Nat /\ j \in Nat /\ i <= n /\ j <= n
    OBVIOUS
  <2>3. CASE i < j
    <3>1. j..n \in SUBSET Nat /\ i..n \in SUBSET Nat /\ j..n \subseteq i..n
      BY <2>2, <2>3
    <3>2. i \in i..n /\ i \notin j..n
      BY <2>2, <2>3
    <3>. QED
      BY <2>1, <3>1, <3>2 DEF StrictSubsetOrdering
  <2>. QED
    BY <2>2, <2>3
<1>. QED
  BY <1>5

\* What is above a folder is a folder.
LEMMA Above ==
  ASSUME NEW p \in Folders
  PROVE  /\ p \in Seq(Names) /\ Len(p) \in Nat /\ DOMAIN p = 1..Len(p)
         /\ (p = <<>> <=> Len(p) = 0)
         /\ SubSeq(p, 1, Len(p)) = p
         /\ \A i \in 0..Len(p) : /\ SubSeq(p, 1, i) \in Folders
                                 /\ Len(SubSeq(p, 1, i)) = i
                                 /\ \A j \in 1..i : SubSeq(p, 1, i)[j] = p[j]
         /\ \A i \in 1..Len(p) : SubSeq(p, 1, i) \in Folders \ {<<>>}
<1>1. p \in Seq(Names)
  BY FileConstants
<1>2. Len(p) \in Nat /\ DOMAIN p = 1..Len(p) /\ (p = <<>> <=> Len(p) = 0)
  BY <1>1, LenProperties, EmptySeq
<1>3. SubSeq(p, 1, Len(p)) = p
  BY <1>1, SubSeqFull
<1>4. ASSUME NEW i \in 0..Len(p)
      PROVE  /\ SubSeq(p, 1, i) \in Folders
             /\ Len(SubSeq(p, 1, i)) = i
             /\ \A j \in 1..i : SubSeq(p, 1, i)[j] = p[j]
  <2>1. SubSeq(p, 1, i) \in Folders
    BY FileConstants
  <2>2. \A j \in 1..i : p[j] \in Names
    BY <1>1, <1>2, ElementOfSeq
  <2>3. /\ Len(SubSeq(p, 1, i)) = IF 1 <= i THEN i - 1 + 1 ELSE 0
        /\ \A j \in 1..(i - 1 + 1) : SubSeq(p, 1, i)[j] = p[1 + j - 1]
    <3>1. i \in Int /\ 1 \in Int
      OBVIOUS
    <3>. QED
      BY <2>2, <3>1, SubSeqProperties
  <2>. QED
    BY <2>1, <2>3, <1>2
<1>5. ASSUME NEW i \in 1..Len(p) PROVE SubSeq(p, 1, i) \in Folders \ {<<>>}
  <2>1. Len(SubSeq(p, 1, i)) = i /\ SubSeq(p, 1, i) \in Folders /\ i # 0
    BY <1>2, <1>4
  <2>. QED
    BY <2>1, EmptySeq
<1>. QED
  BY <1>1, <1>2, <1>3, <1>4, <1>5

\* The folder above a folder lies above it, with all that lie above itself.
LEMMA FrontIsAbove ==
  ASSUME NEW p \in Folders, p # <<>>
  PROVE  /\ Front(p) \in Folders /\ Len(Front(p)) = Len(p) - 1 /\ Len(p) >= 1
         /\ \A i \in 0..(Len(p) - 1) : SubSeq(Front(p), 1, i) = SubSeq(p, 1, i)
<1>1. Len(p) \in Nat /\ Len(p) >= 1 /\ Len(p) - 1 \in 0..Len(p)
  BY Above
<1>2. Front(p) \in Folders /\ Len(Front(p)) = Len(p) - 1
  BY <1>1, Above DEF Front
<1>3. ASSUME NEW i \in 0..(Len(p) - 1) PROVE SubSeq(Front(p), 1, i) = SubSeq(p, 1, i)
  <2>1. /\ SubSeq(Front(p), 1, i) \in Seq(Names) /\ Len(SubSeq(Front(p), 1, i)) = i
        /\ SubSeq(p, 1, i) \in Seq(Names) /\ Len(SubSeq(p, 1, i)) = i
    <3>1. i \in 0..Len(Front(p)) /\ i \in 0..Len(p)
      BY <1>1, <1>2
    <3>. QED
      BY <1>2, <3>1, Above
  <2>2. \A j \in 1..i : SubSeq(Front(p), 1, i)[j] = Front(p)[j]
    BY <1>1, <1>2, Above
  <2>3. \A j \in 1..i : Front(p)[j] = p[j]
    BY <1>1, Above DEF Front
  <2>4. \A j \in 1..i : SubSeq(p, 1, i)[j] = p[j]
    BY <1>1, Above
  <2>. QED
    BY <2>1, <2>2, <2>3, <2>4, SeqEqual
<1>. QED
  BY <1>1, <1>2, <1>3

\* A folder lies below those above it, and only below them.
LEMMA BelowIsAbove ==
  ASSUME NEW p \in Folders
  PROVE  /\ \A i \in 0..Len(p) : Below(SubSeq(p, 1, i), p)
         /\ \A x \in Folders : Below(x, p) <=> \E i \in 0..Len(p) : x = SubSeq(p, 1, i)
<1>1. \A i \in 0..Len(p) : Below(SubSeq(p, 1, i), p)
  <2>. SUFFICES ASSUME NEW i \in 0..Len(p) PROVE Below(SubSeq(p, 1, i), p)
    OBVIOUS
  <2>1. SubSeq(p, 1, i) \in Folders /\ Len(SubSeq(p, 1, i)) = i /\ Len(p) \in Nat
    BY Above
  <2>2. SubSeq(SubSeq(p, 1, i), 1, i) = SubSeq(p, 1, i)
    BY <2>1, Above
  <2>. QED
    BY <2>1, <2>2 DEF Below, IsPrefix
<1>2. ASSUME NEW x \in Folders, Below(x, p) PROVE \E i \in 0..Len(p) : x = SubSeq(p, 1, i)
  <2>1. Len(x) \in Nat /\ Len(p) \in Nat /\ SubSeq(x, 1, Len(x)) = x
    BY Above
  <2>2. Len(x) <= Len(p) /\ x = SubSeq(p, 1, Len(x))
    BY <1>2, <2>1 DEF Below, IsPrefix
  <2>3. Len(x) \in 0..Len(p)
    BY <2>1, <2>2
  <2>. QED
    BY <2>2, <2>3
<1>. QED
  BY <1>1, <1>2

\* What lies below a folder that lies below another lies below that one.
LEMMA BelowTrans ==
  ASSUME NEW x \in Folders, NEW y \in Folders, NEW z \in Folders, Below(x, y), Below(y, z)
  PROVE  Below(x, z)
<1>1. Len(x) \in Nat /\ Len(y) \in Nat /\ Len(z) \in Nat
  BY Above
<1>2. PICK i \in 0..Len(y) : x = SubSeq(y, 1, i)
  BY BelowIsAbove
<1>3. PICK j \in 0..Len(z) : y = SubSeq(z, 1, j)
  BY BelowIsAbove
<1>4. Len(y) = j /\ i <= j /\ i \in 0..Len(z)
  <2>1. Len(y) = j
    BY <1>3, Above
  <2>. QED
    BY <1>1, <1>2, <2>1
<1>5. x = SubSeq(z, 1, i)
  <2>1. /\ x \in Seq(Names) /\ Len(x) = i
        /\ SubSeq(z, 1, i) \in Seq(Names) /\ Len(SubSeq(z, 1, i)) = i
    <3>1. x \in Seq(Names) /\ SubSeq(z, 1, i) \in Seq(Names)
      BY <1>4, Above, FileConstants
    <3>2. Len(x) = i
      BY <1>2, Above
    <3>3. Len(SubSeq(z, 1, i)) = i
      BY <1>4, Above
    <3>. QED
      BY <3>1, <3>2, <3>3
  <2>2. \A k \in 1..i : x[k] = y[k]
    BY <1>2, Above
  <2>3. \A k \in 1..j : y[k] = z[k]
    BY <1>3, Above
  <2>4. \A k \in 1..i : SubSeq(z, 1, i)[k] = z[k]
    BY <1>4, Above
  <2>5. \A k \in 1..i : k \in 1..j
    BY <1>1, <1>4
  <2>. QED
    BY <2>1, <2>2, <2>3, <2>4, <2>5, SeqEqual
<1>. QED
  BY <1>4, <1>5, BelowIsAbove

(***************************************************************************)
(* The visibility that a folder inherits.                                  *)

\* The folders above p that have a visibility, by their lengths.
Shown(p) == {i \in 1..Len(p) : setting[SubSeq(p, 1, i)] # "none"}

\* The greatest of the lengths is what the definition chooses.
LEMMA NearestIs ==
  ASSUME NEW p \in Folders
  PROVE  /\ Shown(p) = {} => Nearest(p) = "public"
         /\ Shown(p) # {} =>
              \E i \in Shown(p) : /\ \A j \in Shown(p) : j <= i
                                  /\ Nearest(p) = setting[SubSeq(p, 1, i)]
         /\ \A i \in Shown(p) : (\A j \in Shown(p) : j <= i) =>
                                  Nearest(p) = setting[SubSeq(p, 1, i)]
<1>. DEFINE greatest(i) == i \in Shown(p) /\ \A j \in Shown(p) : j <= i
<1>0. Len(p) \in Nat
  BY Above
<1>1. Shown(p) = {} => Nearest(p) = "public"
  BY DEF Nearest, Shown
<1>2. ASSUME NEW i \in Shown(p), \A j \in Shown(p) : j <= i
      PROVE  Nearest(p) = setting[SubSeq(p, 1, i)]
  <2>. DEFINE c == CHOOSE k \in Shown(p) : \A j \in Shown(p) : j <= k
  <2>1. c \in Shown(p) /\ \A j \in Shown(p) : j <= c
    BY <1>2
  <2>2. c <= i /\ i <= c /\ c \in Nat /\ i \in Nat
    BY <2>1, <1>2, <1>0 DEF Shown
  <2>3. c = i
    <3>. HIDE DEF c
    <3>. QED
      BY <2>2
  <2>4. Nearest(p) = setting[SubSeq(p, 1, c)]
    BY <1>2 DEF Nearest, Shown
  <2>. QED
    BY <2>3, <2>4
<1>3. ASSUME Shown(p) # {} PROVE \E i \in Shown(p) : \A j \in Shown(p) : j <= i
  <2>1. Shown(p) \in SUBSET (1..Len(p))
    BY DEF Shown
  <2>. QED
    BY <1>0, <1>3, <2>1, GreatestOf
<1>. QED
  BY <1>1, <1>2, <1>3

\* The root inherits nothing.
LEMMA NearestOfRoot == Nearest(<<>>) = "public"
<1>1. <<>> \in Folders /\ Len(<<>>) = 0
  BY FileConstants
<1>2. Shown(<<>>) = {}
  BY <1>1 DEF Shown
<1>. QED
  BY <1>1, <1>2, NearestIs

\* One step of the way up: a folder with a visibility has the nearest one, ...
LEMMA NearestOwn ==
  ASSUME NEW p \in Folders, p # <<>>, setting[p] # "none"
  PROVE  Nearest(p) = setting[p]
<1>1. Len(p) \in 1..Len(p) /\ Len(p) \in Nat /\ SubSeq(p, 1, Len(p)) = p
  BY Above
<1>2. Len(p) \in Shown(p)
  BY <1>1 DEF Shown
<1>3. \A j \in Shown(p) : j \in 1..Len(p)
  BY DEF Shown
<1>4. \A j \in Shown(p) : j <= Len(p)
  BY <1>1, <1>3
<1>. QED
  BY <1>1, <1>2, <1>4, NearestIs

\* ... and one without has the nearest one of the folder above.
LEMMA NearestAbove ==
  ASSUME NEW p \in Folders, p # <<>>, setting[p] = "none"
  PROVE  Nearest(p) = Nearest(Front(p))
<1>1. /\ Front(p) \in Folders /\ Len(Front(p)) = Len(p) - 1 /\ Len(p) >= 1
      /\ \A i \in 0..(Len(p) - 1) : SubSeq(Front(p), 1, i) = SubSeq(p, 1, i)
  BY FrontIsAbove
<1>2. Len(p) \in Nat /\ SubSeq(p, 1, Len(p)) = p
  BY Above
<1>3. Shown(p) = Shown(Front(p))
  <2>1. ASSUME NEW i \in Shown(p) PROVE i \in Shown(Front(p))
    <3>1. i \in 1..Len(p) /\ setting[SubSeq(p, 1, i)] # "none"
      BY <2>1 DEF Shown
    <3>2. i # Len(p) /\ i \in 1..Len(p)
      BY <1>2, <3>1
    <3>3. i \in 1..(Len(p) - 1) /\ i \in 0..(Len(p) - 1)
      <4>1. Len(p) \in Nat
        BY <1>2
      <4>. QED
        BY <3>2, <4>1
    <3>. QED
      BY <1>1, <3>1, <3>3 DEF Shown
  <2>2. ASSUME NEW i \in Shown(Front(p)) PROVE i \in Shown(p)
    <3>1. i \in 1..(Len(p) - 1) /\ setting[SubSeq(Front(p), 1, i)] # "none"
      BY <1>1, <2>2 DEF Shown
    <3>2. i \in 0..(Len(p) - 1) /\ i \in 1..Len(p)
      BY <3>1, <1>2
    <3>. QED
      BY <1>1, <3>1, <3>2 DEF Shown
  <2>. QED
    BY <2>1, <2>2
<1>4. CASE Shown(p) = {}
  BY <1>1, <1>3, <1>4, NearestIs
<1>5. CASE Shown(p) # {}
  <2>1. PICK i \in Shown(p) : /\ \A j \in Shown(p) : j <= i
                              /\ Nearest(p) = setting[SubSeq(p, 1, i)]
    BY <1>5, NearestIs
  <2>2. Nearest(Front(p)) = setting[SubSeq(Front(p), 1, i)]
    BY <1>1, <1>3, <2>1, NearestIs
  <2>3. i \in 0..(Len(p) - 1)
    BY <1>1, <1>2, <1>3, <2>1 DEF Shown
  <2>. QED
    BY <1>1, <2>1, <2>2, <2>3
<1>. QED
  BY <1>4, <1>5

\* Settings that do not change above p leave its nearest one.
LEMMA NearestKept ==
  ASSUME NEW p \in Folders,
         \A x \in Folders \ {<<>>} : Below(x, p) => setting'[x] = setting[x]
  PROVE  Nearest(p)' = Nearest(p)
<1>1. \A i \in 1..Len(p) : setting'[SubSeq(p, 1, i)] = setting[SubSeq(p, 1, i)]
  <2>. SUFFICES ASSUME NEW i \in 1..Len(p)
                PROVE  setting'[SubSeq(p, 1, i)] = setting[SubSeq(p, 1, i)]
    OBVIOUS
  <2>0. i \in 0..Len(p)
    BY Above
  <2>1. SubSeq(p, 1, i) \in Folders \ {<<>>} /\ Below(SubSeq(p, 1, i), p)
    BY <2>0, Above, BelowIsAbove
  <2>. QED
    BY <2>1
<1>2. Shown(p)' = Shown(p)
  BY <1>1 DEF Shown
<1>3. CASE Shown(p) = {}
  <2>1. Nearest(p) = "public"
    BY <1>3 DEF Nearest, Shown
  <2>2. Nearest(p)' = "public"
    BY <1>2, <1>3 DEF Nearest, Shown
  <2>. QED
    BY <2>1, <2>2
<1>4. CASE Shown(p) # {}
  <2>. DEFINE c == CHOOSE k \in Shown(p) : \A j \in Shown(p) : j <= k
  <2>1. Nearest(p) = setting[SubSeq(p, 1, c)]
    BY <1>4 DEF Nearest, Shown
  <2>2. Nearest(p)' = setting'[SubSeq(p, 1, c)]
    <3>1. Nearest(p)' = IF Shown(p)' = {} THEN "public"
             ELSE setting'[SubSeq(p, 1, CHOOSE k \in Shown(p)' : \A j \in Shown(p)' : j <= k)]
      BY DEF Nearest, Shown
    <3>. QED
      BY <1>2, <1>4, <3>1
  <2>3. c \in 1..Len(p)
    <3>1. \E i \in Shown(p) : \A j \in Shown(p) : j <= i
      BY <1>4, NearestIs
    <3>2. c \in Shown(p)
      BY <3>1
    <3>. QED
      BY <3>2 DEF Shown
  <2>. QED
    BY <1>1, <2>1, <2>2, <2>3
<1>. QED
  BY <1>3, <1>4

(***************************************************************************)
(* The inductive invariant.                                                *)

Request == [op : Ops, pc : Steps, file : Files \cup {NoFile}, to : Seq(Names),
            at : Folders, name : Names, vis : Visibilities, kids : BOOLEAN,
            from : Seq(Names), found : SUBSET Files, files : SUBSET Files,
            rows : SUBSET Files, next : {"done", "forget", "inherit"},
            strict : BOOLEAN, failed : BOOLEAN]

RowTable == [Files -> Rows \cup {NoRow}]
SettingTable == [Folders \ {<<>>} -> Visibilities \cup {"none"}]

\* The variables are what they are for, no row is of a file that was never sent.
StoreTypes ==
  /\ row \in RowTable /\ setting \in SettingTable
  /\ msg \subseteq sent /\ sent \subseteq Files /\ Stored \subseteq sent
  /\ told \subseteq Posted /\ told \subseteq sent
  /\ stale \subseteq Requests /\ faults \subseteq Files
  /\ req \in [Requests -> Request]

Uploading(q) == q.op \in {"upload", "put"}
Purging(q) == q.pc = "purge"

\* What a request at some step is for, and where it goes.
Kind(q) ==
  /\ q.pc \in {"send", "inherit", "write"} =>
       q.to \in Folders /\ (q.op # "mkcol" => q.file \in Files)
  /\ q.pc = "send" => Uploading(q) /\ q.at = q.to
  /\ q.pc = "inherit" => q.op \in {"upload", "put", "move", "rename", "davmove", "mkcol"}
  /\ q.pc \in {"inherit", "write"} /\ q.op = "mkcol" => q.to # <<>>
  /\ q.pc = "upsert" => q.op \in {"folder", "mkcol"} /\ q.to \in Folders \ {<<>>}
  /\ q.pc = "notice" => q.op = "notice" /\ q.file \in Files
  /\ q.pc = "forget" => q.op = "rmdir" /\ ~ q.failed
  /\ q.pc \in {"shift", "settings"} =>
       /\ q.op = "davfolder"
       /\ \A x \in Folders : SqlBelow(q.from, x) => Moved(q.from, q.to, x) \in Folders
  /\ q.op = "bot" => q.file \in Posted
  /\ q.pc = "pending" => q.op = "bot" /\ q.to = <<>> /\ q.vis = "public"

\* What a purge is for, and where it goes.
PurgeKind(q) ==
  /\ Purging(q) => q.op \in {"delete", "put", "davdelete", "rmdir", "davmove"}
  /\ Purging(q) /\ q.op = "davmove" =>
       q.next = "inherit" /\ q.to \in Folders /\ q.at = q.to /\ q.file \in Files
  /\ Purging(q) /\ q.op = "rmdir" => q.next = "forget" /\ q.strict
  /\ Purging(q) /\ q.op \notin {"davmove", "rmdir"} => q.next = "done"
  /\ q.op = "put" => q.next = "done" /\ q.file \notin q.files \cup q.rows
  /\ q.pc \notin {"purge", "done"} /\ q.op # "put" => q.files \cup q.rows = {}

\* The files of a request have been sent; a row that it is about to remove has no
\* message any more, unless something went wrong.
Known(q) ==
  /\ q.files \cup q.rows \cup q.found \subseteq sent
  /\ q.rows \cap msg \subseteq faults
  /\ q.pc \in {"pending", "inherit", "write"} /\ q.op \in {"upload", "put", "bot"} =>
       q.file \in sent

\* Nobody else knows the file of an upload before its row is there.
Fresh(q) ==
  Uploading(q) /\ q.pc \in {"send", "inherit", "write"} =>
    /\ row[q.file] = NoRow /\ q.file \notin Posted
    /\ \A u \in Requests : q.file \notin req[u].found
    /\ q.pc = "send" => q.file \notin sent

\* What a request has read of the settings is still so, or it is stale, or it could not
\* read them.
Reads(r, q) ==
  r \notin stale /\ ~ q.failed =>
    /\ q.pc = "inherit" => Below(q.at, q.to) /\ Nearest(q.at) = Nearest(q.to)
    /\ q.pc = "write" => q.vis = Nearest(q.to)

\* A rename writes back the folder where the file is, or it is stale.
Renames(r, q) ==
  q.op = "rename" /\ q.pc \in {"inherit", "write"} /\ r \notin stale =>
    (row[q.file] # NoRow => row[q.file].folder = q.to)

\* File f is where the request named it, or has the name or the id that it gave.
Named(q, f) ==
  LET named == IF q.op = "davmove" THEN Append(q.to, q.name) ELSE q.from
  IN \/ q.op = "delete"
     \/ q.op = "rmdir" /\ Below(q.to, row[f].folder)
     \/ PathOf(f) = named
     \/ Len(named) = 1 /\ (row[f].name = named[1] \/ named[1] \in Ids[f])

\* The files that a request removes are where it named them, or it is stale.
Targets(r, q) ==
  r \notin stale => \A f \in q.files \cup q.rows : row[f] # NoRow => Named(q, f)

\* What a deletion of a folder found is yet to be removed, or has no row any more.
Empties(q) ==
  q.op = "rmdir" /\ q.pc \in {"purge", "forget"} /\ ~ q.failed =>
    \A f \in q.found \ Posted : f \in q.files \cup q.rows \/ row[f] = NoRow

Sound(r, q) ==
  /\ Kind(q) /\ PurgeKind(q) /\ Known(q)
  /\ Reads(r, q) /\ Renames(r, q) /\ Targets(r, q) /\ Empties(q)

\* No two uploads are of the same file.
OneUpload ==
  \A r, u \in Requests :
    Uploading(req[r]) /\ Uploading(req[u]) /\ req[r].file = req[u].file => r = u

DavInv ==
  /\ StoreTypes /\ StoreMatchesChannel /\ OneUpload
  /\ \A r \in Requests : Sound(r, req[r]) /\ Fresh(req[r])

(***************************************************************************)
(* What a step of request r, that becomes q, may do to the store, and why   *)
(* the other requests stay sound.                                          *)

\* The files that a request has taken out of step with the channel.
InFlight(q) ==
  CASE q.pc = "purge" -> q.rows
    [] q.pc \in {"inherit", "write"} /\ q.op \in {"upload", "put", "bot"} -> {q.file}
    [] OTHER -> {}

\* Only the message of an upload or of a post is new, and history only grows.
Grows(r, q) ==
  /\ row' \in RowTable /\ setting' \in SettingTable
  /\ sent \subseteq sent' /\ sent' \subseteq Files /\ msg' \subseteq msg \cup (sent' \ sent)
  /\ \A f \in sent' \ sent : f \in Posted \/ (req[r].pc = "send" /\ f = req[r].file)
  /\ told \subseteq told' /\ told' \subseteq Posted /\ told' \subseteq sent'
  /\ faults \subseteq faults' /\ faults' \subseteq Files
  /\ stale \subseteq stale' /\ stale' \subseteq Requests
  /\ q.found \subseteq req[r].found \cup Stored

\* Only an INSERT makes a row, and who has read what a row said knows that it changed.
RowsStep(r) ==
  \A f \in Files :
    /\ row[f] = NoRow /\ row'[f] # NoRow =>
         /\ req[r].pc = "write" /\ req[r].op \in {"upload", "put", "bot"}
         /\ f = req[r].file
    /\ \/ row'[f] = NoRow
       \/ row[f] # NoRow /\ row'[f].folder = row[f].folder /\ row'[f].name = row[f].name
       \/ Overtaken(r, {f}) \subseteq stale'

\* Who has read a setting knows that it changed.
SettingsStep(r) ==
  \A p \in Folders \ {<<>>} : setting'[p] # setting[p] => Crossed(r, {p}) \subseteq stale'

\* Rows and messages stay together, or r is between the two.
ChannelStep(r, q) ==
  \A f \in Files \ faults' :
    \/ f \in InFlight(q)
    \/ Consistent(f)'
    \/ /\ row'[f] # NoRow <=> row[f] # NoRow
       /\ f \in msg' <=> f \in msg
       /\ f \in told' <=> f \in told
       /\ f \notin InFlight(req[r])

\* An upload begins with a file of its own, and gets no row before it ends.
UploadStep(r, q) ==
  Uploading(q) =>
    \/ /\ q.op = req[r].op /\ q.file = req[r].file /\ q.pc # "send"
       /\ q.pc \in {"inherit", "write"} => req[r].pc \in {"send", "inherit"}
    \/ /\ q.pc = "send" /\ q.file \in Files \ (sent \cup Posted)
       /\ req[r].pc = "idle" /\ sent' = sent
       /\ \A u \in Requests : req[u].file # q.file

StoreStep(r, q) ==
  /\ Grows(r, q) /\ RowsStep(r) /\ SettingsStep(r) /\ ChannelStep(r, q) /\ UploadStep(r, q)

\* Every component of a request is of its type.
LEMMA RequestFields ==
  ASSUME NEW q \in Request
  PROVE  /\ q.op \in Ops /\ q.pc \in Steps /\ q.file \in Files \cup {NoFile}
         /\ q.to \in Seq(Names) /\ q.at \in Folders /\ q.name \in Names
         /\ q.vis \in Visibilities /\ q.from \in Seq(Names)
         /\ q.found \subseteq Files /\ q.files \subseteq Files /\ q.rows \subseteq Files
         /\ q.kids \in BOOLEAN /\ q.strict \in BOOLEAN /\ q.failed \in BOOLEAN
         /\ q.next \in {"done", "forget", "inherit"}
  BY DEF Request

\* The other requests are as sound as before.
LEMMA OthersStaySound ==
  ASSUME DavInv, NEW r \in Requests, NEW q \in Request, NEW u \in Requests \ {r},
         NEW p, p = req[u], StoreStep(r, q)
  PROVE  Sound(u, p)'
<1>1. p \in Request /\ Sound(u, p) /\ Fresh(p) /\ u \in Requests
  BY DEF DavInv, StoreTypes
<1>2. Kind(p)' /\ PurgeKind(p)'
  <2>1. Kind(p) /\ PurgeKind(p)
    BY <1>1 DEF Sound
  <2>. QED
    BY <2>1 DEF Kind, PurgeKind, Uploading, Purging, SqlBelow, Moved
<1>3. Known(p)'
  BY <1>1 DEF Sound, Known, StoreStep, Grows
<1>4. Reads(u, p)'
  <2>. SUFFICES ASSUME u \notin stale', ~ p.failed, p.pc \in {"inherit", "write"}
                PROVE  Reads(u, p)'
    BY DEF Reads
  <2>1. u \notin stale /\ Kind(p) /\ Reads(u, p)
    BY <1>1 DEF StoreStep, Grows, Sound
  <2>2. p.to \in Folders /\ p.at \in Folders
    BY <1>1, <2>1, RequestFields DEF Kind
  <2>3. \A x \in Folders \ {<<>>} : Below(x, p.to) => setting'[x] = setting[x]
    BY <1>1, <2>1 DEF StoreStep, SettingsStep, Crossed
  <2>4. Nearest(p.to)' = Nearest(p.to)
    BY <2>2, <2>3, NearestKept
  <2>5. CASE p.pc = "write"
    BY <2>1, <2>4, <2>5 DEF Reads
  <2>6. CASE p.pc = "inherit"
    <3>1. Below(p.at, p.to) /\ Nearest(p.at) = Nearest(p.to)
      BY <2>1, <2>6 DEF Reads
    <3>2. \A x \in Folders \ {<<>>} : Below(x, p.at) => setting'[x] = setting[x]
      BY <2>2, <2>3, <3>1, BelowTrans
    <3>3. Nearest(p.at)' = Nearest(p.at)
      BY <2>2, <3>2, NearestKept
    <3>. QED
      BY <2>4, <2>6, <3>1, <3>3 DEF Reads, Below
  <2>. QED
    BY <2>5, <2>6
<1>5. Renames(u, p)'
  <2>. SUFFICES ASSUME u \notin stale', p.op = "rename", p.pc \in {"inherit", "write"},
                       row'[p.file] # NoRow
                PROVE  row'[p.file].folder = p.to
    BY DEF Renames
  <2>1. u \notin stale /\ p.file \in Files /\ Renames(u, p)
    BY <1>1 DEF StoreStep, Grows, Sound, Kind
  <2>2. u \in Overtaken(r, {p.file})
    BY <1>1 DEF Overtaken
  <2>3. row[p.file] # NoRow /\ row'[p.file].folder = row[p.file].folder
    BY <2>1, <2>2 DEF StoreStep, RowsStep
  <2>. QED
    BY <2>1, <2>3 DEF Renames
<1>6. Targets(u, p)'
  <2>. SUFFICES ASSUME u \notin stale', NEW f \in p.files \cup p.rows, row'[f] # NoRow
                PROVE  Named(p, f)'
    BY DEF Targets
  <2>1. u \notin stale /\ f \in Files /\ Targets(u, p)
    BY <1>1, RequestFields DEF StoreStep, Grows, Sound
  <2>2. u \in Overtaken(r, {f})
    BY <1>1 DEF Overtaken
  <2>3. row[f] # NoRow /\ row'[f].folder = row[f].folder /\ row'[f].name = row[f].name
    BY <2>1, <2>2 DEF StoreStep, RowsStep
  <2>4. Named(p, f)
    BY <2>1, <2>3 DEF Targets
  <2>. QED
    BY <2>3, <2>4 DEF Named, PathOf, Below
<1>7. Empties(p)'
  <2>. SUFFICES ASSUME p.op = "rmdir", p.pc \in {"purge", "forget"}, ~ p.failed,
                       NEW f \in p.found \ Posted, f \notin p.files \cup p.rows
                PROVE  row'[f] = NoRow
    BY DEF Empties
  <2>1. row[f] = NoRow /\ f \in Files
    BY <1>1, RequestFields DEF Sound, Empties
  <2>2. CASE row'[f] # NoRow
    <3>1. req[r].pc = "write" /\ req[r].op \in {"upload", "put", "bot"} /\ f = req[r].file
      BY <2>1, <2>2 DEF StoreStep, RowsStep
    <3>2. Kind(req[r]) /\ Fresh(req[r])
      BY DEF DavInv, Sound
    <3>. QED
      BY <3>1, <3>2 DEF Kind, Fresh, Uploading
  <2>. QED
    BY <2>2
<1>. QED
  BY <1>2, <1>3, <1>4, <1>5, <1>6, <1>7 DEF Sound

\* Between is what is in flight.
LEMMA BetweenIs == \A r \in Requests : Between(r) = InFlight(req[r])
  BY DEF Between, InFlight, At

\* Nobody else knows the file of an upload, before and after the step.
LEMMA UploadsStayFresh ==
  ASSUME DavInv, NEW r \in Requests, NEW q \in Request, StoreStep(r, q),
         req' = [req EXCEPT ![r] = q]
  PROVE  OneUpload' /\ \A u \in Requests : Fresh(req[u])'
<1>1. /\ \A u \in Requests : req[u] \in Request /\ Sound(u, req[u]) /\ Fresh(req[u])
      /\ OneUpload /\ Stored \subseteq sent
  BY DEF DavInv, StoreTypes
<1>2. req'[r] = q /\ \A u \in Requests \ {r} : req'[u] = req[u]
  BY <1>1 DEF DavInv, StoreTypes
<1>3. \A u \in Requests : req[u].found \subseteq sent
  BY <1>1 DEF Sound, Known
<1>4. ASSUME NEW u \in Requests, NEW p, p = req'[u],
             Uploading(p), p.pc \in {"send", "inherit", "write"}
      PROVE  /\ p.file \in Files /\ p.file \notin Posted /\ row[p.file] = NoRow
             /\ \A v \in Requests : p.file \notin req[v].found
             /\ row'[p.file] = NoRow
             /\ p.pc = "send" => p.file \notin sent'
  <2>1. CASE u # r
    <3>1. p = req[u] /\ p.file \in Files
      BY <1>1, <1>2, <1>4, <2>1 DEF Sound, Kind, Uploading
    <3>2. Fresh(p)
      BY <1>1, <3>1
    <3>3. ASSUME row'[p.file] # NoRow PROVE FALSE
      <4>1. req[r].pc = "write" /\ req[r].op \in {"upload", "put", "bot"} /\ p.file = req[r].file
        BY <1>4, <3>1, <3>2, <3>3 DEF StoreStep, RowsStep, Fresh
      <4>2. CASE req[r].op = "bot"
        BY <1>1, <1>4, <3>2, <4>1, <4>2 DEF Sound, Kind, Fresh
      <4>3. CASE Uploading(req[r])
        BY <1>1, <1>4, <2>1, <3>1, <4>1, <4>3 DEF OneUpload
      <4>. QED
        BY <4>1, <4>2, <4>3 DEF Uploading
    <3>4. ASSUME p.pc = "send", p.file \in sent' PROVE FALSE
      <4>1. req[r].pc = "send" /\ p.file = req[r].file
        BY <1>4, <3>2, <3>4 DEF StoreStep, Grows, Fresh
      <4>2. Uploading(req[r])
        BY <1>1, <4>1 DEF Sound, Kind
      <4>. QED
        BY <1>1, <1>4, <2>1, <3>1, <4>1, <4>2 DEF OneUpload
    <3>. QED
      BY <1>4, <3>1, <3>2, <3>3, <3>4 DEF Fresh
  <2>2. CASE u = r
    <3>1. p = q
      BY <1>2, <1>4, <2>2
    <3>2. CASE /\ q.op = req[r].op /\ q.file = req[r].file /\ q.pc # "send"
               /\ q.pc \in {"inherit", "write"} => req[r].pc \in {"send", "inherit"}
      <4>1. req[r].pc \in {"send", "inherit"} /\ Uploading(req[r]) /\ q.pc # "send"
        BY <1>4, <3>1, <3>2 DEF Uploading
      <4>2. Fresh(req[r]) /\ req[r].file \in Files
        BY <1>1, <4>1 DEF Sound, Kind, Uploading
      <4>. QED
        BY <3>1, <3>2, <4>1, <4>2 DEF Fresh, StoreStep, RowsStep
    <3>3. CASE /\ q.pc = "send" /\ q.file \in Files \ (sent \cup Posted)
               /\ req[r].pc = "idle" /\ sent' = sent
               /\ \A v \in Requests : req[v].file # q.file
      <4>1. row[q.file] = NoRow
        BY <1>1, <3>3 DEF Stored
      <4>2. row'[q.file] = NoRow
        BY <3>3, <4>1 DEF StoreStep, RowsStep
      <4>. QED
        BY <1>3, <3>1, <3>3, <4>1, <4>2
    <3>. QED
      BY <1>4, <3>1, <3>2, <3>3 DEF StoreStep, UploadStep
  <2>. QED
    BY <2>1, <2>2
<1>5. ASSUME NEW u \in Requests PROVE Fresh(req[u])'
  <2>. SUFFICES ASSUME Uploading(req'[u]), req'[u].pc \in {"send", "inherit", "write"}
                PROVE  /\ row'[req'[u].file] = NoRow /\ req'[u].file \notin Posted
                       /\ \A v \in Requests : req'[u].file \notin req'[v].found
                       /\ req'[u].pc = "send" => req'[u].file \notin sent'
    BY DEF Fresh, Uploading
  <2>1. PICK p : p = req'[u]
    OBVIOUS
  <2>2. /\ p.file \in Files /\ p.file \notin Posted /\ row[p.file] = NoRow
        /\ \A v \in Requests : p.file \notin req[v].found
        /\ row'[p.file] = NoRow
        /\ p.pc = "send" => p.file \notin sent'
    BY <1>4, <2>1
  <2>3. p.file \notin q.found
    BY <2>2 DEF StoreStep, Grows, Stored
  <2>4. \A v \in Requests : p.file \notin req'[v].found
    BY <1>2, <2>2, <2>3
  <2>. QED
    BY <2>1, <2>2, <2>4
<1>6. OneUpload'
  <2>1. ASSUME NEW u \in Requests \ {r}, Uploading(q), Uploading(req[u]),
               req[u].file = q.file
        PROVE  FALSE
    <3>1. q.op = req[r].op /\ q.file = req[r].file
      BY <2>1 DEF StoreStep, UploadStep
    <3>2. Uploading(req[r])
      BY <2>1, <3>1 DEF Uploading
    <3>. QED
      BY <1>1, <2>1, <3>1, <3>2 DEF OneUpload
  <2>. SUFFICES ASSUME NEW u \in Requests, NEW v \in Requests, u # v,
                       Uploading(req'[u]), Uploading(req'[v]), req'[u].file = req'[v].file
                PROVE  FALSE
    BY DEF OneUpload, Uploading
  <2>2. CASE u # r /\ v # r
    BY <1>1, <1>2, <2>2 DEF OneUpload
  <2>3. CASE u = r
    BY <1>2, <2>1, <2>3
  <2>4. CASE v = r
    BY <1>2, <2>1, <2>4
  <2>. QED
    BY <2>2, <2>3, <2>4
<1>. QED
  BY <1>5, <1>6

\* Rows and messages stay together.
LEMMA ChannelStays ==
  ASSUME DavInv, NEW r \in Requests, NEW q \in Request, StoreStep(r, q),
         req' = [req EXCEPT ![r] = q]
  PROVE  StoreMatchesChannel'
<1>. SUFFICES ASSUME NEW f \in Files \ faults', ~ Consistent(f)'
              PROVE  \E u \in Requests : f \in Between(u)'
  BY DEF StoreMatchesChannel
<1>1. req'[r] = q /\ \A u \in Requests \ {r} : req'[u] = req[u]
  BY DEF DavInv, StoreTypes
<1>2. \A u \in Requests : Between(u)' = InFlight(req'[u])
  BY DEF Between, InFlight, At
<1>3. CASE f \in InFlight(q)
  BY <1>1, <1>2, <1>3
<1>4. CASE f \notin InFlight(q)
  <2>1. /\ row'[f] # NoRow <=> row[f] # NoRow
        /\ f \in msg' <=> f \in msg
        /\ f \in told' <=> f \in told
        /\ f \notin InFlight(req[r])
    BY <1>4 DEF StoreStep, ChannelStep
  <2>2. f \in Files \ faults
    BY DEF StoreStep, Grows
  <2>3. PICK u \in Requests : f \in InFlight(req[u])
    BY <2>1, <2>2, BetweenIs DEF DavInv, StoreMatchesChannel, Consistent
  <2>. QED
    BY <1>1, <1>2, <2>1, <2>3
<1>. QED
  BY <1>3, <1>4

\* A step that leaves its own request sound keeps the invariant.
LEMMA Stepped ==
  ASSUME DavInv, NEW r \in Requests, NEW q \in Request, StoreStep(r, q),
         req' = [req EXCEPT ![r] = q], Sound(r, q)'
  PROVE  DavInv'
<1>1. req'[r] = q /\ \A u \in Requests \ {r} : req'[u] = req[u]
  BY DEF DavInv, StoreTypes
<1>2. StoreTypes'
  <2>1. /\ row' \in RowTable /\ setting' \in SettingTable
        /\ msg' \subseteq sent' /\ sent' \subseteq Files
        /\ told' \subseteq Posted /\ told' \subseteq sent'
        /\ stale' \subseteq Requests /\ faults' \subseteq Files
    BY DEF DavInv, StoreTypes, StoreStep, Grows
  <2>2. req' \in [Requests -> Request]
    BY DEF DavInv, StoreTypes
  <2>3. Stored' \subseteq sent'
    <3>. SUFFICES ASSUME NEW f \in Files, row'[f] # NoRow PROVE f \in sent'
      BY DEF Stored
    <3>1. CASE row[f] # NoRow
      BY <3>1 DEF DavInv, StoreTypes, Stored, StoreStep, Grows
    <3>2. CASE row[f] = NoRow
      <4>1. /\ req[r].pc = "write" /\ req[r].op \in {"upload", "put", "bot"}
            /\ f = req[r].file
        BY <3>2 DEF StoreStep, RowsStep
      <4>2. Known(req[r])
        BY DEF DavInv, Sound
      <4>. QED
        BY <4>1, <4>2 DEF Known, StoreStep, Grows
    <3>. QED
      BY <3>1, <3>2
  <2>. QED
    BY <2>1, <2>2, <2>3 DEF StoreTypes, RowTable, SettingTable, Request
<1>3. ASSUME NEW u \in Requests PROVE Sound(u, req[u])'
  <2>1. PICK p : p = req'[u]
    OBVIOUS
  <2>2. Sound(u, p)'
    <3>1. CASE u = r
      <4>1. p = q
        BY <1>1, <2>1, <3>1
      <4>. QED
        BY <3>1, <4>1
    <3>2. CASE u # r
      <4>1. p = req[u] /\ u \in Requests \ {r}
        BY <1>1, <2>1, <3>2
      <4>. QED
        BY <4>1, OthersStaySound
    <3>. QED
      BY <3>1, <3>2
  <2>. QED
    BY <2>1, <2>2
<1>. QED
  BY <1>2, <1>3, UploadsStayFresh, ChannelStays DEF DavInv

(***************************************************************************)
(* The requests arrive.                                                    *)

\* A step that only breaks ties and changes its request is one of the allowed ones.
LEMMA QuietStep ==
  ASSUME DavInv, NEW r \in Requests, NEW q \in Request,
         UNCHANGED <<row, setting, msg, sent, told, stale>>,
         faults \subseteq faults', faults' \subseteq Files,
         q.found \subseteq req[r].found \cup Stored,
         \A f \in InFlight(req[r]) \ faults' : f \in InFlight(q),
         UploadStep(r, q)
  PROVE  StoreStep(r, q)
<1>1. StoreTypes
  BY DEF DavInv
<1>2. Grows(r, q)
  BY <1>1 DEF StoreTypes, Grows
<1>3. RowsStep(r)
  BY DEF RowsStep
<1>4. SettingsStep(r)
  BY DEF SettingsStep
<1>5. ChannelStep(r, q)
  BY DEF ChannelStep
<1>. QED
  BY <1>2, <1>3, <1>4, <1>5 DEF StoreStep

\* A folder lies below itself.
LEMMA BelowItself == \A p \in Folders : Below(p, p)
<1>. SUFFICES ASSUME NEW p \in Folders PROVE Below(p, p)
  OBVIOUS
<1>1. Len(p) \in Nat
  BY Above
<1>. QED
  BY <1>1 DEF Below, IsPrefix

\* A request that arrives and names what is there keeps the invariant.
LEMMA Arrives ==
  ASSUME DavInv, NEW r \in Requests, NEW q \in Request, At(r, "idle"), Become(r, q),
         UNCHANGED <<row, setting, msg, sent, told, stale, faults>>,
         Kind(q), PurgeKind(q), q.rows = {}, q.files \cup q.found \subseteq Stored,
         q.pc \notin {"pending", "write"}, q.pc = "inherit" => q.at = q.to, Renames(r, q),
         \A f \in q.files : Named(q, f),
         q.op = "rmdir" => q.found \subseteq q.files,
         Uploading(q) => /\ q.pc = "send" /\ q.file \in Files \ (sent \cup Posted)
                         /\ \A u \in Requests : req[u].file # q.file
  PROVE  DavInv'
<1>1. UploadStep(r, q)
  BY DEF UploadStep, At
<1>2. InFlight(req[r]) = {}
  BY DEF InFlight, At
<1>3. StoreStep(r, q)
  BY <1>1, <1>2, QuietStep DEF DavInv, StoreTypes
<1>4. Known(q)
  <2>1. ~ (q.pc \in {"pending", "inherit", "write"} /\ q.op \in {"upload", "put", "bot"})
    BY DEF Kind, Uploading
  <2>. QED
    BY <2>1 DEF Known, DavInv, StoreTypes
<1>5. Reads(r, q)
  <2>1. q.pc = "inherit" => Below(q.at, q.to)
    BY BelowItself DEF Kind
  <2>. QED
    BY <2>1 DEF Reads
<1>6. Targets(r, q)
  BY DEF Targets
<1>7. Empties(q)
  BY DEF Empties
<1>8. Sound(r, q)
  BY <1>4, <1>5, <1>6, <1>7 DEF Sound
<1>9. Sound(r, q)'
  <2>1. Kind(q)' /\ PurgeKind(q)'
    BY <1>8 DEF Sound, Kind, PurgeKind, Uploading, Purging, SqlBelow, Moved
  <2>2. Known(q)'
    BY <1>8 DEF Sound, Known
  <2>3. Reads(r, q)'
    BY <1>8 DEF Sound, Reads, Nearest, Below
  <2>4. Renames(r, q)' /\ Empties(q)'
    BY <1>8 DEF Sound, Renames, Empties
  <2>5. Targets(r, q)'
    BY <1>8 DEF Sound, Targets, Named, PathOf, Below
  <2>. QED
    BY <2>1, <2>2, <2>3, <2>4, <2>5 DEF Sound
<1>. QED
  BY <1>3, <1>9, Stepped DEF Become

\* A request that has nothing to remove.
Bare(q) == q.files = {} /\ q.rows = {} /\ q.found = {} /\ q.next = "done" /\ ~ q.failed

\* What a request holds before it asks for anything, and when it is to inherit.
LEMMA BlankIs ==
  /\ Blank \in Request /\ Bare(Blank)
  /\ Blank.op = "none" /\ Blank.pc = "idle" /\ Blank.vis = "public"
<1>1. Blank.name \in Names /\ <<>> \in Folders /\ <<>> \in Seq(Names)
  BY FileConstants, EmptySeq DEF Blank
<1>. QED
  BY <1>1 DEF Blank, Bare, Request, Ops, Steps, Visibilities

\* A request that is to inherit holds what it was given, and is blank otherwise.
LEMMA InheritingIs ==
  ASSUME NEW op \in Ops, NEW f \in Files \cup {NoFile}, NEW p \in Folders, NEW n \in Names,
         NEW q, q = Inheriting(op, f, p, n)
  PROVE  /\ q \in Request /\ Bare(q)
         /\ q.op = op /\ q.pc = "inherit" /\ q.file = f /\ q.to = p /\ q.at = p /\ q.name = n
         /\ q.vis = "public" /\ q.from = <<>>
<1>1. p \in Seq(Names)
  BY FileConstants
<1>2. q = [Blank EXCEPT !.op = op, !.pc = "inherit", !.file = f, !.to = p, !.at = p,
                        !.name = n]
  BY DEF Inheriting
<1>3. PICK b : b = Blank
  OBVIOUS
<1>4. b \in Request /\ Bare(b) /\ b.vis = "public" /\ b.from = <<>>
  <2>1. Blank.from = <<>>
    BY DEF Blank
  <2>. QED
    BY <1>3, <2>1, BlankIs
<1>5. q \in Request
  BY <1>1, <1>2, <1>3, <1>4 DEF Request, Steps
<1>6. /\ q.op = op /\ q.pc = "inherit" /\ q.file = f /\ q.to = p /\ q.at = p /\ q.name = n
      /\ q.vis = b.vis /\ q.from = b.from
      /\ q.files = b.files /\ q.rows = b.rows /\ q.found = b.found /\ q.next = b.next
      /\ q.failed = b.failed
  BY <1>2, <1>3, <1>4 DEF Request
<1>. QED
  BY <1>4, <1>5, <1>6 DEF Bare

\* A row says where its file is and what it is called.
LEMMA RowFields ==
  ASSUME DavInv, NEW f \in Stored
  PROVE  f \in Files /\ f \in sent /\ row[f].folder \in Folders /\ row[f].name \in Names
         /\ row[f].vis \in Visibilities /\ row[f] \in Rows
  BY DEF DavInv, StoreTypes, RowTable, Rows, Stored

\* An upload arrives for a file that nobody has seen.
LEMMA UploadKeeps ==
  ASSUME DavInv, NEW r \in Requests, Upload(r)
  PROVE  DavInv'
<1>1. PICK f \in Files \ (sent \cup Posted), p \in Folders, n \in Names :
        /\ \A u \in Requests : req[u].file # f
        /\ Become(r, [Inheriting("upload", f, p, n) EXCEPT !.pc = "send"])
  BY DEF Upload
<1>2. PICK b : b = Inheriting("upload", f, p, n)
  OBVIOUS
<1>3. PICK q : q = [b EXCEPT !.pc = "send"]
  OBVIOUS
<1>4. /\ b \in Request /\ Bare(b) /\ b.op = "upload" /\ b.file = f
      /\ b.to = p /\ b.at = p
  BY <1>2, InheritingIs DEF Ops
<1>5. /\ q \in Request /\ Bare(q) /\ q.op = "upload" /\ q.pc = "send" /\ q.file = f
      /\ q.to = p /\ q.at = p
  BY <1>3, <1>4 DEF Request, Bare, Steps
<1>6. Kind(q) /\ PurgeKind(q) /\ Renames(r, q)
  BY <1>5 DEF Kind, PurgeKind, Renames, Bare, Uploading, Purging
<1>. QED
  BY <1>1, <1>2, <1>3, <1>5, <1>6, Arrives DEF Upload, Bare

\* A move arrives for a file that is stored.
LEMMA MoveKeeps ==
  ASSUME DavInv, NEW r \in Requests, Move(r)
  PROVE  DavInv'
<1>1. PICK f \in Stored, p \in Folders : Become(r, Inheriting("move", f, p, row[f].name))
  BY DEF Move
<1>2. PICK q : q = Inheriting("move", f, p, row[f].name)
  OBVIOUS
<1>3. PICK n : n = row[f].name
  OBVIOUS
<1>4. f \in Files /\ n \in Names
  BY <1>3, RowFields
<1>5. /\ q \in Request /\ Bare(q) /\ q.op = "move" /\ q.pc = "inherit" /\ q.file = f
      /\ q.to = p /\ q.at = p
  BY <1>2, <1>3, <1>4, InheritingIs DEF Ops
<1>6. Kind(q) /\ PurgeKind(q) /\ Renames(r, q)
  BY <1>4, <1>5 DEF Kind, PurgeKind, Renames, Bare, Uploading, Purging
<1>. QED
  BY <1>1, <1>2, <1>5, <1>6, Arrives DEF Move, Bare, Uploading

\* A rename arrives and has read the folder of its file.
LEMMA RenameKeeps ==
  ASSUME DavInv, NEW r \in Requests, Rename(r)
  PROVE  DavInv'
<1>1. PICK f \in Stored, n \in Names : Become(r, Inheriting("rename", f, row[f].folder, n))
  BY DEF Rename
<1>2. PICK q : q = Inheriting("rename", f, row[f].folder, n)
  OBVIOUS
<1>3. PICK p : p = row[f].folder
  OBVIOUS
<1>4. f \in Files /\ p \in Folders
  BY <1>3, RowFields
<1>5. /\ q \in Request /\ Bare(q) /\ q.op = "rename" /\ q.pc = "inherit" /\ q.file = f
      /\ q.to = p /\ q.at = p
  BY <1>2, <1>3, <1>4, InheritingIs DEF Ops
<1>6. Kind(q) /\ PurgeKind(q) /\ Renames(r, q)
  BY <1>3, <1>4, <1>5 DEF Kind, PurgeKind, Renames, Bare, Uploading, Purging
<1>. QED
  BY <1>1, <1>2, <1>5, <1>6, Arrives DEF Rename, Bare, Uploading

\* A request for a folder's visibility arrives.
LEMMA FolderKeeps ==
  ASSUME DavInv, NEW r \in Requests, Folder(r)
  PROVE  DavInv'
<1>1. PICK p \in Folders \ {<<>>}, v \in Visibilities, kids \in BOOLEAN :
        Become(r, [Blank EXCEPT !.op = "folder", !.pc = "upsert", !.to = p, !.vis = v,
                                !.kids = kids])
  BY DEF Folder
<1>2. PICK q : q = [Blank EXCEPT !.op = "folder", !.pc = "upsert", !.to = p, !.vis = v,
                                 !.kids = kids]
  OBVIOUS
<1>3. p \in Seq(Names)
  BY FileConstants
<1>4. q \in Request /\ Bare(q) /\ q.op = "folder" /\ q.pc = "upsert" /\ q.to = p
  BY <1>2, <1>3, BlankIs DEF Request, Bare, Ops, Steps
<1>5. Kind(q) /\ PurgeKind(q) /\ Renames(r, q)
  BY <1>4 DEF Kind, PurgeKind, Renames, Bare, Uploading, Purging
<1>. QED
  BY <1>1, <1>2, <1>4, <1>5, Arrives DEF Folder, Bare, Uploading

\* A deletion arrives with files that are stored.
LEMMA DeleteKeeps ==
  ASSUME DavInv, NEW r \in Requests, Delete(r)
  PROVE  DavInv'
<1>1. PICK F \in (SUBSET Stored) \ {{}} :
        Become(r, [Blank EXCEPT !.op = "delete", !.pc = "purge", !.files = F])
  BY DEF Delete
<1>2. PICK q : q = [Blank EXCEPT !.op = "delete", !.pc = "purge", !.files = F]
  OBVIOUS
<1>3. F \subseteq Files
  BY DEF Stored
<1>4. /\ q \in Request /\ q.op = "delete" /\ q.pc = "purge" /\ q.files = F
      /\ q.rows = {} /\ q.found = {} /\ q.next = "done"
  BY <1>2, <1>3, BlankIs DEF Request, Bare, Ops, Steps
<1>5. Kind(q) /\ PurgeKind(q) /\ Renames(r, q)
  BY <1>4 DEF Kind, PurgeKind, Renames, Uploading, Purging
<1>6. \A f \in q.files : Named(q, f)
  BY <1>4 DEF Named
<1>. QED
  BY <1>1, <1>2, <1>4, <1>5, <1>6, Arrives DEF Delete, Uploading

\* The bot is told of an edit that it takes for a deletion.
LEMMA NoticeKeeps ==
  ASSUME DavInv, NEW r \in Requests, Notice(r)
  PROVE  DavInv'
<1>1. PICK f \in Stored :
        Become(r, [Blank EXCEPT !.op = "notice", !.pc = "notice", !.file = f])
  BY DEF Notice
<1>2. PICK q : q = [Blank EXCEPT !.op = "notice", !.pc = "notice", !.file = f]
  OBVIOUS
<1>3. f \in Files
  BY DEF Stored
<1>4. q \in Request /\ Bare(q) /\ q.op = "notice" /\ q.pc = "notice" /\ q.file = f
  BY <1>2, <1>3, BlankIs DEF Request, Bare, Ops, Steps
<1>5. Kind(q) /\ PurgeKind(q) /\ Renames(r, q)
  BY <1>3, <1>4 DEF Kind, PurgeKind, Renames, Bare, Uploading, Purging
<1>. QED
  BY <1>1, <1>2, <1>4, <1>5, Arrives DEF Notice, Bare, Uploading

\* A path is a folder and a name in it.
LEMMA PathParts ==
  ASSUME NEW p \in Paths
  PROVE  /\ p \in Seq(Names) /\ p # <<>> /\ Len(p) \in Nat \ {0}
         /\ Front(p) \in Folders /\ Last(p) \in Names /\ Append(Front(p), Last(p)) = p
<1>1. p \in Seq(Names) /\ p # <<>> /\ Front(p) \in Folders
  BY DavConstants
<1>2. Len(p) \in Nat \ {0}
  BY <1>1, EmptySeq
<1>3. Last(p) \in Names
  BY <1>1, <1>2, ElementOfSeq DEF Last
<1>4. Front(p) \in Seq(Names)
  BY <1>1, FileConstants
<1>5. Len(Front(p)) = Len(p) - 1 /\ \A i \in 1..(Len(p) - 1) : Front(p)[i] = p[i]
  <2>. DEFINE k == Len(p) - 1
  <2>1. k \in Int /\ 1 \in Int /\ k \in Nat /\ \A i \in 1..k : i \in 1..Len(p)
    BY <1>2
  <2>2. \A i \in 1..k : p[i] \in Names
    BY <1>1, <2>1, ElementOfSeq
  <2>3. Front(p) = SubSeq(p, 1, k)
    BY DEF Front
  <2>. HIDE DEF k
  <2>4. /\ Len(SubSeq(p, 1, k)) = IF 1 <= k THEN k - 1 + 1 ELSE 0
        /\ \A i \in 1..(k - 1 + 1) : SubSeq(p, 1, k)[i] = p[1 + i - 1]
    BY <2>1, <2>2, SubSeqProperties
  <2>5. Len(Front(p)) = k /\ \A i \in 1..k : Front(p)[i] = p[i]
    BY <2>1, <2>3, <2>4
  <2>. QED
    BY <2>5 DEF k
<1>6. /\ Append(Front(p), Last(p)) \in Seq(Names)
      /\ Len(Append(Front(p), Last(p))) = Len(p)
      /\ \A i \in 1..(Len(p) - 1) : Append(Front(p), Last(p))[i] = Front(p)[i]
      /\ Append(Front(p), Last(p))[Len(p)] = p[Len(p)]
  <2>1. Len(Front(p)) + 1 = Len(p)
    BY <1>2, <1>5
  <2>. QED
    BY <1>3, <1>4, <1>5, <2>1, AppendProperties DEF Last
<1>7. \A i \in 1..Len(p) : Append(Front(p), Last(p))[i] = p[i]
  <2>. SUFFICES ASSUME NEW i \in 1..Len(p) PROVE Append(Front(p), Last(p))[i] = p[i]
    OBVIOUS
  <2>1. CASE i = Len(p)
    BY <1>6, <2>1
  <2>2. CASE i # Len(p)
    <3>1. i \in 1..(Len(p) - 1)
      BY <1>2, <2>2
    <3>. QED
      BY <1>5, <1>6, <3>1
  <2>. QED
    BY <2>1, <2>2
<1>. QED
  BY <1>1, <1>2, <1>3, <1>6, <1>7, SeqEqual

\* What a path names is stored: there, or under the bare name, or with that id.
LEMMA LookupNames ==
  ASSUME NEW p \in Paths, NEW f \in Lookup(p)
  PROVE  /\ f \in Stored
         /\ \/ PathOf(f) = p
            \/ Len(p) = 1 /\ (row[f].name = p[1] \/ p[1] \in Ids[f])
<1>1. Len(p) \in Nat /\ Len(p) >= 1
  <2>1. Len(p) \in Nat \ {0}
    BY PathParts
  <2>. QED
    BY <2>1
<1>2. CASE ById(p) # {}
  BY <1>2 DEF Lookup, ById
<1>3. CASE ById(p) = {} /\ (ByPath(p) # {} \/ Len(p) > 1)
  BY <1>3 DEF Lookup, ByPath
<1>4. CASE ById(p) = {} /\ ~ (ByPath(p) # {} \/ Len(p) > 1)
  <2>1. f \in {g \in Stored : row[g].name = p[1]}
    BY <1>4 DEF Lookup
  <2>2. PICK n : n = Len(p)
    OBVIOUS
  <2>3. n \in Nat /\ n >= 1 /\ ~(n > 1)
    BY <1>1, <1>4, <2>2
  <2>4. n = 1
    BY <2>3
  <2>. QED
    BY <2>1, <2>2, <2>4
<1>. QED
  BY <1>2, <1>3, <1>4

\* A PUT arrives for a file that nobody has seen, with what its path named.
LEMMA PutKeeps ==
  ASSUME DavInv, NEW r \in Requests, Put(r)
  PROVE  DavInv'
<1>1. PICK p \in Paths, f \in Files \ (sent \cup Posted) :
        /\ \A u \in Requests : req[u].file # f
        /\ \E old \in IF Lookup(p) = {} THEN {{}} ELSE {{g} : g \in Lookup(p)} :
             Become(r, [Inheriting("put", f, Front(p), Last(p)) EXCEPT
                          !.pc = "send", !.from = p, !.files = old])
  BY DEF Put
<1>2. PICK old \in IF Lookup(p) = {} THEN {{}} ELSE {{g} : g \in Lookup(p)} :
        Become(r, [Inheriting("put", f, Front(p), Last(p)) EXCEPT
                     !.pc = "send", !.from = p, !.files = old])
  BY <1>1
<1>3. old \subseteq Lookup(p)
  BY <1>2
<1>4. \A g \in old : /\ g \in Stored
                     /\ \/ PathOf(g) = p
                        \/ Len(p) = 1 /\ (row[g].name = p[1] \/ p[1] \in Ids[g])
  BY <1>3, LookupNames
<1>5. old \subseteq Files /\ f \notin old /\ old \subseteq Stored
  BY <1>4 DEF Stored, DavInv, StoreTypes
<1>6. p \in Seq(Names) /\ Front(p) \in Folders /\ Last(p) \in Names
  BY PathParts
<1>7. PICK b : b = Inheriting("put", f, Front(p), Last(p))
  OBVIOUS
<1>8. /\ b \in Request /\ Bare(b) /\ b.op = "put" /\ b.file = f
      /\ b.to = Front(p) /\ b.at = Front(p)
  BY <1>6, <1>7, InheritingIs DEF Ops
<1>9. PICK q : q = [b EXCEPT !.pc = "send", !.from = p, !.files = old]
  OBVIOUS
<1>10. /\ q \in Request /\ q.op = "put" /\ q.pc = "send" /\ q.file = f /\ q.from = p
       /\ q.to = Front(p) /\ q.at = Front(p) /\ q.files = old
       /\ q.rows = {} /\ q.found = {} /\ q.next = "done"
  BY <1>5, <1>6, <1>8, <1>9 DEF Request, Bare, Steps
<1>11. Kind(q) /\ PurgeKind(q) /\ Renames(r, q)
  BY <1>5, <1>6, <1>10 DEF Kind, PurgeKind, Renames, Uploading, Purging
<1>12. \A g \in q.files : Named(q, g)
  BY <1>4, <1>10 DEF Named
<1>. QED
  BY <1>1, <1>2, <1>5, <1>7, <1>9, <1>10, <1>11, <1>12, Arrives DEF Put

\* The deletion of a file arrives with what its path named.
LEMMA DavDeleteKeeps ==
  ASSUME DavInv, NEW r \in Requests, DavDelete(r)
  PROVE  DavInv'
<1>0. PICK p \in Paths : \E f \in Lookup(p) :
        Become(r, [Blank EXCEPT !.op = "davdelete", !.pc = "purge", !.from = p,
                                !.files = {f}, !.strict = TRUE])
  BY DEF DavDelete
<1>1. PICK f \in Lookup(p) :
        Become(r, [Blank EXCEPT !.op = "davdelete", !.pc = "purge", !.from = p,
                                !.files = {f}, !.strict = TRUE])
  BY <1>0
<1>2. PICK q : q = [Blank EXCEPT !.op = "davdelete", !.pc = "purge", !.from = p,
                                 !.files = {f}, !.strict = TRUE]
  OBVIOUS
<1>3. /\ f \in Stored /\ f \in Files
      /\ \/ PathOf(f) = p
         \/ Len(p) = 1 /\ (row[f].name = p[1] \/ p[1] \in Ids[f])
  BY LookupNames DEF Stored
<1>4. p \in Seq(Names)
  BY PathParts
<1>5. /\ q \in Request /\ q.op = "davdelete" /\ q.pc = "purge" /\ q.from = p
      /\ q.files = {f} /\ q.rows = {} /\ q.found = {} /\ q.next = "done"
  BY <1>2, <1>3, <1>4, BlankIs DEF Request, Bare, Ops, Steps
<1>6. Kind(q) /\ PurgeKind(q) /\ Renames(r, q)
  BY <1>5 DEF Kind, PurgeKind, Renames, Uploading, Purging
<1>7. \A g \in q.files : Named(q, g)
  BY <1>3, <1>5 DEF Named
<1>. QED
  BY <1>1, <1>2, <1>3, <1>5, <1>6, <1>7, Arrives DEF DavDelete, Uploading

\* The deletion of a folder arrives with the files found below it.
LEMMA DavDeleteFolderKeeps ==
  ASSUME DavInv, NEW r \in Requests, DavDeleteFolder(r)
  PROVE  DavInv'
<1>1. PICK p \in Paths :
        LET F == {f \in Stored : Below(p, row[f].folder)} IN
        Become(r, [Blank EXCEPT !.op = "rmdir", !.to = p, !.files = F, !.found = F,
                     !.pc = IF F = {} THEN "forget" ELSE "purge",
                     !.next = "forget", !.strict = TRUE])
  BY DEF DavDeleteFolder
<1>2. PICK F : F = {f \in Stored : Below(p, row[f].folder)}
  OBVIOUS
<1>3. PICK q : q = [Blank EXCEPT !.op = "rmdir", !.to = p, !.files = F, !.found = F,
                      !.pc = IF F = {} THEN "forget" ELSE "purge",
                      !.next = "forget", !.strict = TRUE]
  OBVIOUS
<1>4. p \in Seq(Names) /\ F \subseteq Stored /\ F \subseteq Files
  BY <1>2, PathParts DEF Stored
<1>5. /\ q \in Request /\ q.op = "rmdir" /\ q.to = p /\ q.files = F /\ q.found = F
      /\ q.pc = (IF F = {} THEN "forget" ELSE "purge")
      /\ q.rows = {} /\ q.next = "forget" /\ q.strict /\ ~ q.failed
  <2>1. (IF F = {} THEN "forget" ELSE "purge") \in Steps
    BY DEF Steps
  <2>. QED
    BY <1>3, <1>4, <2>1, BlankIs DEF Request, Bare, Ops
<1>6. Kind(q) /\ PurgeKind(q) /\ Renames(r, q)
  BY <1>5 DEF Kind, PurgeKind, Renames, Uploading, Purging
<1>7. \A g \in q.files : Named(q, g)
  BY <1>2, <1>5 DEF Named
<1>8. Become(r, q) /\ At(r, "idle") /\ UNCHANGED <<row, setting, msg, sent, told, stale, faults>>
  BY <1>1, <1>2, <1>3 DEF DavDeleteFolder
<1>. QED
  BY <1>4, <1>5, <1>6, <1>7, <1>8, Arrives DEF Uploading

\* The move of a file arrives, with the target that is in its way.
LEMMA DavMoveKeeps ==
  ASSUME DavInv, NEW r \in Requests, DavMove(r)
  PROVE  DavInv'
<1>0. PICK p \in Paths, d \in Paths, overwrite \in BOOLEAN : \E f \in Lookup(p) :
        LET q == [Inheriting("davmove", f, Front(d), Last(d)) EXCEPT !.from = p]
        IN /\ p # d
           /\ \/ Lookup(d) = {} /\ Become(r, q)
              \/ overwrite /\ \E g \in Lookup(d) :
                   Become(r, [q EXCEPT !.pc = "purge", !.files = {g},
                                       !.next = "inherit", !.strict = TRUE])
  BY DEF DavMove
<1>1. PICK f \in Lookup(p) :
        LET q == [Inheriting("davmove", f, Front(d), Last(d)) EXCEPT !.from = p]
        IN /\ p # d
           /\ \/ Lookup(d) = {} /\ Become(r, q)
              \/ overwrite /\ \E g \in Lookup(d) :
                   Become(r, [q EXCEPT !.pc = "purge", !.files = {g},
                                       !.next = "inherit", !.strict = TRUE])
  BY <1>0
<1>2. PICK b : b = Inheriting("davmove", f, Front(d), Last(d))
  OBVIOUS
<1>3. f \in Files /\ p \in Seq(Names) /\ d \in Seq(Names) /\ Front(d) \in Folders
      /\ Last(d) \in Names /\ Append(Front(d), Last(d)) = d
  BY PathParts, LookupNames DEF Stored
<1>4. /\ b \in Request /\ Bare(b) /\ b.op = "davmove" /\ b.pc = "inherit" /\ b.file = f
      /\ b.to = Front(d) /\ b.at = Front(d) /\ b.name = Last(d)
  BY <1>2, <1>3, InheritingIs DEF Ops
<1>5. PICK c : c = [b EXCEPT !.from = p]
  OBVIOUS
<1>6. /\ c \in Request /\ Bare(c) /\ c.op = "davmove" /\ c.pc = "inherit" /\ c.file = f
      /\ c.to = Front(d) /\ c.at = Front(d) /\ c.name = Last(d)
  BY <1>3, <1>4, <1>5 DEF Request, Bare
<1>7. At(r, "idle") /\ UNCHANGED <<row, setting, msg, sent, told, stale, faults>>
  BY DEF DavMove
<1>8. CASE Become(r, c)
  <2>1. Kind(c) /\ PurgeKind(c) /\ Renames(r, c)
    BY <1>3, <1>6 DEF Kind, PurgeKind, Renames, Bare, Uploading, Purging
  <2>. QED
    BY <1>6, <1>7, <1>8, <2>1, Arrives DEF Bare, Uploading
<1>9. ASSUME NEW g \in Lookup(d),
             Become(r, [c EXCEPT !.pc = "purge", !.files = {g},
                                 !.next = "inherit", !.strict = TRUE])
      PROVE  DavInv'
  <2>1. PICK q : q = [c EXCEPT !.pc = "purge", !.files = {g},
                               !.next = "inherit", !.strict = TRUE]
    OBVIOUS
  <2>2. /\ g \in Stored /\ g \in Files
        /\ \/ PathOf(g) = d
           \/ Len(d) = 1 /\ (row[g].name = d[1] \/ d[1] \in Ids[g])
    BY LookupNames DEF Stored
  <2>3. /\ q \in Request /\ q.op = "davmove" /\ q.pc = "purge" /\ q.file = f
        /\ q.to = Front(d) /\ q.at = Front(d) /\ q.name = Last(d)
        /\ q.files = {g} /\ q.rows = {} /\ q.found = {} /\ q.next = "inherit"
    BY <1>6, <2>1, <2>2 DEF Request, Bare, Steps
  <2>4. Kind(q) /\ PurgeKind(q) /\ Renames(r, q)
    BY <1>3, <2>3 DEF Kind, PurgeKind, Renames, Uploading, Purging
  <2>5. \A h \in q.files : Named(q, h)
    BY <1>3, <2>2, <2>3 DEF Named
  <2>. QED
    BY <1>7, <1>9, <2>1, <2>2, <2>3, <2>4, <2>5, Arrives DEF Uploading
<1>. QED
  BY <1>1, <1>2, <1>5, <1>8, <1>9

\* The move of a folder arrives, and stays within the folders.
LEMMA DavMoveFolderKeeps ==
  ASSUME DavInv, NEW r \in Requests, DavMoveFolder(r)
  PROVE  DavInv'
<1>1. PICK p \in Paths, d \in Paths :
        /\ {d} \cup {Moved(p, d, x) : x \in {x \in Folders : SqlBelow(p, x)}} \subseteq Folders
        /\ Become(r, [Blank EXCEPT !.op = "davfolder", !.pc = "shift", !.from = p, !.to = d])
  BY DEF DavMoveFolder
<1>2. PICK q : q = [Blank EXCEPT !.op = "davfolder", !.pc = "shift", !.from = p, !.to = d]
  OBVIOUS
<1>3. p \in Seq(Names) /\ d \in Seq(Names)
  BY PathParts
<1>4. /\ q \in Request /\ Bare(q) /\ q.op = "davfolder" /\ q.pc = "shift" /\ q.from = p
      /\ q.to = d
  BY <1>2, <1>3, BlankIs DEF Request, Bare, Ops, Steps
<1>5. \A x \in Folders : SqlBelow(p, x) => Moved(p, d, x) \in Folders
  BY <1>1
<1>6. Kind(q) /\ PurgeKind(q) /\ Renames(r, q)
  BY <1>4, <1>5 DEF Kind, PurgeKind, Renames, Bare, Uploading, Purging
<1>. QED
  BY <1>1, <1>2, <1>4, <1>6, Arrives DEF DavMoveFolder, Bare, Uploading

\* A MKCOL arrives for a folder below the root.
LEMMA MkcolKeeps ==
  ASSUME DavInv, NEW r \in Requests, Mkcol(r)
  PROVE  DavInv'
<1>1. PICK p \in Paths \cap Folders : Become(r, Inheriting("mkcol", NoFile, p, Blank.name))
  BY DEF Mkcol
<1>2. PICK q : q = Inheriting("mkcol", NoFile, p, Blank.name)
  OBVIOUS
<1>3. PICK n : n = Blank.name
  OBVIOUS
<1>4. n \in Names
  BY <1>3, BlankIs DEF Request
<1>5. /\ q \in Request /\ Bare(q) /\ q.op = "mkcol" /\ q.pc = "inherit"
      /\ q.to = p /\ q.at = p
  BY <1>2, <1>3, <1>4, InheritingIs DEF Ops
<1>6. Kind(q) /\ PurgeKind(q) /\ Renames(r, q)
  BY <1>5, PathParts DEF Kind, PurgeKind, Renames, Bare, Uploading, Purging
<1>. QED
  BY <1>1, <1>2, <1>5, <1>6, Arrives DEF Mkcol, Bare, Uploading

(***************************************************************************)
(* The requests go on.                                                     *)

\* What a request keeps from its arrival on.
Same(p, q) ==
  /\ q.op = p.op /\ q.file = p.file /\ q.to = p.to /\ q.name = p.name /\ q.from = p.from
  /\ q.found = p.found /\ q.next = p.next /\ q.strict = p.strict

\* A step that only goes to another step of the request.
LEMMA GotoIs ==
  ASSUME NEW p \in Request, NEW c \in Steps, NEW q, q = [p EXCEPT !.pc = c]
  PROVE  /\ q \in Request /\ Same(p, q) /\ q.pc = c
         /\ q.at = p.at /\ q.vis = p.vis /\ q.kids = p.kids
         /\ q.files = p.files /\ q.rows = p.rows /\ q.failed = p.failed
  BY DEF Request, Same

\* A request knows and names what it knew and named, if its own step moved none of it.
LEMMA KnowsOn ==
  ASSUME DavInv, NEW r \in Requests, NEW q \in Request, StoreStep(r, q), Same(req[r], q),
         q.files \cup q.rows \subseteq req[r].files \cup req[r].rows,
         q.rows \cap msg' \subseteq faults',
         \A f \in q.files \cup q.rows :
           \/ row'[f] = NoRow
           \/ row[f] # NoRow /\ row'[f].folder = row[f].folder /\ row'[f].name = row[f].name,
         (q.pc \in {"pending", "inherit", "write"} /\ q.op \in {"upload", "put", "bot"}) =>
           q.file \in sent'
  PROVE  Known(q)' /\ Targets(r, q)'
<1>1. Sound(r, req[r])
  BY DEF DavInv
<1>2. Known(q)'
  BY <1>1 DEF Sound, Known, Same, StoreStep, Grows
<1>3. Targets(r, q)'
  <2>. SUFFICES ASSUME r \notin stale', NEW f \in q.files \cup q.rows, row'[f] # NoRow
                PROVE  Named(q, f)'
    BY DEF Targets
  <2>1. row[f] # NoRow /\ row'[f].folder = row[f].folder /\ row'[f].name = row[f].name
    OBVIOUS
  <2>2. Named(req[r], f)
    BY <1>1, <2>1 DEF Sound, Targets, StoreStep, Grows
  <2>3. Named(q, f)
    BY <2>2 DEF Named, Same
  <2>. QED
    BY <2>1, <2>3 DEF Named, PathOf, Below
<1>. QED
  BY <1>2, <1>3

\* A request that has ended promises nothing more.
LEMMA EndIsSound ==
  ASSUME NEW r, NEW q, q.pc = "done", Known(q)', Targets(r, q)',
         q.op = "bot" => q.file \in Posted,
         q.op = "put" => q.next = "done" /\ q.file \notin q.files \cup q.rows
  PROVE  Sound(r, q)'
  BY DEF Sound, Kind, PurgeKind, Reads, Renames, Empties, Purging

\* A request that ends after a step that moved none of its files keeps the invariant.
LEMMA Ended ==
  ASSUME DavInv, NEW r \in Requests, NEW q \in Request, StoreStep(r, q),
         req' = [req EXCEPT ![r] = q], Same(req[r], q), q.pc = "done",
         q.files \cup q.rows \subseteq req[r].files \cup req[r].rows,
         q.rows \cap msg' \subseteq faults',
         \A f \in q.files \cup q.rows :
           \/ row'[f] = NoRow
           \/ row[f] # NoRow /\ row'[f].folder = row[f].folder /\ row'[f].name = row[f].name
  PROVE  DavInv'
<1>1. Known(q)' /\ Targets(r, q)'
  BY KnowsOn
<1>2. /\ q.op = "bot" => q.file \in Posted
      /\ q.op = "put" => q.next = "done" /\ q.file \notin q.files \cup q.rows
  <2>1. Sound(r, req[r])
    BY DEF DavInv
  <2>. QED
    BY <2>1 DEF Sound, Kind, PurgeKind, Same
<1>3. Sound(r, q)'
  BY <1>1, <1>2, EndIsSound
<1>. QED
  BY <1>3, Stepped

\* What a request is between is a set of files.
LEMMA InFlightFiles == DavInv => \A r \in Requests : InFlight(req[r]) \subseteq Files
<1>. SUFFICES ASSUME DavInv, NEW r \in Requests PROVE InFlight(req[r]) \subseteq Files
  OBVIOUS
<1>1. req[r] \in Request /\ Sound(r, req[r])
  BY DEF DavInv, StoreTypes
<1>2. req[r].rows \subseteq Files
  BY <1>1, RequestFields
<1>3. (req[r].pc \in {"inherit", "write"} /\ req[r].op \in {"upload", "put", "bot"}) =>
        req[r].file \in Files
  BY <1>1 DEF Sound, Kind
<1>. QED
  BY <1>2, <1>3 DEF InFlight

\* Requests that end where they are, all at once, break the ties of what they are between.
LEMMA ManyEnd ==
  ASSUME DavInv, NEW S \in SUBSET Requests,
         UNCHANGED <<row, setting, msg, sent, told, stale>>,
         faults' = faults \cup UNION {InFlight(req[r]) : r \in S},
         req' = [r \in Requests |-> IF r \in S THEN [req[r] EXCEPT !.pc = "done"] ELSE req[r]]
  PROVE  DavInv'
<1>1. /\ StoreTypes /\ OneUpload /\ StoreMatchesChannel
      /\ \A r \in Requests : req[r] \in Request /\ Sound(r, req[r]) /\ Fresh(req[r])
  BY DEF DavInv, StoreTypes
<1>2. faults' \subseteq Files
  BY <1>1, InFlightFiles DEF StoreTypes
<1>3. ASSUME NEW r \in Requests
      PROVE  /\ req'[r] \in Request /\ Same(req[r], req'[r])
             /\ req'[r].files = req[r].files /\ req'[r].rows = req[r].rows
             /\ (req'[r] = req[r] /\ r \notin S) \/ req'[r].pc = "done"
  <2>1. CASE r \notin S
    BY <1>1, <2>1 DEF Same
  <2>2. CASE r \in S
    <3>1. req'[r] = [req[r] EXCEPT !.pc = "done"]
      BY <2>2
    <3>. QED
      BY <1>1, <3>1, GotoIs DEF Steps
  <2>. QED
    BY <2>1, <2>2
<1>4. StoreTypes'
  <2>1. req' \in [Requests -> Request]
    BY <1>3
  <2>. QED
    BY <1>1, <1>2, <2>1 DEF StoreTypes, Stored, RowTable, SettingTable, Request
<1>5. OneUpload'
  BY <1>1, <1>3 DEF OneUpload, Uploading, Same
<1>6. StoreMatchesChannel'
  <2>. SUFFICES ASSUME NEW f \in Files \ faults', ~ Consistent(f)'
                PROVE  \E r \in Requests : f \in Between(r)'
    BY DEF StoreMatchesChannel
  <2>1. f \notin faults /\ \A r \in S : f \notin InFlight(req[r])
    OBVIOUS
  <2>2. ~ Consistent(f)
    BY DEF Consistent
  <2>3. PICK r \in Requests : f \in InFlight(req[r])
    BY <1>1, <2>1, <2>2, BetweenIs DEF StoreMatchesChannel
  <2>4. req'[r] = req[r]
    BY <2>1, <2>3
  <2>5. Between(r)' = InFlight(req'[r])
    BY DEF Between, InFlight, At
  <2>. QED
    BY <2>3, <2>4, <2>5
<1>7. ASSUME NEW r \in Requests PROVE Sound(r, req[r])' /\ Fresh(req[r])'
  <2>1. PICK p, q : p = req[r] /\ q = req'[r]
    OBVIOUS
  <2>2. /\ p \in Request /\ q \in Request /\ Same(p, q) /\ q.files = p.files /\ q.rows = p.rows
        /\ Sound(r, p) /\ Fresh(p)
        /\ q = p \/ q.pc = "done"
    BY <1>1, <1>3, <2>1
  <2>3. Known(q)'
    BY <2>2 DEF Sound, Known, Same
  <2>4. Targets(r, q)'
    <3>1. Targets(r, q)
      BY <2>2 DEF Sound, Targets, Named, Same
    <3>. QED
      BY <3>1 DEF Targets, Named, PathOf, Below
  <2>5. Kind(q)' /\ PurgeKind(q)'
    BY <2>2 DEF Sound, Kind, PurgeKind, Same, Purging, Uploading, SqlBelow, Moved
  <2>6. Reads(r, q)' /\ Renames(r, q)' /\ Empties(q)'
    <3>1. Reads(r, q)'
      <4>1. Reads(r, p)'
        BY <2>2 DEF Sound, Reads, Nearest, Below
      <4>2. q.pc = "done" => Reads(r, q)'
        BY DEF Reads
      <4>. QED
        BY <2>2, <4>1, <4>2
    <3>2. Renames(r, q)' /\ Empties(q)'
      BY <2>2 DEF Sound, Renames, Empties, Same
    <3>. QED
      BY <3>1, <3>2
  <2>7. Fresh(q)'
    <3>1. \A u \in Requests : req'[u].found = req[u].found
      BY <1>3 DEF Same
    <3>. QED
      BY <2>2, <3>1 DEF Fresh, Uploading, Same
  <2>8. Sound(r, q)'
    BY <2>3, <2>4, <2>5, <2>6 DEF Sound
  <2>. QED
    BY <2>1, <2>7, <2>8
<1>. QED
  BY <1>4, <1>5, <1>6, <1>7 DEF DavInv

\* The same of one request.
LEMMA EndKeeps ==
  ASSUME DavInv, NEW r \in Requests, Leave(r),
         UNCHANGED <<row, setting, msg, sent, told, stale>>,
         faults' = faults \cup InFlight(req[r])
  PROVE  DavInv'
<1>1. req' = [u \in Requests |-> IF u \in {r} THEN [req[u] EXCEPT !.pc = "done"] ELSE req[u]]
  BY DEF Leave, Goto, Become, DavInv, StoreTypes
<1>2. UNION {InFlight(req[u]) : u \in {r}} = InFlight(req[r])
  OBVIOUS
<1>3. {r} \in SUBSET Requests
  OBVIOUS
<1>. QED
  BY <1>1, <1>2, <1>3, ManyEnd

\* A step that sets only a visibility leaves every file where it is.
LEMMA LinkKeeps ==
  ASSUME DavInv, NEW r \in Requests, Link(r)
  PROVE  DavInv'
<1>1. PICK f \in Stored, v \in Visibilities :
        /\ row' = [row EXCEPT ![f].vis = v]
        /\ Become(r, [Blank EXCEPT !.op = "link", !.pc = "done", !.file = f, !.vis = v])
  BY DEF Link
<1>2. PICK q : q = [Blank EXCEPT !.op = "link", !.pc = "done", !.file = f, !.vis = v]
  OBVIOUS
<1>3. f \in Files /\ row[f] \in Rows /\ row \in RowTable /\ NoRow \notin Rows
  BY RowFields, FileConstants DEF DavInv, StoreTypes
<1>4. q \in Request /\ Bare(q) /\ q.op = "link" /\ q.pc = "done"
  BY <1>2, <1>3, BlankIs DEF Request, Bare, Ops, Steps
<1>5. PICK w : w = [row[f] EXCEPT !.vis = v]
  OBVIOUS
<1>6. w \in Rows /\ w.folder = row[f].folder /\ w.name = row[f].name
  BY <1>3, <1>5 DEF Rows
<1>7. row' = [row EXCEPT ![f] = w]
  BY <1>1, <1>5
<1>8. row' \in RowTable
  BY <1>3, <1>6, <1>7 DEF RowTable
<1>9. \A g \in Files : /\ row'[g] = NoRow <=> row[g] = NoRow
                       /\ row[g] # NoRow => /\ row'[g].folder = row[g].folder
                                            /\ row'[g].name = row[g].name
  BY <1>1, <1>3, <1>6, <1>7 DEF RowTable, Stored
<1>10. StoreStep(r, q)
  <2>1. Grows(r, q)
    BY <1>4, <1>8 DEF DavInv, StoreTypes, Grows, Link, Bare
  <2>2. RowsStep(r)
    BY <1>9 DEF RowsStep
  <2>3. SettingsStep(r)
    BY DEF SettingsStep, Link
  <2>4. ChannelStep(r, q)
    BY <1>9 DEF ChannelStep, InFlight, Link, At
  <2>5. UploadStep(r, q)
    BY <1>4 DEF UploadStep, Uploading
  <2>. QED
    BY <2>1, <2>2, <2>3, <2>4, <2>5 DEF StoreStep
<1>11. Known(q)' /\ Targets(r, q)'
  BY <1>4 DEF Known, Targets, Bare
<1>12. Sound(r, q)'
  BY <1>4, <1>11, EndIsSound
<1>. QED
  BY <1>1, <1>2, <1>4, <1>10, <1>12, Stepped DEF Become

\* What people post is in the channel without a row until the bot is told of it.
LEMMA PostKeeps ==
  ASSUME DavInv, NEW r \in Requests, Post(r)
  PROVE  DavInv'
<1>1. PICK f \in Posted :
        /\ msg' = IF f \in sent THEN msg ELSE msg \cup {f}
        /\ sent' = sent \cup {f}
        /\ Become(r, [Inheriting("bot", f, <<>>, Blank.name) EXCEPT !.pc = "pending"])
  BY DEF Post
<1>2. PICK n : n = Blank.name
  OBVIOUS
<1>3. n \in Names /\ f \in Files /\ <<>> \in Folders
  BY <1>2, BlankIs, FileConstants DEF Request
<1>4. PICK b : b = Inheriting("bot", f, <<>>, n)
  OBVIOUS
<1>5. /\ b \in Request /\ Bare(b) /\ b.op = "bot" /\ b.file = f /\ b.to = <<>>
      /\ b.vis = "public"
  BY <1>3, <1>4, InheritingIs DEF Ops
<1>6. PICK q : q = [b EXCEPT !.pc = "pending"]
  OBVIOUS
<1>7. /\ q \in Request /\ Bare(q) /\ q.op = "bot" /\ q.file = f /\ q.to = <<>>
      /\ q.vis = "public" /\ q.pc = "pending"
  BY <1>5, <1>6 DEF Request, Bare, Steps
<1>8. StoreStep(r, q)
  <2>1. Grows(r, q)
    BY <1>1, <1>3, <1>7 DEF DavInv, StoreTypes, Grows, Post, Bare
  <2>2. RowsStep(r)
    BY DEF RowsStep, Post
  <2>3. SettingsStep(r)
    BY DEF SettingsStep, Post
  <2>4. ChannelStep(r, q)
    <3>1. InFlight(req[r]) = {} /\ UNCHANGED <<row, told>>
      BY DEF InFlight, Post, At
    <3>2. CASE f \in sent
      BY <1>1, <3>1, <3>2 DEF ChannelStep
    <3>3. CASE f \notin sent
      <4>1. row[f] = NoRow /\ f \notin told
        BY <1>3, <3>3 DEF DavInv, StoreTypes, Stored
      <4>2. Consistent(f)'
        BY <3>1, <4>1 DEF Consistent
      <4>3. \A g \in Files \ {f} : g \in msg' <=> g \in msg
        BY <1>1
      <4>. QED
        BY <3>1, <4>2, <4>3 DEF ChannelStep
    <3>. QED
      BY <3>2, <3>3
  <2>5. UploadStep(r, q)
    BY <1>7 DEF UploadStep, Uploading
  <2>. QED
    BY <2>1, <2>2, <2>3, <2>4, <2>5 DEF StoreStep
<1>9. Sound(r, q)'
  <2>1. Kind(q)' /\ PurgeKind(q)'
    BY <1>3, <1>7 DEF Kind, PurgeKind, Bare, Uploading, Purging
  <2>2. Known(q)' /\ Targets(r, q)' /\ Renames(r, q)' /\ Empties(q)' /\ Reads(r, q)'
    BY <1>1, <1>7 DEF Known, Targets, Renames, Empties, Reads, Bare
  <2>. QED
    BY <2>1, <2>2 DEF Sound
<1>. QED
  BY <1>1, <1>2, <1>4, <1>6, <1>7, <1>8, <1>9, Stepped DEF Become

\* The bot is told of a message that is there, and will store it in the root.
LEMMA TellKeeps ==
  ASSUME DavInv, NEW r \in Requests, Tell(r)
  PROVE  DavInv'
<1>1. /\ req[r] \in Request /\ Sound(r, req[r]) /\ StoreTypes /\ req[r].pc = "pending"
      /\ UNCHANGED <<row, setting, msg, sent, stale, faults>>
  BY DEF DavInv, StoreTypes, Tell, At
<1>2. PICK f : f = req[r].file
  OBVIOUS
<1>3. /\ req[r].op = "bot" /\ f \in Posted /\ f \in Files /\ f \in sent
      /\ req[r].to = <<>> /\ req[r].vis = "public"
      /\ req[r].files = {} /\ req[r].rows = {} /\ InFlight(req[r]) = {}
  <2>1. req[r].op = "bot" /\ f \in Posted /\ req[r].to = <<>> /\ req[r].vis = "public"
    BY <1>1, <1>2 DEF Sound, Kind
  <2>2. f \in sent /\ req[r].files = {} /\ req[r].rows = {}
    BY <1>1, <1>2, <2>1 DEF Sound, Known, PurgeKind
  <2>. QED
    BY <1>1, <2>1, <2>2, FileConstants DEF InFlight
<1>4. CASE Leave(r) /\ UNCHANGED told
  BY <1>1, <1>3, <1>4, EndKeeps
<1>5. CASE Goto(r, "write") /\ told' = told \cup {f}
  <2>1. PICK q : q = [req[r] EXCEPT !.pc = "write"]
    OBVIOUS
  <2>2. /\ q \in Request /\ Same(req[r], q) /\ q.pc = "write" /\ q.vis = "public"
        /\ q.files = {} /\ q.rows = {}
    BY <1>1, <1>3, <2>1, GotoIs DEF Steps
  <2>3. q.op = "bot" /\ q.file = f /\ q.to = <<>> /\ <<>> \in Folders
    BY <1>2, <1>3, <2>2, FileConstants DEF Same
  <2>4. StoreStep(r, q)
    <3>1. Grows(r, q)
      BY <1>1, <1>3, <1>5, <2>2 DEF StoreTypes, Grows, Same
    <3>2. RowsStep(r) /\ SettingsStep(r)
      BY <1>1 DEF RowsStep, SettingsStep
    <3>3. ChannelStep(r, q)
      BY <1>1, <1>3, <1>5, <2>2, <2>3 DEF ChannelStep, InFlight
    <3>4. UploadStep(r, q)
      BY <2>3 DEF UploadStep, Uploading
    <3>. QED
      BY <3>1, <3>2, <3>3, <3>4 DEF StoreStep
  <2>5. Known(q)' /\ Targets(r, q)'
    BY <1>1, <1>3, <2>2, <2>3, <2>4, KnowsOn
  <2>6. Kind(q)' /\ PurgeKind(q)'
    BY <1>3, <2>2, <2>3 DEF Kind, PurgeKind, Uploading, Purging
  <2>7. Nearest(<<>>)' = "public"
    BY <1>1, <2>3, NearestKept, NearestOfRoot
  <2>8. Reads(r, q)' /\ Renames(r, q)' /\ Empties(q)'
    BY <2>2, <2>3, <2>7 DEF Reads, Renames, Empties
  <2>9. Sound(r, q)'
    BY <2>5, <2>6, <2>8 DEF Sound
  <2>. QED
    BY <1>5, <2>1, <2>2, <2>4, <2>9, Stepped DEF Goto, Become
<1>. QED
  BY <1>2, <1>4, <1>5 DEF Tell

\* The bot removes a row, and the tie to its message is broken.
LEMMA RemoveNoticedKeeps ==
  ASSUME DavInv, NEW r \in Requests, RemoveNoticed(r)
  PROVE  DavInv'
<1>1. PICK q : q = [req[r] EXCEPT !.pc = "done"]
  OBVIOUS
<1>2. req[r] \in Request /\ Sound(r, req[r]) /\ row \in RowTable
  BY DEF DavInv, StoreTypes
<1>3. /\ q \in Request /\ Same(req[r], q) /\ q.pc = "done"
      /\ q.files = req[r].files /\ q.rows = req[r].rows
  BY <1>1, <1>2, GotoIs DEF Steps
<1>4. req[r].pc = "notice" /\ req[r].file \in Files /\ ~ Uploading(req[r])
  <2>1. req[r].pc = "notice"
    BY DEF RemoveNoticed, At
  <2>. QED
    BY <1>2, <2>1 DEF Sound, Kind, Uploading
<1>5. row' = [row EXCEPT ![req[r].file] = NoRow] /\ faults' = faults \cup {req[r].file}
  BY DEF RemoveNoticed
<1>6. \A f \in Files : row'[f] = NoRow \/ (row'[f] = row[f] /\ row[f] # NoRow)
  BY <1>2, <1>5 DEF RowTable
<1>7. \A f \in Files \ faults' : row'[f] = row[f]
  BY <1>2, <1>5 DEF RowTable
<1>8. StoreStep(r, q)
  <2>1. Grows(r, q)
    <3>1. row' \in RowTable
      BY <1>2, <1>5 DEF RowTable
    <3>. QED
      BY <1>3, <1>4, <1>5, <3>1 DEF DavInv, StoreTypes, Grows, RemoveNoticed, Same
  <2>2. RowsStep(r)
    BY <1>6 DEF RowsStep
  <2>3. SettingsStep(r)
    BY DEF SettingsStep, RemoveNoticed
  <2>4. ChannelStep(r, q)
    BY <1>4, <1>7 DEF ChannelStep, InFlight, RemoveNoticed
  <2>5. UploadStep(r, q)
    BY <1>3, <1>4 DEF UploadStep, Uploading, Same
  <2>. QED
    BY <2>1, <2>2, <2>3, <2>4, <2>5 DEF StoreStep
<1>9. q.files \cup q.rows = {}
  BY <1>2, <1>3, <1>4 DEF Sound, PurgeKind, Uploading
<1>. QED
  BY <1>1, <1>3, <1>8, <1>9, Ended DEF RemoveNoticed, Leave, Goto, Become

\* The message of an upload is the first of its file.
LEMMA SendKeeps ==
  ASSUME DavInv, NEW r \in Requests, Send(r)
  PROVE  DavInv'
<1>1. /\ req[r] \in Request /\ Sound(r, req[r]) /\ Fresh(req[r]) /\ StoreTypes
      /\ req[r].pc = "send"
  BY DEF DavInv, StoreTypes, Send, At
<1>2. PICK f : f = req[r].file
  OBVIOUS
<1>3. /\ Uploading(req[r]) /\ req[r].to \in Folders /\ req[r].at = req[r].to
      /\ f \in Files /\ f \notin sent
  BY <1>1, <1>2 DEF Sound, Kind, Fresh, Uploading
<1>4. InFlight(req[r]) = {} /\ req[r].rows \subseteq sent /\ req[r].rows \cap msg \subseteq faults
  BY <1>1 DEF InFlight, Sound, Known
<1>5. CASE msg' = msg \cup {f} /\ sent' = sent \cup {f} /\ Goto(r, "inherit") /\ UNCHANGED faults
  <2>1. PICK q : q = [req[r] EXCEPT !.pc = "inherit"]
    OBVIOUS
  <2>2. /\ q \in Request /\ Same(req[r], q) /\ q.pc = "inherit" /\ q.at = req[r].at
        /\ q.files = req[r].files /\ q.rows = req[r].rows
    BY <1>1, <2>1, GotoIs DEF Steps
  <2>3. StoreStep(r, q)
    <3>1. Grows(r, q)
      BY <1>1, <1>2, <1>3, <1>5, <2>2 DEF StoreTypes, Grows, Send, Same
    <3>2. RowsStep(r) /\ SettingsStep(r)
      BY DEF RowsStep, SettingsStep, Send
    <3>3. ChannelStep(r, q)
      BY <1>2, <1>3, <1>4, <1>5, <2>2 DEF ChannelStep, InFlight, Send, Same, Uploading
    <3>4. UploadStep(r, q)
      BY <1>1, <2>2 DEF UploadStep, Same
    <3>. QED
      BY <3>1, <3>2, <3>3, <3>4 DEF StoreStep
  <2>4. Known(q)' /\ Targets(r, q)'
    <3>1. q.rows \cap msg' \subseteq faults'
      BY <1>3, <1>4, <1>5, <2>2
    <3>2. q.file \in sent'
      BY <1>2, <1>5, <2>2 DEF Same
    <3>3. \A g \in Files : row'[g] = row[g]
      BY DEF Send
    <3>4. q.files \cup q.rows \subseteq Files
      BY <2>2, RequestFields
    <3>. QED
      BY <2>2, <2>3, <3>1, <3>2, <3>3, <3>4, KnowsOn
  <2>5. Kind(q)' /\ PurgeKind(q)'
    BY <1>1, <1>2, <1>3, <2>2 DEF Sound, Kind, PurgeKind, Same, Uploading, Purging
  <2>6. Reads(r, q)'
    <3>1. q.at = q.to /\ q.at \in Folders
      BY <1>3, <2>2 DEF Same
    <3>2. Below(q.at, q.to)'
      BY <3>1, BelowItself DEF Below
    <3>. QED
      BY <2>2, <3>1, <3>2 DEF Reads
  <2>7. Renames(r, q)' /\ Empties(q)'
    BY <1>3, <2>2 DEF Renames, Empties, Uploading, Same
  <2>8. Sound(r, q)'
    BY <2>4, <2>5, <2>6, <2>7 DEF Sound
  <2>. QED
    BY <1>5, <2>1, <2>2, <2>3, <2>8, Stepped DEF Goto, Become
<1>6. ASSUME Leave(r), sent' \subseteq sent \cup {f}, msg' \cup sent \subseteq sent',
             msg' \subseteq msg \cup (sent' \ sent), faults' \subseteq faults \cup {f},
             faults \subseteq faults',
             msg' = msg \/ faults' = faults \cup {f}, msg \subseteq msg'
      PROVE  DavInv'
  <2>1. PICK q : q = [req[r] EXCEPT !.pc = "done"]
    OBVIOUS
  <2>2. /\ q \in Request /\ Same(req[r], q) /\ q.pc = "done"
        /\ q.files = req[r].files /\ q.rows = req[r].rows
    BY <1>1, <2>1, GotoIs DEF Steps
  <2>3. StoreStep(r, q)
    <3>1. Grows(r, q)
      BY <1>1, <1>2, <1>3, <1>6, <2>2 DEF StoreTypes, Grows, Send, Same
    <3>2. RowsStep(r) /\ SettingsStep(r)
      BY DEF RowsStep, SettingsStep, Send
    <3>3. ChannelStep(r, q)
      <4>1. \A g \in Files \ faults' : g \in msg' <=> g \in msg
        BY <1>6
      <4>. QED
        BY <1>4, <4>1 DEF ChannelStep, Send
    <3>4. UploadStep(r, q)
      BY <1>1, <2>2 DEF UploadStep, Same
    <3>. QED
      BY <3>1, <3>2, <3>3, <3>4 DEF StoreStep
  <2>4. q.rows \cap msg' \subseteq faults'
    BY <1>3, <1>4, <1>6, <2>2
  <2>5. \A g \in q.files \cup q.rows :
          row'[g] = NoRow \/ (row[g] # NoRow /\ row'[g].folder = row[g].folder
                                              /\ row'[g].name = row[g].name)
    BY DEF Send
  <2>. QED
    BY <1>6, <2>1, <2>2, <2>3, <2>4, <2>5, Ended DEF Leave, Goto, Become
<1>7. CASE UNCHANGED <<msg, sent, faults>> /\ Leave(r)
  BY <1>1, <1>6, <1>7 DEF StoreTypes
<1>8. CASE msg' = msg \cup {f} /\ sent' = sent \cup {f} /\ faults' = faults \cup {f} /\ Leave(r)
  BY <1>1, <1>3, <1>6, <1>8 DEF StoreTypes
<1>. QED
  BY <1>2, <1>5, <1>7, <1>8 DEF Send

\* One step of the way up leaves the nearest visibility to be found.
LEMMA InheritKeeps ==
  ASSUME DavInv, NEW r \in Requests, Inherit(r)
  PROVE  DavInv'
<1>1. /\ req[r] \in Request /\ Sound(r, req[r]) /\ StoreTypes /\ req[r].pc = "inherit"
      /\ UNCHANGED <<row, setting, msg, sent, told, stale, faults>>
  BY DEF DavInv, StoreTypes, Inherit, At
<1>2. PICK p, d : p = req[r].at /\ d = req[r].to
  OBVIOUS
<1>3. /\ p \in Folders /\ d \in Folders
      /\ req[r].op \in {"upload", "put", "move", "rename", "davmove", "mkcol"}
      /\ r \notin stale /\ ~ req[r].failed => Below(p, d) /\ Nearest(p) = Nearest(d)
  BY <1>1, <1>2, RequestFields DEF Sound, Kind, Reads
<1>4. Nearest(d)' = Nearest(d)
  BY <1>1, <1>3, NearestKept
<1>5. ASSUME NEW q \in Request, Same(req[r], q), q.pc \in {"inherit", "write"},
             q.files = req[r].files, q.rows = req[r].rows, Become(r, q), Reads(r, q)'
      PROVE  DavInv'
  <2>1. StoreStep(r, q)
    <3>1. UploadStep(r, q)
      BY <1>1, <1>5 DEF UploadStep, Same
    <3>2. InFlight(q) = InFlight(req[r])
      BY <1>1, <1>5 DEF InFlight, Same
    <3>. QED
      BY <1>1, <1>5, <3>1, <3>2, QuietStep DEF Same, StoreTypes
  <2>2. Known(q)' /\ Targets(r, q)'
    <3>1. Known(req[r]) /\ q.rows \cap msg' \subseteq faults'
      BY <1>1, <1>5 DEF Sound, Known
    <3>2. q.op \in {"upload", "put", "bot"} => q.file \in sent'
      BY <1>1, <1>5, <3>1 DEF Known, Same
    <3>3. \A g \in q.files \cup q.rows :
            row'[g] = NoRow \/ (row[g] # NoRow /\ row'[g].folder = row[g].folder
                                                /\ row'[g].name = row[g].name)
      BY <1>1
    <3>. QED
      BY <1>5, <2>1, <3>1, <3>2, <3>3, KnowsOn
  <2>3. Kind(q)' /\ PurgeKind(q)'
    BY <1>1, <1>2, <1>3, <1>5 DEF Sound, Kind, PurgeKind, Same, Uploading, Purging
  <2>4. Renames(r, q)' /\ Empties(q)'
    BY <1>1, <1>5 DEF Sound, Renames, Empties, Same
  <2>5. Sound(r, q)'
    BY <1>5, <2>2, <2>3, <2>4 DEF Sound
  <2>. QED
    BY <1>5, <2>1, <2>5, Stepped DEF Become
<1>6. ASSUME NEW v \in Visibilities, Become(r, [req[r] EXCEPT !.vis = v, !.pc = "write"]),
             Nearest(p) = v
      PROVE  DavInv'
  <2>1. PICK q : q = [req[r] EXCEPT !.vis = v, !.pc = "write"]
    OBVIOUS
  <2>2. /\ q \in Request /\ Same(req[r], q) /\ q.pc = "write" /\ q.vis = v
        /\ q.files = req[r].files /\ q.rows = req[r].rows /\ q.failed = req[r].failed
    BY <1>1, <2>1 DEF Request, Same, Steps
  <2>3. Reads(r, q)'
    BY <1>1, <1>2, <1>3, <1>4, <1>6, <2>2 DEF Reads, Same
  <2>. QED
    BY <1>5, <1>6, <2>1, <2>2, <2>3
<1>7. CASE p = <<>>
  <2>1. "public" \in Visibilities /\ Nearest(p) = "public"
    BY <1>7, NearestOfRoot DEF Visibilities
  <2>2. Become(r, [req[r] EXCEPT !.vis = "public", !.pc = "write"])
    BY <1>2, <1>7 DEF Inherit
  <2>. QED
    BY <1>6, <2>1, <2>2
<1>8. CASE p # <<>> /\ setting[p] # "none"
  <2>1. setting[p] \in Visibilities /\ Nearest(p) = setting[p]
    BY <1>1, <1>3, <1>8, NearestOwn DEF StoreTypes, SettingTable
  <2>2. \/ Become(r, [req[r] EXCEPT !.vis = setting[p], !.pc = "write"])
        \/ Become(r, [req[r] EXCEPT !.at = Front(p), !.failed = TRUE])
    BY <1>2, <1>8 DEF Inherit
  <2>3. PICK v : v = setting[p]
    OBVIOUS
  <2>4. CASE Become(r, [req[r] EXCEPT !.vis = setting[p], !.pc = "write"])
    BY <1>6, <2>1, <2>3, <2>4
  <2>5. CASE Become(r, [req[r] EXCEPT !.at = Front(p), !.failed = TRUE])
    <3>1. PICK q : q = [req[r] EXCEPT !.at = Front(p), !.failed = TRUE]
      OBVIOUS
    <3>2. Front(p) \in Folders
      BY <1>3, <1>8, FrontIsAbove
    <3>3. /\ q \in Request /\ Same(req[r], q) /\ q.pc = "inherit" /\ q.failed
          /\ q.files = req[r].files /\ q.rows = req[r].rows
      BY <1>1, <3>1, <3>2 DEF Request, Same
    <3>4. Reads(r, q)'
      BY <3>3 DEF Reads
    <3>. QED
      BY <1>5, <2>5, <3>1, <3>3, <3>4
  <2>. QED
    BY <2>2, <2>4, <2>5
<1>9. CASE p # <<>> /\ setting[p] = "none"
  <2>1. /\ Front(p) \in Folders /\ Nearest(p) = Nearest(Front(p))
        /\ Below(Front(p), p)
    <3>1. Front(p) \in Folders /\ Nearest(p) = Nearest(Front(p))
      BY <1>3, <1>9, FrontIsAbove, NearestAbove
    <3>2. Len(p) \in Nat /\ Len(p) >= 1
      BY <1>3, <1>9, Above, FrontIsAbove
    <3>3. Len(p) - 1 \in 0..Len(p)
      BY <3>2
    <3>4. Below(Front(p), p)
      BY <1>3, <3>3, BelowIsAbove DEF Front
    <3>. QED
      BY <3>1, <3>4
  <2>2. PICK q : q = [req[r] EXCEPT !.at = Front(p)]
    OBVIOUS
  <2>3. /\ q \in Request /\ Same(req[r], q) /\ q.pc = "inherit" /\ q.at = Front(p)
        /\ q.files = req[r].files /\ q.rows = req[r].rows /\ q.failed = req[r].failed
    BY <1>1, <2>1, <2>2 DEF Request, Same
  <2>4. Become(r, q)
    BY <1>2, <1>9, <2>2 DEF Inherit
  <2>5. Nearest(Front(p))' = Nearest(Front(p))
    BY <1>1, <2>1, NearestKept
  <2>6. Reads(r, q)'
    <3>1. r \notin stale /\ ~ q.failed => Below(Front(p), d)
      BY <1>3, <2>1, <2>3, BelowTrans
    <3>2. r \notin stale' /\ ~ q.failed => Below(q.at, q.to)'
      BY <1>1, <1>2, <2>3, <3>1 DEF Same, Below
    <3>3. r \notin stale' /\ ~ q.failed => Nearest(q.at)' = Nearest(q.to)'
      BY <1>1, <1>2, <1>3, <1>4, <2>1, <2>3, <2>5 DEF Same
    <3>. QED
      BY <2>3, <3>2, <3>3 DEF Reads
  <2>. QED
    BY <1>5, <2>3, <2>4, <2>6
<1>. QED
  BY <1>7, <1>8, <1>9

\* A new row has its message, or the tie is broken; an old one is left alone.
LEMMA InsertKeeps ==
  ASSUME DavInv, NEW r \in Requests, Insert(r)
  PROVE  DavInv'
<1>1. /\ req[r] \in Request /\ Sound(r, req[r]) /\ StoreTypes /\ req[r].pc = "write"
      /\ req[r].op \in {"upload", "put", "bot"} /\ UNCHANGED <<setting, msg, sent, told>>
  BY DEF DavInv, StoreTypes, Insert, At
<1>2. PICK f, w : /\ f = req[r].file
                  /\ w = [folder |-> req[r].to, name |-> req[r].name, vis |-> req[r].vis]
  OBVIOUS
<1>3. f \in Files /\ f \in sent /\ w \in Rows /\ NoRow \notin Rows
  BY <1>1, <1>2, RequestFields, FileConstants DEF Sound, Kind, Known, Rows
<1>4. /\ \/ row[f] # NoRow /\ UNCHANGED <<row, stale>>
         \/ /\ row[f] = NoRow /\ row' = [row EXCEPT ![f] = w]
            /\ stale' = stale \cup Overtaken(r, {f})
      /\ faults' = faults \cup ({f} \ msg)
  BY <1>2 DEF Insert
<1>5. /\ row' \in RowTable /\ row'[f] # NoRow
      /\ \A g \in Files \ {f} : row'[g] = row[g]
      /\ row[f] # NoRow => row' = row
  BY <1>1, <1>3, <1>4 DEF StoreTypes, RowTable
<1>6. stale \subseteq stale' /\ stale' \subseteq Requests
  BY <1>1, <1>4 DEF Overtaken, StoreTypes
<1>7. f \notin req[r].files \cup req[r].rows
  BY <1>1, <1>2 DEF Sound, PurgeKind
<1>8. ASSUME NEW q \in Request, Same(req[r], q), q.pc \in {"done", "purge"},
             q.files = req[r].files, q.rows = req[r].rows, Become(r, q),
             q.pc = "purge" => q.files # {}
      PROVE  DavInv'
  <2>1. StoreStep(r, q)
    <3>1. Grows(r, q)
      BY <1>1, <1>3, <1>4, <1>5, <1>6, <1>8 DEF StoreTypes, Grows, Same
    <3>2. RowsStep(r)
      <4>. SUFFICES ASSUME NEW g \in Files
           PROVE  /\ row[g] = NoRow /\ row'[g] # NoRow =>
                       /\ req[r].pc = "write" /\ req[r].op \in {"upload", "put", "bot"}
                       /\ g = req[r].file
                  /\ \/ row'[g] = NoRow
                     \/ /\ row[g] # NoRow /\ row'[g].folder = row[g].folder
                        /\ row'[g].name = row[g].name
                     \/ Overtaken(r, {g}) \subseteq stale'
        BY DEF RowsStep
      <4>1. CASE g = f
        BY <1>1, <1>2, <1>4, <4>1
      <4>2. CASE g # f
        BY <1>5, <4>2
      <4>. QED
        BY <4>1, <4>2
    <3>3. SettingsStep(r)
      BY <1>1 DEF SettingsStep
    <3>4. ChannelStep(r, q)
      <4>1. \A g \in Files \ faults' : g = f => g \in msg
        BY <1>4
      <4>2. InFlight(req[r]) = {f}
        BY <1>1, <1>2 DEF InFlight
      <4>. QED
        BY <1>1, <1>5, <4>1, <4>2 DEF ChannelStep, Consistent
    <3>5. UploadStep(r, q)
      BY <1>1, <1>8 DEF UploadStep, Same
    <3>. QED
      BY <3>1, <3>2, <3>3, <3>4, <3>5 DEF StoreStep
  <2>2. q.rows \cap msg' \subseteq faults'
    BY <1>1, <1>4, <1>8 DEF Sound, Known
  <2>3. \A g \in q.files \cup q.rows :
          row'[g] = NoRow \/ (row[g] # NoRow /\ row'[g].folder = row[g].folder
                                              /\ row'[g].name = row[g].name)
    <3>1. \A g \in q.files \cup q.rows : g \in Files \ {f}
      BY <1>7, <1>8, RequestFields
    <3>. QED
      BY <1>5, <3>1
  <2>4. CASE q.pc = "done"
    BY <1>8, <2>1, <2>2, <2>3, <2>4, Ended DEF Become
  <2>5. CASE q.pc = "purge"
    <3>1. Known(q)' /\ Targets(r, q)'
      BY <1>8, <2>1, <2>2, <2>3, <2>5, KnowsOn
    <3>2. q.op = "put"
      BY <1>1, <1>8, <2>5 DEF Sound, PurgeKind, Same
    <3>3. Kind(q)' /\ PurgeKind(q)'
      BY <1>1, <1>8, <2>5, <3>2 DEF Sound, Kind, PurgeKind, Same, Purging, Uploading
    <3>4. Reads(r, q)' /\ Renames(r, q)' /\ Empties(q)'
      BY <2>5, <3>2 DEF Reads, Renames, Empties
    <3>5. Sound(r, q)'
      BY <3>1, <3>3, <3>4 DEF Sound
    <3>. QED
      BY <1>8, <2>1, <3>5, Stepped DEF Become
  <2>. QED
    BY <1>8, <2>4, <2>5
<1>9. PICK c \in Steps : c = IF req[r].files = {} THEN "done" ELSE "purge"
  BY DEF Steps
<1>10. PICK q : q = [req[r] EXCEPT !.pc = c]
  OBVIOUS
<1>11. /\ q \in Request /\ Same(req[r], q) /\ q.pc = c
       /\ q.files = req[r].files /\ q.rows = req[r].rows
  BY <1>1, <1>10, GotoIs
<1>12. Become(r, q)
  BY <1>9, <1>10 DEF Insert, Goto
<1>. QED
  BY <1>8, <1>9, <1>11, <1>12

\* An UPDATE moves its own file, and who has read the row is overtaken.
LEMMA UpdateKeeps ==
  ASSUME DavInv, NEW r \in Requests, Update(r)
  PROVE  DavInv'
<1>1. /\ req[r] \in Request /\ Sound(r, req[r]) /\ StoreTypes /\ req[r].pc = "write"
      /\ req[r].op \in {"move", "rename", "davmove"}
      /\ UNCHANGED <<setting, msg, sent, told, faults>>
  BY DEF DavInv, StoreTypes, Update, At
<1>2. PICK f, w : /\ f = req[r].file
                  /\ w = [folder |-> req[r].to,
                          name |-> IF req[r].op = "move" THEN row[f].name ELSE req[r].name,
                          vis |-> req[r].vis]
  OBVIOUS
<1>3. f \in Files /\ NoRow \notin Rows /\ (row[f] # NoRow => w \in Rows)
  <2>1. f \in Files /\ req[r].to \in Folders /\ req[r].name \in Names
        /\ req[r].vis \in Visibilities
    BY <1>1, <1>2, RequestFields DEF Sound, Kind
  <2>2. row[f] # NoRow => row[f].name \in Names
    BY <2>1, RowFields DEF Stored
  <2>. QED
    BY <1>2, <2>1, <2>2, FileConstants DEF Rows
<1>4. \/ row[f] = NoRow /\ UNCHANGED <<row, stale>>
      \/ /\ row[f] # NoRow /\ row' = [row EXCEPT ![f] = w]
         /\ stale' = stale \cup Overtaken(r, {f})
  BY <1>2 DEF Update
<1>5. /\ row' \in RowTable /\ \A g \in Files : row'[g] = NoRow <=> row[g] = NoRow
      /\ \A g \in Files \ {f} : row'[g] = row[g]
  BY <1>1, <1>3, <1>4 DEF StoreTypes, RowTable
<1>6. stale \subseteq stale' /\ stale' \subseteq Requests
  BY <1>1, <1>4 DEF Overtaken, StoreTypes
<1>7. PICK q : q = [req[r] EXCEPT !.pc = "done"]
  OBVIOUS
<1>8. /\ q \in Request /\ Same(req[r], q) /\ q.pc = "done"
      /\ q.files = req[r].files /\ q.rows = req[r].rows
  BY <1>1, <1>7, GotoIs DEF Steps
<1>9. q.files \cup q.rows = {}
  BY <1>1, <1>8 DEF Sound, PurgeKind
<1>10. StoreStep(r, q)
  <2>1. Grows(r, q)
    BY <1>1, <1>5, <1>6, <1>8 DEF StoreTypes, Grows, Same
  <2>2. RowsStep(r)
    <3>. SUFFICES ASSUME NEW g \in Files, row'[g] # NoRow
         PROVE  /\ row[g] # NoRow
                /\ \/ row'[g].folder = row[g].folder /\ row'[g].name = row[g].name
                   \/ Overtaken(r, {g}) \subseteq stale'
      BY DEF RowsStep
    <3>1. CASE g = f
      BY <1>4, <1>5, <3>1
    <3>2. CASE g # f
      BY <1>5, <3>2
    <3>. QED
      BY <3>1, <3>2
  <2>3. SettingsStep(r)
    BY <1>1 DEF SettingsStep
  <2>4. ChannelStep(r, q)
    BY <1>1, <1>5 DEF ChannelStep, InFlight
  <2>5. UploadStep(r, q)
    BY <1>1, <1>8 DEF UploadStep, Uploading, Same
  <2>. QED
    BY <2>1, <2>2, <2>3, <2>4, <2>5 DEF StoreStep
<1>. QED
  BY <1>7, <1>8, <1>9, <1>10, Ended DEF Update, Leave, Goto, Become

\* Statements on the settings change nothing that their own request has named.
LEMMA SettingsOnly ==
  ASSUME DavInv, NEW r \in Requests, NEW q \in Request, Same(req[r], q),
         UNCHANGED <<row, msg, sent, told, faults>>, setting' \in SettingTable, SettingsStep(r),
         stale \subseteq stale', stale' \subseteq Requests,
         InFlight(req[r]) = {}, ~ Uploading(q),
         q.files = req[r].files, q.rows = req[r].rows,
         q.pc \notin {"pending", "inherit", "write"}
  PROVE  StoreStep(r, q) /\ Known(q)' /\ Targets(r, q)'
<1>1. StoreTypes /\ Sound(r, req[r])
  BY DEF DavInv
<1>2. StoreStep(r, q)
  <2>1. Grows(r, q)
    BY <1>1 DEF StoreTypes, Grows, Same
  <2>2. RowsStep(r)
    BY DEF RowsStep
  <2>3. ChannelStep(r, q)
    BY DEF ChannelStep
  <2>4. UploadStep(r, q)
    BY DEF UploadStep
  <2>. QED
    BY <2>1, <2>2, <2>3, <2>4 DEF StoreStep
<1>3. q.rows \cap msg' \subseteq faults'
  BY <1>1 DEF Sound, Known
<1>4. \A g \in q.files \cup q.rows :
        row'[g] = NoRow \/ (row[g] # NoRow /\ row'[g].folder = row[g].folder
                                            /\ row'[g].name = row[g].name)
  OBVIOUS
<1>. QED
  BY <1>2, <1>3, <1>4, KnowsOn

\* A new visibility of a folder crosses who has read its settings.
LEMMA UpsertKeeps ==
  ASSUME DavInv, NEW r \in Requests, Upsert(r)
  PROVE  DavInv'
<1>1. /\ req[r] \in Request /\ Sound(r, req[r]) /\ StoreTypes /\ req[r].pc = "upsert"
      /\ UNCHANGED <<row, msg, sent, told, faults>>
      /\ setting' = [setting EXCEPT ![req[r].to] = req[r].vis]
      /\ stale' = stale \cup Crossed(r, {req[r].to})
  BY DEF DavInv, StoreTypes, Upsert, At
<1>2. PICK p : p = req[r].to
  OBVIOUS
<1>3. p \in Folders \ {<<>>} /\ req[r].vis \in Visibilities /\ ~ Uploading(req[r])
  BY <1>1, <1>2, RequestFields DEF Sound, Kind, Uploading
<1>4. setting' \in SettingTable
  BY <1>1, <1>2, <1>3 DEF StoreTypes, SettingTable
<1>5. SettingsStep(r)
  BY <1>1, <1>2, <1>3 DEF SettingsStep, StoreTypes, SettingTable
<1>6. stale \subseteq stale' /\ stale' \subseteq Requests
  BY <1>1 DEF Crossed, StoreTypes
<1>7. PICK q : q = [req[r] EXCEPT !.pc = "spread"]
  OBVIOUS
<1>8. /\ q \in Request /\ Same(req[r], q) /\ q.pc = "spread"
      /\ q.files = req[r].files /\ q.rows = req[r].rows
  BY <1>1, <1>7, GotoIs DEF Steps
<1>9. StoreStep(r, q) /\ Known(q)' /\ Targets(r, q)'
  <2>1. InFlight(req[r]) = {}
    BY <1>1 DEF InFlight
  <2>2. ~ Uploading(q)
    BY <1>3, <1>8 DEF Uploading, Same
  <2>. QED
    BY <1>1, <1>4, <1>5, <1>6, <1>8, <2>1, <2>2, SettingsOnly
<1>10. Sound(r, q)'
  <2>1. Kind(q)' /\ PurgeKind(q)'
    BY <1>1, <1>8 DEF Sound, Kind, PurgeKind, Same, Purging, Uploading
  <2>2. Reads(r, q)' /\ Renames(r, q)' /\ Empties(q)'
    BY <1>8 DEF Reads, Renames, Empties
  <2>. QED
    BY <1>9, <2>1, <2>2 DEF Sound
<1>. QED
  BY <1>7, <1>8, <1>9, <1>10, Stepped DEF Upsert, Goto, Become

\* The visibility of the files of a folder moves none of them.
LEMMA SpreadKeeps ==
  ASSUME DavInv, NEW r \in Requests, Spread(r)
  PROVE  DavInv'
<1>1. /\ req[r] \in Request /\ Sound(r, req[r]) /\ StoreTypes /\ req[r].pc = "spread"
      /\ UNCHANGED <<setting, msg, sent, told, stale, faults>>
  BY DEF DavInv, StoreTypes, Spread, At
<1>2. PICK v : v = req[r].vis
  OBVIOUS
<1>3. v \in Visibilities /\ NoRow \notin Rows
  BY <1>1, <1>2, RequestFields, FileConstants
<1>4. row' = [f \in Files |-> IF f \in Covered(req[r]) THEN [row[f] EXCEPT !.vis = v]
                                                       ELSE row[f]]
  BY <1>2 DEF Spread
<1>5. ASSUME NEW f \in Files
      PROVE  /\ row'[f] \in Rows \cup {NoRow} /\ (row'[f] = NoRow <=> row[f] = NoRow)
             /\ row[f] # NoRow => /\ row'[f].folder = row[f].folder
                                  /\ row'[f].name = row[f].name
  <2>1. CASE f \in Covered(req[r])
    <3>1. f \in Stored
      BY <2>1 DEF Covered
    <3>2. row[f] \in Rows
      BY <3>1, RowFields
    <3>3. row'[f] = [row[f] EXCEPT !.vis = v]
      BY <1>4, <2>1
    <3>. QED
      BY <1>3, <3>1, <3>2, <3>3 DEF Rows, Stored
  <2>2. CASE f \notin Covered(req[r])
    BY <1>1, <1>4, <2>2 DEF StoreTypes, RowTable
  <2>. QED
    BY <2>1, <2>2
<1>6. row' \in RowTable
  BY <1>4, <1>5 DEF RowTable
<1>7. PICK q : q = [req[r] EXCEPT !.pc = "done"]
  OBVIOUS
<1>8. /\ q \in Request /\ Same(req[r], q) /\ q.pc = "done"
      /\ q.files = req[r].files /\ q.rows = req[r].rows
  BY <1>1, <1>7, GotoIs DEF Steps
<1>9. StoreStep(r, q)
  <2>1. Grows(r, q)
    BY <1>1, <1>6, <1>8 DEF StoreTypes, Grows, Same
  <2>2. RowsStep(r)
    BY <1>5 DEF RowsStep
  <2>3. SettingsStep(r)
    BY <1>1 DEF SettingsStep
  <2>4. ChannelStep(r, q)
    BY <1>1, <1>5 DEF ChannelStep, InFlight
  <2>5. UploadStep(r, q)
    BY <1>1, <1>8 DEF UploadStep, Same
  <2>. QED
    BY <2>1, <2>2, <2>3, <2>4, <2>5 DEF StoreStep
<1>10. q.rows \cap msg' \subseteq faults'
  BY <1>1, <1>8 DEF Sound, Known
<1>11. \A g \in q.files \cup q.rows :
         row'[g] = NoRow \/ (row[g] # NoRow /\ row'[g].folder = row[g].folder
                                             /\ row'[g].name = row[g].name)
  BY <1>5, <1>8, RequestFields
<1>. QED
  BY <1>7, <1>8, <1>9, <1>10, <1>11, Ended DEF Spread, Leave, Goto, Become

\* A purge goes on, to its next step when nothing is left.
LEMMA SettledIs ==
  ASSUME NEW m \in Request, NEW q, q = Settled(m)
  PROVE  /\ q \in Request /\ Same(m, q) /\ q.at = m.at /\ q.files = m.files
         /\ q.rows = m.rows /\ q.failed = m.failed
         /\ m.files \cup m.rows # {} => q.pc = m.pc
         /\ m.files \cup m.rows = {} =>
              q.pc = IF m.strict /\ m.failed THEN "done" ELSE m.next
<1>1. CASE m.files \cup m.rows # {}
  BY <1>1 DEF Settled, Same
<1>2. CASE m.files \cup m.rows = {}
  <2>1. PICK c : c = IF m.strict /\ m.failed THEN "done" ELSE m.next
    OBVIOUS
  <2>2. c \in Steps
    BY <2>1, RequestFields DEF Steps
  <2>3. q = [m EXCEPT !.pc = c]
    BY <1>2, <2>1 DEF Settled
  <2>. QED
    BY <1>2, <2>1, <2>2, <2>3, GotoIs
<1>. QED
  BY <1>1, <1>2

\* A step of a purge that keeps rows and messages together keeps the invariant.
LEMMA Purged ==
  ASSUME DavInv, NEW r \in Requests, At(r, "purge"), NEW m \in Request, Same(req[r], m),
         m.pc = "purge", m.at = req[r].at,
         m.files \cup m.rows \subseteq req[r].files \cup req[r].rows,
         NEW q, q = m \/ q = Settled(m), Become(r, q),
         UNCHANGED <<setting, sent, told, stale>>, row' \in RowTable,
         \A f \in Files : row'[f] = NoRow \/ (row'[f] = row[f] /\ row[f] # NoRow),
         msg' \subseteq msg, faults \subseteq faults', faults' \subseteq Files,
         Empties(m)', m.rows \cap msg' \subseteq faults',
         \A f \in Files \ faults' :
           \/ f \in m.rows
           \/ row'[f] # NoRow <=> f \in msg'
           \/ row'[f] = row[f] /\ (f \in msg' <=> f \in msg) /\ f \notin req[r].rows
  PROVE  DavInv'
<1>1. req[r] \in Request /\ Sound(r, req[r]) /\ StoreTypes /\ req[r].pc = "purge"
  BY DEF DavInv, StoreTypes, At
<1>2. /\ q \in Request /\ Same(req[r], q) /\ q.at = req[r].at /\ q.files = m.files
      /\ q.rows = m.rows /\ q.failed = m.failed
      /\ \/ q.pc = "purge"
         \/ /\ m.files \cup m.rows = {}
            /\ q.pc = IF m.strict /\ m.failed THEN "done" ELSE m.next
  <2>1. CASE q = m
    BY <2>1
  <2>2. CASE q = Settled(m)
    BY <2>2, SettledIs DEF Same
  <2>. QED
    BY <2>1, <2>2
<1>3. StoreStep(r, q)
  <2>1. Grows(r, q)
    BY <1>1, <1>2 DEF StoreTypes, Grows, Same
  <2>2. RowsStep(r)
    BY DEF RowsStep
  <2>3. SettingsStep(r)
    BY DEF SettingsStep
  <2>4. ChannelStep(r, q)
    <3>1. InFlight(req[r]) = req[r].rows /\ (m.rows # {} => InFlight(q) = m.rows)
      BY <1>1, <1>2 DEF InFlight
    <3>. QED
      BY <3>1 DEF ChannelStep, Consistent
  <2>5. UploadStep(r, q)
    <3>1. ASSUME Uploading(q) PROVE q.pc \in {"purge", "done"}
      BY <1>1, <1>2, <3>1 DEF Sound, PurgeKind, Purging, Uploading, Same
    <3>. QED
      BY <1>2, <3>1 DEF UploadStep, Same
  <2>. QED
    BY <2>1, <2>2, <2>3, <2>4, <2>5 DEF StoreStep
<1>4. q.pc \in {"purge", "done"} \/ (q.pc = "inherit" /\ q.op = "davmove")
      \/ (q.pc = "forget" /\ q.op = "rmdir" /\ ~ q.failed)
  BY <1>1, <1>2 DEF Sound, PurgeKind, Purging, Same
<1>5. Known(q)' /\ Targets(r, q)'
  <2>1. q.pc \in {"pending", "inherit", "write"} => q.op \notin {"upload", "put", "bot"}
    BY <1>4
  <2>2. \A f \in q.files \cup q.rows :
          row'[f] = NoRow \/ (row[f] # NoRow /\ row'[f].folder = row[f].folder
                                              /\ row'[f].name = row[f].name)
    BY <1>2, RequestFields
  <2>. QED
    BY <1>2, <1>3, <2>1, <2>2, KnowsOn
<1>6. Kind(q)' /\ PurgeKind(q)'
  <2>1. Kind(q)'
    BY <1>1, <1>2, <1>4 DEF Sound, Kind, PurgeKind, Purging, Same, Uploading
  <2>2. PurgeKind(q)'
    BY <1>1, <1>2, <1>4 DEF Sound, PurgeKind, Purging, Same
  <2>. QED
    BY <2>1, <2>2
<1>7. Reads(r, q)' /\ Renames(r, q)'
  <2>1. q.pc = "inherit" => q.at = q.to /\ q.at \in Folders
    BY <1>1, <1>2, <1>4 DEF Sound, PurgeKind, Purging, Same
  <2>2. q.pc = "inherit" => Below(q.at, q.to)'
    BY <2>1, BelowItself DEF Below
  <2>. QED
    BY <1>4, <2>1, <2>2 DEF Reads, Renames
<1>8. Empties(q)'
  BY <1>2 DEF Empties, Same
<1>9. Sound(r, q)'
  BY <1>5, <1>6, <1>7, <1>8 DEF Sound
<1>. QED
  BY <1>2, <1>3, <1>9, Stepped DEF Become

\* A message goes before its row, whatever Telegram answers.
LEMMA UnmessageKeeps ==
  ASSUME DavInv, NEW r \in Requests, Unmessage(r)
  PROVE  DavInv'
<1>1. /\ req[r] \in Request /\ Sound(r, req[r]) /\ StoreTypes /\ At(r, "purge")
      /\ req[r].pc = "purge" /\ UNCHANGED <<row, setting, sent, told, stale>>
  BY DEF DavInv, StoreTypes, Unmessage, At
<1>2. PICK f \in req[r].files :
        LET q == [req[r] EXCEPT !.files = @ \ {f}]
            answered == [q EXCEPT !.rows = @ \cup {f}]
        IN /\ q.op = "delete" => q.rows = {} /\ row[f] # NoRow
           /\ \/ msg' = msg \ {f} /\ Become(r, answered) /\ UNCHANGED faults
              \/ /\ f \in msg /\ UNCHANGED msg
                 /\ Become(r, answered) /\ faults' = faults \cup {f}
              \/ /\ msg' \in {msg, msg \ {f}} /\ faults' = faults \cup {f}
                 /\ IF q.op = "delete" THEN Become(r, answered) \/ Leave(r)
                    ELSE Become(r, Settled([q EXCEPT !.failed = TRUE]))
  BY DEF Unmessage
<1>3. PICK q : q = [req[r] EXCEPT !.files = @ \ {f}]
  OBVIOUS
<1>4. PICK a : a = [q EXCEPT !.rows = @ \cup {f}]
  OBVIOUS
<1>5. PICK b : b = [q EXCEPT !.failed = TRUE]
  OBVIOUS
<1>6. f \in Files /\ req[r].rows \cap msg \subseteq faults
  BY <1>1, RequestFields DEF Sound, Known
<1>7. /\ q \in Request /\ Same(req[r], q) /\ q.pc = "purge" /\ q.at = req[r].at
      /\ q.files = req[r].files \ {f} /\ q.rows = req[r].rows /\ q.failed = req[r].failed
  BY <1>1, <1>3 DEF Request, Same
<1>8. /\ a \in Request /\ Same(req[r], a) /\ a.pc = "purge" /\ a.at = req[r].at
      /\ a.files = req[r].files \ {f} /\ a.rows = req[r].rows \cup {f}
      /\ a.failed = req[r].failed
  BY <1>4, <1>6, <1>7 DEF Request, Same
<1>9. /\ b \in Request /\ Same(req[r], b) /\ b.pc = "purge" /\ b.at = req[r].at
      /\ b.files = req[r].files \ {f} /\ b.rows = req[r].rows /\ b.failed
  BY <1>5, <1>7 DEF Request, Same
<1>10. \A g \in Files : row'[g] = NoRow \/ (row'[g] = row[g] /\ row[g] # NoRow)
  BY <1>1
<1>11. row' \in RowTable
  BY <1>1 DEF StoreTypes
<1>12. Empties(a)' /\ Empties(b)'
  <2>1. Empties(a)'
    BY <1>1, <1>8 DEF Sound, Empties, Same
  <2>. QED
    BY <1>9, <2>1 DEF Empties
<1>13. ASSUME Become(r, a), msg' \in {msg, msg \ {f}}, faults' \in {faults, faults \cup {f}},
              f \in msg' => f \in faults'
       PROVE  DavInv'
  <2>1. msg' \subseteq msg /\ faults \subseteq faults' /\ faults' \subseteq Files
    BY <1>1, <1>6, <1>13 DEF StoreTypes
  <2>2. a.rows \cap msg' \subseteq faults'
    BY <1>6, <1>8, <1>13
  <2>3. \A g \in Files \ faults' :
          \/ g \in a.rows
          \/ row'[g] # NoRow <=> g \in msg'
          \/ row'[g] = row[g] /\ (g \in msg' <=> g \in msg) /\ g \notin req[r].rows
    BY <1>1, <1>8, <1>13
  <2>4. a.files \cup a.rows \subseteq req[r].files \cup req[r].rows
    BY <1>8
  <2>. QED
    BY <1>1, <1>8, <1>10, <1>11, <1>12, <1>13, <2>1, <2>2, <2>3, <2>4, Purged
<1>14. ASSUME msg' \in {msg, msg \ {f}}, faults' = faults \cup {f}, Become(r, Settled(b))
       PROVE  DavInv'
  <2>1. msg' \subseteq msg /\ faults \subseteq faults' /\ faults' \subseteq Files
    BY <1>1, <1>6, <1>14 DEF StoreTypes
  <2>2. b.rows \cap msg' \subseteq faults'
    BY <1>6, <1>9, <1>14
  <2>3. \A g \in Files \ faults' :
          \/ g \in b.rows
          \/ row'[g] # NoRow <=> g \in msg'
          \/ row'[g] = row[g] /\ (g \in msg' <=> g \in msg) /\ g \notin req[r].rows
    BY <1>1, <1>9, <1>14
  <2>4. b.files \cup b.rows \subseteq req[r].files \cup req[r].rows
    BY <1>9
  <2>5. PICK c : c = Settled(b)
    OBVIOUS
  <2>6. Become(r, c)
    BY <1>14, <2>5
  <2>. QED
    BY <1>1, <1>9, <1>10, <1>11, <1>12, <2>1, <2>2, <2>3, <2>4, <2>5, <2>6, Purged
<1>15. ASSUME msg' \in {msg, msg \ {f}}, faults' = faults \cup {f}, Leave(r),
              req[r].rows = {}
       PROVE  DavInv'
  <2>1. PICK d : d = [req[r] EXCEPT !.pc = "done"]
    OBVIOUS
  <2>2. /\ d \in Request /\ Same(req[r], d) /\ d.pc = "done"
        /\ d.files = req[r].files /\ d.rows = req[r].rows
    BY <1>1, <2>1, GotoIs DEF Steps
  <2>3. StoreStep(r, d)
    <3>1. Grows(r, d)
      BY <1>1, <1>6, <1>15, <2>2 DEF StoreTypes, Grows, Same
    <3>2. RowsStep(r) /\ SettingsStep(r)
      BY <1>1 DEF RowsStep, SettingsStep
    <3>3. ChannelStep(r, d)
      <4>1. \A g \in Files \ faults' : g \in msg' <=> g \in msg
        BY <1>15
      <4>2. InFlight(req[r]) = {}
        BY <1>1, <1>15 DEF InFlight
      <4>. QED
        BY <1>1, <4>1, <4>2 DEF ChannelStep
    <3>4. UploadStep(r, d)
      BY <1>1, <2>2 DEF UploadStep, Same
    <3>. QED
      BY <3>1, <3>2, <3>3, <3>4 DEF StoreStep
  <2>4. \A g \in d.files \cup d.rows :
          row'[g] = NoRow \/ (row[g] # NoRow /\ row'[g].folder = row[g].folder
                                              /\ row'[g].name = row[g].name)
    BY <1>1
  <2>5. d.rows \cap msg' \subseteq faults'
    BY <1>15, <2>2
  <2>. QED
    BY <1>15, <2>1, <2>2, <2>3, <2>4, <2>5, Ended DEF Leave, Goto, Become
<1>16. /\ q.op = "delete" => req[r].rows = {}
       /\ \/ msg' = msg \ {f} /\ Become(r, a) /\ UNCHANGED faults
          \/ UNCHANGED msg /\ Become(r, a) /\ faults' = faults \cup {f}
          \/ /\ msg' \in {msg, msg \ {f}} /\ faults' = faults \cup {f}
             /\ IF q.op = "delete" THEN Become(r, a) \/ Leave(r) ELSE Become(r, Settled(b))
  BY <1>2, <1>3, <1>4, <1>5, <1>7
<1>17. CASE msg' = msg \ {f} /\ Become(r, a) /\ UNCHANGED faults
  BY <1>13, <1>17
<1>18. CASE UNCHANGED msg /\ Become(r, a) /\ faults' = faults \cup {f}
  BY <1>13, <1>18
<1>. QED
  BY <1>13, <1>14, <1>15, <1>16, <1>17, <1>18

\* A file without a row is passed over.
LEMMA MissingKeeps ==
  ASSUME DavInv, NEW r \in Requests, Missing(r)
  PROVE  DavInv'
<1>1. /\ req[r] \in Request /\ Sound(r, req[r]) /\ StoreTypes /\ At(r, "purge")
      /\ req[r].pc = "purge" /\ req[r].op = "delete" /\ req[r].rows = {}
      /\ UNCHANGED <<row, setting, msg, sent, told, stale, faults>>
  BY DEF DavInv, StoreTypes, Missing, At
<1>2. PICK f \in req[r].files \ Stored : Become(r, Settled([req[r] EXCEPT !.files = @ \ {f}]))
  BY DEF Missing
<1>3. PICK m : m = [req[r] EXCEPT !.files = @ \ {f}]
  OBVIOUS
<1>4. /\ m \in Request /\ Same(req[r], m) /\ m.pc = "purge" /\ m.at = req[r].at
      /\ m.files = req[r].files \ {f} /\ m.rows = {}
  BY <1>1, <1>3 DEF Request, Same
<1>5. PICK c : c = Settled(m)
  OBVIOUS
<1>6. Become(r, c)
  BY <1>2, <1>3, <1>5
<1>7. /\ row' \in RowTable /\ msg' \subseteq msg /\ faults \subseteq faults'
      /\ faults' \subseteq Files
      /\ \A g \in Files : row'[g] = NoRow \/ (row'[g] = row[g] /\ row[g] # NoRow)
  BY <1>1 DEF StoreTypes
<1>8. Empties(m)'
  BY <1>1, <1>4 DEF Empties, Same
<1>9. \A g \in Files \ faults' :
        \/ g \in m.rows
        \/ row'[g] # NoRow <=> g \in msg'
        \/ row'[g] = row[g] /\ (g \in msg' <=> g \in msg) /\ g \notin req[r].rows
  BY <1>1
<1>10. /\ m.files \cup m.rows \subseteq req[r].files \cup req[r].rows
       /\ m.rows \cap msg' \subseteq faults'
  BY <1>4
<1>. QED
  BY <1>1, <1>4, <1>5, <1>6, <1>7, <1>8, <1>9, <1>10, Purged

\* A row goes after its message, or stays without it, and a purge that is done goes on.
LEMMA DropRowKeeps ==
  ASSUME DavInv, NEW r \in Requests, DropRow(r)
  PROVE  DavInv'
<1>1. /\ req[r] \in Request /\ Sound(r, req[r]) /\ StoreTypes /\ At(r, "purge")
      /\ req[r].pc = "purge" /\ UNCHANGED <<setting, msg, sent, told, stale>>
  BY DEF DavInv, StoreTypes, DropRow, At
<1>2. PICK f \in req[r].rows :
        LET q == [req[r] EXCEPT !.rows = @ \ {f}] IN
        \/ /\ row' = [row EXCEPT ![f] = NoRow]
           /\ Become(r, Settled([q EXCEPT !.failed = @ \/ row[f] = NoRow]))
           /\ UNCHANGED faults
        \/ /\ Become(r, Settled([q EXCEPT !.failed = TRUE]))
           /\ faults' = faults \cup {f}
           /\ UNCHANGED row
  BY DEF DropRow
<1>3. PICK q : q = [req[r] EXCEPT !.rows = @ \ {f}]
  OBVIOUS
<1>4. /\ q \in Request /\ Same(req[r], q) /\ q.pc = "purge" /\ q.at = req[r].at
      /\ q.files = req[r].files /\ q.rows = req[r].rows \ {f} /\ q.failed = req[r].failed
  BY <1>1, <1>3 DEF Request, Same
<1>5. f \in Files /\ req[r].rows \cap msg \subseteq faults
  BY <1>1, RequestFields DEF Sound, Known
<1>6. PICK x \in BOOLEAN :
        /\ Become(r, Settled([q EXCEPT !.failed = x]))
        /\ \/ /\ row' = [row EXCEPT ![f] = NoRow] /\ x = (q.failed \/ row[f] = NoRow)
              /\ UNCHANGED faults
           \/ x = TRUE /\ faults' = faults \cup {f} /\ UNCHANGED row
  <2>1. (q.failed \/ row[f] = NoRow) \in BOOLEAN
    OBVIOUS
  <2>2. CASE /\ row' = [row EXCEPT ![f] = NoRow]
             /\ Become(r, Settled([q EXCEPT !.failed = @ \/ row[f] = NoRow]))
             /\ UNCHANGED faults
    <3>1. PICK x \in BOOLEAN : x = (q.failed \/ row[f] = NoRow)
      BY <2>1
    <3>2. [q EXCEPT !.failed = @ \/ row[f] = NoRow] = [q EXCEPT !.failed = x]
      BY <3>1
    <3>. QED
      BY <2>2, <3>1, <3>2
  <2>3. CASE /\ Become(r, Settled([q EXCEPT !.failed = TRUE]))
             /\ faults' = faults \cup {f}
             /\ UNCHANGED row
    BY <2>3
  <2>. QED
    BY <1>2, <1>3, <2>2, <2>3
<1>7. PICK m : m = [q EXCEPT !.failed = x]
  OBVIOUS
<1>8. /\ m \in Request /\ Same(req[r], m) /\ m.pc = "purge" /\ m.at = req[r].at
      /\ m.files = req[r].files /\ m.rows = req[r].rows \ {f} /\ m.failed = x
  BY <1>4, <1>7 DEF Request, Same
<1>9. PICK c : c = Settled(m)
  OBVIOUS
<1>10. Become(r, c)
  BY <1>6, <1>7, <1>9
<1>11. /\ row' \in RowTable
       /\ row'[f] = NoRow \/ (row'[f] = row[f] /\ f \in faults' /\ x = TRUE)
       /\ \A g \in Files \ {f} : row'[g] = row[g]
       /\ ~ x => ~ req[r].failed
       /\ faults \subseteq faults' /\ faults' \subseteq Files
  BY <1>1, <1>4, <1>5, <1>6 DEF StoreTypes, RowTable
<1>12. \A g \in Files : row'[g] = NoRow \/ (row'[g] = row[g] /\ row[g] # NoRow)
  BY <1>11
<1>13. Empties(m)'
  <2>. SUFFICES ASSUME m.op = "rmdir", ~ m.failed, NEW g \in m.found \ Posted,
                       g \notin m.files \cup m.rows
                PROVE  row'[g] = NoRow
    BY DEF Empties
  <2>1. g \in Files /\ ~ x
    BY <1>8, RequestFields
  <2>2. CASE g = f
    BY <1>11, <2>1, <2>2
  <2>3. CASE g # f
    <3>1. Empties(req[r]) /\ ~ req[r].failed
      BY <1>1, <1>11, <2>1 DEF Sound
    <3>2. row[g] = NoRow
      BY <1>1, <1>8, <2>3, <3>1 DEF Empties, Same
    <3>. QED
      BY <1>11, <2>1, <2>3, <3>2
  <2>. QED
    BY <2>2, <2>3
<1>14. \A g \in Files \ faults' :
         \/ g \in m.rows
         \/ row'[g] # NoRow <=> g \in msg'
         \/ row'[g] = row[g] /\ (g \in msg' <=> g \in msg) /\ g \notin req[r].rows
  <2>. SUFFICES ASSUME NEW g \in Files \ faults', g \notin m.rows
                PROVE  \/ row'[g] # NoRow <=> g \in msg'
                       \/ row'[g] = row[g] /\ (g \in msg' <=> g \in msg) /\ g \notin req[r].rows
    OBVIOUS
  <2>1. CASE g = f
    BY <1>1, <1>5, <1>11, <2>1
  <2>2. CASE g # f
    BY <1>1, <1>8, <1>11, <2>2
  <2>. QED
    BY <2>1, <2>2
<1>15. /\ m.files \cup m.rows \subseteq req[r].files \cup req[r].rows
       /\ m.rows \cap msg' \subseteq faults' /\ msg' \subseteq msg
  BY <1>1, <1>5, <1>8, <1>11
<1>. QED
  BY <1>1, <1>8, <1>9, <1>10, <1>11, <1>12, <1>13, <1>14, <1>15, Purged

\* The settings of a folder go, and who has read them is crossed.
LEMMA ForgetKeeps ==
  ASSUME DavInv, NEW r \in Requests, Forget(r)
  PROVE  DavInv'
<1>1. /\ req[r] \in Request /\ Sound(r, req[r]) /\ StoreTypes /\ req[r].pc = "forget"
      /\ req[r].op = "rmdir" /\ UNCHANGED <<row, msg, sent, told, faults>>
  BY DEF DavInv, StoreTypes, Forget, At, Sound, Kind
<1>2. PICK S : S = {p \in Folders \ {<<>>} : SqlBelow(req[r].to, p)}
  OBVIOUS
<1>3. /\ setting' = [p \in DOMAIN setting |-> IF p \in S THEN "none" ELSE setting[p]]
      /\ stale' = stale \cup Crossed(r, S)
  BY <1>2 DEF Forget
<1>4. setting' \in SettingTable
  BY <1>1, <1>3 DEF StoreTypes, SettingTable
<1>5. SettingsStep(r)
  BY <1>1, <1>3 DEF SettingsStep, StoreTypes, SettingTable, Crossed
<1>6. stale \subseteq stale' /\ stale' \subseteq Requests
  BY <1>1, <1>3 DEF Crossed, StoreTypes
<1>7. PICK q : q = [req[r] EXCEPT !.pc = "done"]
  OBVIOUS
<1>8. /\ q \in Request /\ Same(req[r], q) /\ q.pc = "done"
      /\ q.files = req[r].files /\ q.rows = req[r].rows
  BY <1>1, <1>7, GotoIs DEF Steps
<1>9. StoreStep(r, q) /\ Known(q)' /\ Targets(r, q)'
  <2>1. InFlight(req[r]) = {} /\ ~ Uploading(q)
    BY <1>1, <1>8 DEF InFlight, Uploading, Same
  <2>. QED
    BY <1>1, <1>4, <1>5, <1>6, <1>8, <2>1, SettingsOnly
<1>10. Sound(r, q)'
  BY <1>1, <1>8, <1>9, EndIsSound DEF Same
<1>. QED
  BY <1>7, <1>8, <1>9, <1>10, Stepped DEF Forget, Leave, Goto, Become

\* The files of a moved folder move, and who has read their rows is overtaken.
LEMMA ShiftFilesKeeps ==
  ASSUME DavInv, NEW r \in Requests, ShiftFiles(r)
  PROVE  DavInv'
<1>1. /\ req[r] \in Request /\ Sound(r, req[r]) /\ StoreTypes /\ req[r].pc = "shift"
      /\ req[r].op = "davfolder" /\ UNCHANGED <<setting, msg, sent, told, faults>>
  BY DEF DavInv, StoreTypes, ShiftFiles, At, Sound, Kind
<1>2. PICK F, p, d : /\ F = {f \in Stored : SqlBelow(req[r].from, row[f].folder)}
                     /\ p = req[r].from /\ d = req[r].to
  OBVIOUS
<1>3. /\ row' = [f \in Files |-> IF f \in F THEN [row[f] EXCEPT !.folder = Moved(p, d, @)]
                                            ELSE row[f]]
      /\ stale' = stale \cup Overtaken(r, F)
  BY <1>2 DEF ShiftFiles
<1>4. \A x \in Folders : SqlBelow(p, x) => Moved(p, d, x) \in Folders
  BY <1>1, <1>2 DEF Sound, Kind
<1>5. ASSUME NEW f \in Files
      PROVE  /\ row'[f] \in Rows \cup {NoRow} /\ (row'[f] = NoRow <=> row[f] = NoRow)
             /\ f \notin F => row'[f] = row[f]
  <2>1. CASE f \in F
    <3>1. f \in Stored /\ row[f] \in Rows /\ row[f].folder \in Folders /\ NoRow \notin Rows
      BY <1>2, <2>1, RowFields, FileConstants
    <3>2. PICK e : e = Moved(p, d, row[f].folder)
      OBVIOUS
    <3>3. e \in Folders
      BY <1>2, <1>4, <2>1, <3>1, <3>2
    <3>4. row'[f] = [row[f] EXCEPT !.folder = e]
      BY <1>3, <2>1, <3>2
    <3>. QED
      BY <2>1, <3>1, <3>3, <3>4 DEF Rows, Stored
  <2>2. CASE f \notin F
    BY <1>1, <1>3, <2>2 DEF StoreTypes, RowTable
  <2>. QED
    BY <2>1, <2>2
<1>6. row' \in RowTable
  BY <1>3, <1>5 DEF RowTable
<1>7. PICK q : q = [req[r] EXCEPT !.pc = "settings"]
  OBVIOUS
<1>8. /\ q \in Request /\ Same(req[r], q) /\ q.pc = "settings"
      /\ q.files = req[r].files /\ q.rows = req[r].rows
  BY <1>1, <1>7, GotoIs DEF Steps
<1>9. q.files \cup q.rows = {}
  BY <1>1, <1>8 DEF Sound, PurgeKind
<1>10. StoreStep(r, q)
  <2>1. Grows(r, q)
    <3>1. stale \subseteq stale' /\ stale' \subseteq Requests
      BY <1>1, <1>3 DEF Overtaken, StoreTypes
    <3>. QED
      BY <1>1, <1>6, <1>8, <3>1 DEF StoreTypes, Grows, Same
  <2>2. RowsStep(r)
    <3>. SUFFICES ASSUME NEW f \in Files
         PROVE  /\ row[f] = NoRow => row'[f] = NoRow
                /\ \/ row'[f] = NoRow
                   \/ /\ row[f] # NoRow /\ row'[f].folder = row[f].folder
                      /\ row'[f].name = row[f].name
                   \/ Overtaken(r, {f}) \subseteq stale'
      BY DEF RowsStep
    <3>1. CASE f \in F
      <4>1. Overtaken(r, {f}) \subseteq Overtaken(r, F)
        BY <3>1 DEF Overtaken
      <4>. QED
        BY <1>3, <1>5, <4>1
    <3>2. CASE f \notin F
      BY <1>5, <3>2
    <3>. QED
      BY <3>1, <3>2
  <2>3. SettingsStep(r)
    BY <1>1 DEF SettingsStep
  <2>4. ChannelStep(r, q)
    BY <1>1, <1>5 DEF ChannelStep, InFlight
  <2>5. UploadStep(r, q)
    BY <1>1, <1>8 DEF UploadStep, Uploading, Same
  <2>. QED
    BY <2>1, <2>2, <2>3, <2>4, <2>5 DEF StoreStep
<1>11. Known(q)' /\ Targets(r, q)'
  <2>1. q.rows \cap msg' \subseteq faults'
    BY <1>9
  <2>. QED
    BY <1>8, <1>9, <1>10, <2>1, KnowsOn
<1>12. Sound(r, q)'
  <2>1. Kind(q)' /\ PurgeKind(q)'
    BY <1>1, <1>8 DEF Sound, Kind, PurgeKind, Same, Purging, Uploading, SqlBelow, Moved
  <2>2. Reads(r, q)' /\ Renames(r, q)' /\ Empties(q)'
    BY <1>8 DEF Reads, Renames, Empties
  <2>. QED
    BY <1>11, <2>1, <2>2 DEF Sound
<1>. QED
  BY <1>7, <1>8, <1>10, <1>12, Stepped DEF ShiftFiles, Goto, Become

\* The settings of a moved folder move, or none does.
LEMMA ShiftSettingsKeeps ==
  ASSUME DavInv, NEW r \in Requests, ShiftSettings(r)
  PROVE  DavInv'
<1>1. /\ req[r] \in Request /\ Sound(r, req[r]) /\ StoreTypes /\ req[r].pc = "settings"
      /\ req[r].op = "davfolder" /\ UNCHANGED <<row, msg, sent, told, faults>>
  BY DEF DavInv, StoreTypes, ShiftSettings, At, Sound, Kind
<1>2. PICK p, d : p = req[r].from /\ d = req[r].to
  OBVIOUS
<1>3. PICK S : S = {x \in DOMAIN setting : setting[x] # "none" /\ SqlBelow(p, x)}
  OBVIOUS
<1>4. \/ /\ setting' = [x \in DOMAIN setting |->
              IF \E y \in S : Moved(p, d, y) = x
              THEN setting[CHOOSE y \in S : Moved(p, d, y) = x]
              ELSE IF x \in S THEN "none" ELSE setting[x]]
         /\ stale' = stale \cup Crossed(r, S \cup {Moved(p, d, x) : x \in S})
         /\ Leave(r)
      \/ /\ Become(r, [req[r] EXCEPT !.pc = "done", !.failed = TRUE])
         /\ UNCHANGED <<setting, stale>>
  BY <1>2, <1>3 DEF ShiftSettings
<1>5. ASSUME NEW q \in Request, Same(req[r], q), q.pc = "done",
             q.files = req[r].files, q.rows = req[r].rows, Become(r, q),
             setting' \in SettingTable, SettingsStep(r),
             stale \subseteq stale', stale' \subseteq Requests
      PROVE  DavInv'
  <2>1. InFlight(req[r]) = {} /\ ~ Uploading(q)
    BY <1>1, <1>5 DEF InFlight, Uploading, Same
  <2>2. StoreStep(r, q) /\ Known(q)' /\ Targets(r, q)'
    BY <1>1, <1>5, <2>1, SettingsOnly
  <2>3. Sound(r, q)'
    BY <1>1, <1>5, <2>2, EndIsSound DEF Same
  <2>. QED
    BY <1>5, <2>2, <2>3, Stepped DEF Become
<1>6. CASE /\ setting' = [x \in DOMAIN setting |->
                IF \E y \in S : Moved(p, d, y) = x
                THEN setting[CHOOSE y \in S : Moved(p, d, y) = x]
                ELSE IF x \in S THEN "none" ELSE setting[x]]
           /\ stale' = stale \cup Crossed(r, S \cup {Moved(p, d, x) : x \in S})
           /\ Leave(r)
  <2>1. setting' \in SettingTable
    <3>1. DOMAIN setting = Folders \ {<<>>} /\ S \subseteq DOMAIN setting
      BY <1>1, <1>3 DEF StoreTypes, SettingTable
    <3>2. ASSUME NEW x \in Folders \ {<<>>}
          PROVE  setting'[x] \in Visibilities \cup {"none"}
      <4>1. CASE \E y \in S : Moved(p, d, y) = x
        <5>1. PICK y : y = CHOOSE z \in S : Moved(p, d, z) = x
          OBVIOUS
        <5>2. y \in S
          BY <4>1, <5>1
        <5>3. setting'[x] = setting[y]
          BY <1>6, <3>1, <4>1, <5>1
        <5>. QED
          BY <1>1, <3>1, <5>2, <5>3 DEF StoreTypes, SettingTable
      <4>2. CASE ~ \E y \in S : Moved(p, d, y) = x
        BY <1>1, <1>6, <3>1, <4>2 DEF StoreTypes, SettingTable
      <4>. QED
        BY <4>1, <4>2
    <3>. QED
      BY <1>6, <3>1, <3>2 DEF SettingTable
  <2>2. SettingsStep(r)
    <3>. SUFFICES ASSUME NEW x \in Folders \ {<<>>}, setting'[x] # setting[x]
                  PROVE  Crossed(r, {x}) \subseteq stale'
      BY DEF SettingsStep
    <3>1. x \in S \cup {Moved(p, d, y) : y \in S}
      BY <1>1, <1>6 DEF StoreTypes, SettingTable
    <3>2. Crossed(r, {x}) \subseteq Crossed(r, S \cup {Moved(p, d, y) : y \in S})
      BY <3>1 DEF Crossed
    <3>. QED
      BY <1>6, <3>2
  <2>3. stale \subseteq stale' /\ stale' \subseteq Requests
    BY <1>1, <1>6 DEF Crossed, StoreTypes
  <2>4. PICK q : q = [req[r] EXCEPT !.pc = "done"]
    OBVIOUS
  <2>5. /\ q \in Request /\ Same(req[r], q) /\ q.pc = "done"
        /\ q.files = req[r].files /\ q.rows = req[r].rows
    BY <1>1, <2>4, GotoIs DEF Steps
  <2>6. Become(r, q)
    BY <1>6, <2>4 DEF Leave, Goto
  <2>. QED
    BY <1>5, <2>1, <2>2, <2>3, <2>5, <2>6
<1>7. CASE /\ Become(r, [req[r] EXCEPT !.pc = "done", !.failed = TRUE])
           /\ UNCHANGED <<setting, stale>>
  <2>1. PICK q : q = [req[r] EXCEPT !.pc = "done", !.failed = TRUE]
    OBVIOUS
  <2>2. /\ q \in Request /\ Same(req[r], q) /\ q.pc = "done"
        /\ q.files = req[r].files /\ q.rows = req[r].rows
    BY <1>1, <2>1 DEF Request, Same, Steps
  <2>3. setting' \in SettingTable /\ SettingsStep(r) /\ stale' = stale /\ stale \subseteq Requests
    BY <1>1, <1>7 DEF StoreTypes, SettingsStep
  <2>. QED
    BY <1>5, <1>7, <2>1, <2>2, <2>3
<1>. QED
  BY <1>4, <1>6, <1>7

\* MKCOL gives a folder a visibility if it has none.
LEMMA EnsureKeeps ==
  ASSUME DavInv, NEW r \in Requests, Ensure(r)
  PROVE  DavInv'
<1>1. /\ req[r] \in Request /\ Sound(r, req[r]) /\ StoreTypes /\ req[r].pc = "write"
      /\ req[r].op = "mkcol" /\ UNCHANGED <<row, msg, sent, told, faults>>
  BY DEF DavInv, StoreTypes, Ensure, At
<1>2. PICK p, v : p = req[r].to /\ v = req[r].vis
  OBVIOUS
<1>3. p \in Folders \ {<<>>} /\ v \in Visibilities /\ InFlight(req[r]) = {}
  BY <1>1, <1>2, RequestFields DEF Sound, Kind, InFlight
<1>4. CASE setting[p] = "none"
  <2>1. /\ setting' = [setting EXCEPT ![p] = v]
        /\ stale' = stale \cup Crossed(r, {p})
        /\ Become(r, [req[r] EXCEPT !.vis = "private", !.pc = "upsert"])
    BY <1>2, <1>4 DEF Ensure
  <2>2. setting' \in SettingTable /\ SettingsStep(r)
    BY <1>1, <1>3, <2>1 DEF StoreTypes, SettingTable, SettingsStep
  <2>3. stale \subseteq stale' /\ stale' \subseteq Requests
    BY <1>1, <2>1 DEF Crossed, StoreTypes
  <2>4. PICK q : q = [req[r] EXCEPT !.vis = "private", !.pc = "upsert"]
    OBVIOUS
  <2>5. /\ q \in Request /\ Same(req[r], q) /\ q.pc = "upsert"
        /\ q.files = req[r].files /\ q.rows = req[r].rows
    BY <1>1, <2>4 DEF Request, Same, Steps, Visibilities
  <2>6. StoreStep(r, q) /\ Known(q)' /\ Targets(r, q)'
    <3>1. ~ Uploading(q)
      BY <1>1, <2>5 DEF Uploading, Same
    <3>. QED
      BY <1>1, <1>3, <2>2, <2>3, <2>5, <3>1, SettingsOnly
  <2>7. Sound(r, q)'
    <3>1. Kind(q)' /\ PurgeKind(q)'
      BY <1>1, <1>2, <1>3, <2>5 DEF Sound, Kind, PurgeKind, Same, Purging, Uploading
    <3>2. Reads(r, q)' /\ Renames(r, q)' /\ Empties(q)'
      BY <2>5 DEF Reads, Renames, Empties
    <3>. QED
      BY <2>6, <3>1, <3>2 DEF Sound
  <2>. QED
    BY <2>1, <2>4, <2>5, <2>6, <2>7, Stepped DEF Become
<1>5. CASE setting[p] # "none"
  <2>1. Leave(r) /\ UNCHANGED <<setting, stale>>
    BY <1>2, <1>5 DEF Ensure
  <2>2. PICK q : q = [req[r] EXCEPT !.pc = "done"]
    OBVIOUS
  <2>3. /\ q \in Request /\ Same(req[r], q) /\ q.pc = "done"
        /\ q.files = req[r].files /\ q.rows = req[r].rows
    BY <1>1, <2>2, GotoIs DEF Steps
  <2>4. setting' \in SettingTable /\ SettingsStep(r) /\ stale \subseteq Requests
    BY <1>1, <2>1 DEF StoreTypes, SettingsStep
  <2>5. StoreStep(r, q) /\ Known(q)' /\ Targets(r, q)'
    <3>1. ~ Uploading(q)
      BY <1>1, <2>3 DEF Uploading, Same
    <3>. QED
      BY <1>1, <1>3, <2>1, <2>3, <2>4, <3>1, SettingsOnly
  <2>6. Sound(r, q)'
    BY <1>1, <2>3, <2>5, EndIsSound DEF Same
  <2>. QED
    BY <2>1, <2>2, <2>3, <2>5, <2>6, Stepped DEF Leave, Goto, Become
<1>. QED
  BY <1>4, <1>5

\* A statement that fails ends its request.
LEMMA StatementFailsKeeps ==
  ASSUME DavInv, NEW r \in Requests, StatementFails(r)
  PROVE  DavInv'
<1>1. /\ Leave(r) /\ UNCHANGED <<row, setting, msg, sent, told, stale>>
      /\ faults' = faults \cup InFlight(req[r])
  BY BetweenIs DEF StatementFails
<1>. QED
  BY <1>1, EndKeeps

\* The crash ends every request, and breaks the ties of what it is between.
LEMMA CrashKeeps == DavInv /\ Crash => DavInv'
<1>. SUFFICES ASSUME DavInv, Crash PROVE DavInv'
  OBVIOUS
<1>. DEFINE S == {r \in Requests : req[r].pc \notin {"idle", "pending"}}
<1>1. /\ UNCHANGED <<row, setting, msg, sent, told, stale>>
      /\ req' = [r \in Requests |-> IF r \in S THEN [req[r] EXCEPT !.pc = "done"] ELSE req[r]]
  BY DEF Crash
<1>2. faults' = faults \cup UNION {InFlight(req[r]) : r \in S}
  <2>1. \A r \in Requests \ S : InFlight(req[r]) = {}
    BY DEF InFlight
  <2>2. faults' = faults \cup UNION {InFlight(req[r]) : r \in Requests}
    BY BetweenIs DEF Crash
  <2>. QED
    BY <2>1, <2>2
<1>3. S \in SUBSET Requests
  OBVIOUS
<1>. QED
  BY <1>1, <1>2, <1>3, ManyEnd

\* The start of the bot ends what waits to be told, which is between nothing.
LEMMA BotStartsKeeps == DavInv /\ BotStarts => DavInv'
<1>. SUFFICES ASSUME DavInv, BotStarts PROVE DavInv'
  OBVIOUS
<1>. DEFINE S == {r \in Requests : At(r, "pending")}
<1>1. /\ UNCHANGED <<row, setting, msg, sent, told, stale, faults>>
      /\ req' = [r \in Requests |-> IF r \in S THEN [req[r] EXCEPT !.pc = "done"] ELSE req[r]]
  BY DEF BotStarts
<1>2. \A r \in S : InFlight(req[r]) = {}
  BY DEF InFlight, At
<1>3. faults' = faults \cup UNION {InFlight(req[r]) : r \in S}
  BY <1>1, <1>2
<1>4. S \in SUBSET Requests
  OBVIOUS
<1>. QED
  BY <1>1, <1>3, <1>4, ManyEnd

\* Every database to start from is sound.
LEMMA DavInit == Init => DavInv
<1>. SUFFICES ASSUME Init PROVE DavInv
  OBVIOUS
<1>1. /\ req = [r \in Requests |-> Blank] /\ stale = {} /\ faults = {}
      /\ msg = {f \in Files : row[f] # NoRow} /\ sent = msg /\ told = msg \cap Posted
  BY DEF Init
<1>2. row \in RowTable /\ setting \in SettingTable
  <2>1. PICK t \in Tables : row = t.row /\ setting = t.setting
    BY DEF Init
  <2>2. t \in Databases
    BY <2>1, FileConstants
  <2>. QED
    BY <2>1, <2>2 DEF Databases, RowTable, SettingTable
<1>3. PICK b : b = Blank
  OBVIOUS
<1>4. /\ b \in Request /\ b.op = "none" /\ b.pc = "idle"
      /\ b.files = {} /\ b.rows = {} /\ b.found = {}
  BY <1>3, BlankIs DEF Bare
<1>5. \A r \in Requests : req[r] = b
  BY <1>1, <1>3
<1>6. StoreTypes
  BY <1>1, <1>2, <1>3, <1>4 DEF StoreTypes, Stored
<1>7. StoreMatchesChannel
  BY <1>1 DEF StoreMatchesChannel, Consistent
<1>8. OneUpload
  BY <1>4, <1>5 DEF OneUpload, Uploading
<1>9. ASSUME NEW r \in Requests PROVE Sound(r, b) /\ Fresh(b)
  BY <1>4 DEF Sound, Kind, PurgeKind, Known, Reads, Renames, Targets, Empties, Fresh, Uploading,
              Purging
<1>. QED
  BY <1>5, <1>6, <1>7, <1>8, <1>9 DEF DavInv

\* Every step of a request keeps the invariant, and so do the crash and the start of the bot.
LEMMA DavSteps == DavInv /\ [Next]_storeVars => DavInv'
<1>. SUFFICES ASSUME DavInv, [Next]_storeVars PROVE DavInv'
  OBVIOUS
<1>1. CASE Crash
  BY <1>1, CrashKeeps
<1>2. CASE BotStarts
  BY <1>2, BotStartsKeeps
<1>3. ASSUME NEW r \in Requests, FileStep(r) PROVE DavInv'
  <2>1. CASE Upload(r) \/ Move(r) \/ Rename(r) \/ Link(r) \/ Folder(r) \/ Delete(r)
    BY <2>1, UploadKeeps, MoveKeeps, RenameKeeps, LinkKeeps, FolderKeeps, DeleteKeeps
  <2>2. CASE Post(r) \/ Tell(r) \/ Notice(r) \/ RemoveNoticed(r)
    BY <2>2, PostKeeps, TellKeeps, NoticeKeeps, RemoveNoticedKeeps
  <2>3. CASE Send(r) \/ Inherit(r) \/ Insert(r) \/ Update(r) \/ Upsert(r) \/ Spread(r)
    BY <2>3, SendKeeps, InheritKeeps, InsertKeeps, UpdateKeeps, UpsertKeeps, SpreadKeeps
  <2>4. CASE Unmessage(r) \/ Missing(r) \/ DropRow(r) \/ StatementFails(r)
    BY <2>4, UnmessageKeeps, MissingKeeps, DropRowKeeps, StatementFailsKeeps
  <2>. QED
    BY <1>3, <2>1, <2>2, <2>3, <2>4 DEF FileStep
<1>4. ASSUME NEW r \in Requests, DavStep(r) PROVE DavInv'
  BY <1>4, PutKeeps, DavDeleteKeeps, DavDeleteFolderKeeps, ForgetKeeps, DavMoveKeeps,
     DavMoveFolderKeeps, ShiftFilesKeeps, ShiftSettingsKeeps, MkcolKeeps, EnsureKeeps DEF DavStep
<1>5. CASE UNCHANGED storeVars
  <2>1. UNCHANGED <<row, setting, msg, sent, told, req, stale, faults>>
    BY <1>5 DEF storeVars
  <2>. PICK S \in SUBSET Requests : S = {}
    OBVIOUS
  <2>2. faults' = faults \cup UNION {InFlight(req[r]) : r \in S}
    BY <2>1
  <2>3. req' = [r \in Requests |-> IF r \in S THEN [req[r] EXCEPT !.pc = "done"] ELSE req[r]]
    BY <2>1 DEF DavInv, StoreTypes
  <2>. QED
    BY <2>1, <2>2, <2>3, ManyEnd
<1>. QED
  BY <1>1, <1>2, <1>3, <1>4, <1>5 DEF Next

\* The inductive invariant of rows, messages and requests.
THEOREM DavInvariant == Spec => []DavInv
  BY DavInit, DavSteps, PTL DEF Spec

\* The variables hold what the tables, the channel and a request can hold.
THEOREM TypeCorrect == Spec => []TypeOK
<1>1. DavInv => TypeOK
  <2>. SUFFICES ASSUME DavInv PROVE TypeOK
    OBVIOUS
  <2>1. StoreTypes
    BY DEF DavInv
  <2>2. PICK t : t = [row |-> row, setting |-> setting]
    OBVIOUS
  <2>3. [row |-> row, setting |-> setting] \in Databases
    BY <2>1 DEF StoreTypes, Databases, RowTable, SettingTable
  <2>4. ASSUME NEW r \in Requests
        PROVE  /\ req[r].op \in Ops /\ req[r].pc \in Steps
               /\ req[r].file \in Files \cup {NoFile}
               /\ req[r].to \in Seq(Names) /\ req[r].at \in Folders /\ req[r].from \in Seq(Names)
               /\ req[r].name \in Names /\ req[r].vis \in Visibilities
               /\ req[r].files \subseteq Files /\ req[r].rows \subseteq Files
    BY <2>1, RequestFields DEF StoreTypes
  <2>. QED
    BY <2>1, <2>3, <2>4 DEF TypeOK, StoreTypes
<1>. QED
  BY <1>1, DavInvariant, PTL

\* Uploads, posts that the bot is told of, overwrites, moves and deletions never lose a
\* message under a row or leave one behind, but for what a request is at, a fault, or a
\* message taken for deleted; what the bot never hears of or passes over needs no row.
THEOREM RowsMatchMessages == Spec => []StoreMatchesChannel
<1>1. DavInv => StoreMatchesChannel
  BY DEF DavInv
<1>. QED
  BY <1>1, DavInvariant, PTL

(***************************************************************************)
(* What a step may never do.                                               *)

\* The statements on files, and those on folder_settings.
LEMMA Statements ==
  ASSUME NEW r \in Requests, FileStep(r) \/ DavStep(r)
  PROVE  /\ \/ UNCHANGED row
            \/ Link(r) \/ RemoveNoticed(r) \/ Insert(r) \/ Update(r) \/ Spread(r) \/ DropRow(r)
            \/ ShiftFiles(r)
         /\ \/ UNCHANGED setting
            \/ Upsert(r) \/ Forget(r) \/ ShiftSettings(r) \/ Ensure(r)
<1>1. CASE Upload(r) \/ Move(r) \/ Rename(r) \/ Folder(r) \/ Delete(r) \/ Post(r) \/ Tell(r)
           \/ Notice(r) \/ Send(r) \/ Inherit(r) \/ Unmessage(r) \/ Missing(r)
           \/ StatementFails(r)
  <2>1. UNCHANGED <<row, setting>>
    BY <1>1 DEF Upload, Move, Rename, Folder, Delete, Post, Tell, Notice, Send, Inherit,
                Unmessage, Missing, StatementFails
  <2>. QED
    BY <2>1
<1>2. CASE Put(r) \/ DavDelete(r) \/ DavDeleteFolder(r) \/ DavMove(r) \/ DavMoveFolder(r)
           \/ Mkcol(r)
  <2>1. UNCHANGED <<row, setting>>
    BY <1>2 DEF Put, DavDelete, DavDeleteFolder, DavMove, DavMoveFolder, Mkcol
  <2>. QED
    BY <2>1
<1>3. CASE Link(r) \/ RemoveNoticed(r) \/ Insert(r) \/ Update(r) \/ Spread(r) \/ DropRow(r)
           \/ ShiftFiles(r)
  <2>1. UNCHANGED setting
    BY <1>3 DEF Link, RemoveNoticed, Insert, Update, Spread, DropRow, ShiftFiles
  <2>. QED
    BY <1>3, <2>1
<1>4. CASE Upsert(r) \/ Forget(r) \/ ShiftSettings(r) \/ Ensure(r)
  <2>1. UNCHANGED row
    BY <1>4 DEF Upsert, Forget, ShiftSettings, Ensure
  <2>. QED
    BY <1>4, <2>1
<1>. QED
  BY <1>1, <1>2, <1>3, <1>4 DEF FileStep, DavStep

\* A request that goes on is not what it was.
LEMMA GoesOn ==
  ASSUME DavInv, NEW r \in Requests, NEW q, Become(r, q), q.pc # req[r].pc
  PROVE  req'[r] = q /\ req'[r] # req[r]
  BY DEF DavInv, StoreTypes, Become

\* What the statements on files make of the row of a file.
LEMMA RowsAfter ==
  ASSUME DavInv, NEW r \in Requests, NEW f \in Files, row'[f] # NoRow,
         row[f] = NoRow \/ row'[f].vis # row[f].vis \/ row'[f].folder # row[f].folder,
         FileStep(r) \/ DavStep(r)
  PROVE  /\ req'[r] # req[r]
         /\ \/ /\ Link(r) /\ row[f] # NoRow /\ row'[f].folder = row[f].folder
               /\ req'[r].op = "link" /\ req'[r].file = f /\ row'[f].vis = req'[r].vis
            \/ /\ Insert(r) /\ row[f] = NoRow /\ req[r].pc = "write" /\ req[r].file = f
               /\ row'[f].folder = req[r].to /\ row'[f].vis = req[r].vis
            \/ /\ Update(r) /\ row[f] # NoRow /\ req[r].pc = "write" /\ req[r].file = f
               /\ req[r].op \in {"move", "rename", "davmove"}
               /\ row'[f].folder = req[r].to /\ row'[f].vis = req[r].vis
            \/ /\ Spread(r) /\ row[f] # NoRow /\ row'[f].folder = row[f].folder
               /\ req[r].pc = "spread" /\ f \in Covered(req[r]) /\ row'[f].vis = req[r].vis
            \/ /\ ShiftFiles(r) /\ row[f] # NoRow /\ row'[f].vis = row[f].vis
               /\ req[r].pc = "shift" /\ SqlBelow(req[r].from, row[f].folder)
               /\ row'[f].folder = Moved(req[r].from, req[r].to, row[f].folder)
<1>1. /\ row \in RowTable /\ NoRow \notin Rows /\ req[r] \in Request
      /\ row[f] # NoRow => row[f] \in Rows
  BY FileConstants DEF DavInv, StoreTypes, RowTable
<1>2. PICK p : p = req[r]
  OBVIOUS
<1>3. p \in Request
  BY <1>1, <1>2
<1>4. CASE Link(r)
  <2>1. PICK g \in Stored, v \in Visibilities :
          /\ row' = [row EXCEPT ![g].vis = v]
          /\ Become(r, [Blank EXCEPT !.op = "link", !.pc = "done", !.file = g, !.vis = v])
          /\ p.pc = "idle"
    BY <1>2, <1>4 DEF Link, At
  <2>2. PICK q : q = [Blank EXCEPT !.op = "link", !.pc = "done", !.file = g, !.vis = v]
    OBVIOUS
  <2>3. PICK b : b = Blank
    OBVIOUS
  <2>4. q.op = "link" /\ q.pc = "done" /\ q.file = g /\ q.vis = v
    BY <2>2, <2>3, BlankIs DEF Request
  <2>5. req'[r] = q /\ req'[r] # req[r]
    BY <1>2, <2>1, <2>2, <2>4, GoesOn
  <2>6. f = g
    BY <1>1, <2>1 DEF RowTable
  <2>7. row[f] # NoRow /\ row'[f] = [row[f] EXCEPT !.vis = v]
    BY <1>1, <2>1, <2>6 DEF Stored, RowTable
  <2>8. row'[f].vis = v /\ row'[f].folder = row[f].folder
    BY <1>1, <2>7 DEF Rows
  <2>. QED
    BY <1>4, <2>4, <2>5, <2>6, <2>7, <2>8
<1>5. CASE Insert(r)
  <2>1. /\ p.pc = "write" /\ Goto(r, IF p.files = {} THEN "done" ELSE "purge")
        /\ IF row[p.file] # NoRow THEN row' = row
           ELSE row' = [row EXCEPT ![p.file] =
                          [folder |-> p.to, name |-> p.name, vis |-> p.vis]]
    BY <1>2, <1>5 DEF Insert, At
  <2>2. PICK q : q = [p EXCEPT !.pc = IF p.files = {} THEN "done" ELSE "purge"]
    OBVIOUS
  <2>3. q.pc \in {"done", "purge"} /\ Become(r, q)
    BY <1>2, <1>3, <2>1, <2>2 DEF Goto, Request
  <2>4. req'[r] # req[r]
    BY <1>2, <2>1, <2>3, GoesOn
  <2>5. row[p.file] = NoRow /\ f = p.file
    BY <1>1, <2>1 DEF RowTable
  <2>6. row'[f] = [folder |-> p.to, name |-> p.name, vis |-> p.vis]
    BY <1>1, <2>1, <2>5 DEF RowTable
  <2>. QED
    BY <1>2, <1>5, <2>1, <2>4, <2>5, <2>6
<1>6. CASE Update(r)
  <2>1. PICK n : n = IF p.op = "move" THEN row[p.file].name ELSE p.name
    OBVIOUS
  <2>2. /\ p.pc = "write" /\ p.op \in {"move", "rename", "davmove"} /\ Leave(r)
        /\ IF row[p.file] = NoRow THEN row' = row
           ELSE row' = [row EXCEPT ![p.file] = [folder |-> p.to, name |-> n, vis |-> p.vis]]
    BY <1>2, <1>6, <2>1 DEF Update, At
  <2>3. PICK q : q = [p EXCEPT !.pc = "done"]
    OBVIOUS
  <2>4. q.pc = "done" /\ Become(r, q)
    BY <1>2, <1>3, <2>2, <2>3 DEF Leave, Goto, Request
  <2>5. req'[r] # req[r]
    BY <1>2, <2>2, <2>4, GoesOn
  <2>6. row[p.file] # NoRow /\ f = p.file
    BY <1>1, <2>2 DEF RowTable
  <2>7. row'[f] = [folder |-> p.to, name |-> n, vis |-> p.vis]
    BY <1>1, <2>2, <2>6 DEF RowTable
  <2>. QED
    BY <1>2, <1>6, <2>2, <2>5, <2>6, <2>7
<1>7. CASE Spread(r)
  <2>1. /\ p.pc = "spread" /\ Leave(r)
        /\ row' = [g \in Files |-> IF g \in Covered(p) THEN [row[g] EXCEPT !.vis = p.vis]
                                                       ELSE row[g]]
    BY <1>2, <1>7 DEF Spread, At
  <2>2. PICK q : q = [p EXCEPT !.pc = "done"]
    OBVIOUS
  <2>3. q.pc = "done" /\ Become(r, q)
    BY <1>2, <1>3, <2>1, <2>2 DEF Leave, Goto, Request
  <2>4. req'[r] # req[r]
    BY <1>2, <2>1, <2>3, GoesOn
  <2>5. f \in Covered(p)
    BY <2>1
  <2>6. row[f] # NoRow
    BY <2>5 DEF Covered, Stored
  <2>7. row'[f] = [row[f] EXCEPT !.vis = p.vis]
    BY <2>1, <2>5
  <2>8. row'[f].vis = p.vis /\ row'[f].folder = row[f].folder
    BY <1>1, <2>6, <2>7 DEF Rows
  <2>. QED
    BY <1>2, <1>7, <2>1, <2>4, <2>5, <2>6, <2>8
<1>8. CASE ShiftFiles(r)
  <2>1. /\ p.pc = "shift" /\ Goto(r, "settings")
        /\ row' = [g \in Files |->
                     IF g \in {h \in Stored : SqlBelow(p.from, row[h].folder)}
                     THEN [row[g] EXCEPT !.folder = Moved(p.from, p.to, @)]
                     ELSE row[g]]
    BY <1>2, <1>8 DEF ShiftFiles, At
  <2>2. PICK q : q = [p EXCEPT !.pc = "settings"]
    OBVIOUS
  <2>3. q.pc = "settings" /\ Become(r, q)
    BY <1>2, <1>3, <2>1, <2>2 DEF Goto, Request
  <2>4. req'[r] # req[r]
    BY <1>2, <2>1, <2>3, GoesOn
  <2>5. row[f] # NoRow /\ SqlBelow(p.from, row[f].folder)
    BY <2>1 DEF Stored
  <2>6. row'[f] = [row[f] EXCEPT !.folder = Moved(p.from, p.to, @)]
    BY <2>1, <2>5 DEF Stored
  <2>7. PICK e : e = Moved(p.from, p.to, row[f].folder)
    OBVIOUS
  <2>8. row'[f].vis = row[f].vis /\ row'[f].folder = e
    BY <1>1, <2>5, <2>6, <2>7 DEF Rows
  <2>. QED
    BY <1>2, <1>8, <2>1, <2>4, <2>5, <2>7, <2>8
<1>9. CASE RemoveNoticed(r) \/ DropRow(r)
  <2>1. PICK g : row' = [row EXCEPT ![g] = NoRow] \/ row' = row
    BY <1>9 DEF RemoveNoticed, DropRow
  <2>. QED
    BY <1>1, <2>1 DEF RowTable
<1>10. ~ UNCHANGED row
  OBVIOUS
<1>. QED
  BY <1>4, <1>5, <1>6, <1>7, <1>8, <1>9, <1>10, Statements

\* A file that is stored or made public or private has the visibility that was asked for, or
\* the one of the nearest folder with one, unless the folder changed on the way up or could
\* not be read.
THEOREM VisibilityAsAsked == Spec => VisibilityIsAskedFor
<1>. DEFINE Asked ==
       \A f \in Files :
         (row'[f] # NoRow /\ (row[f] = NoRow \/ row'[f].vis # row[f].vis)) =>
         \E r \in Requests :
           /\ req'[r] # req[r]
           /\ \/ /\ req[r].pc = "write" /\ req[r].file = f
                 /\ row'[f].vis # Nearest(row'[f].folder) => r \in stale \/ req[r].failed
              \/ /\ req'[r].op = "link" /\ req'[r].file = f /\ row'[f].vis = req'[r].vis
              \/ /\ req[r].pc = "spread" /\ row'[f].vis = req[r].vis
                 /\ req[r].to # row[f].folder =>
                      req[r].kids /\ SqlBelow(req[r].to, row[f].folder)
<1>1. ASSUME DavInv, Next PROVE Asked
  <2>. SUFFICES ASSUME NEW f \in Files, row'[f] # NoRow,
                       row[f] = NoRow \/ row'[f].vis # row[f].vis
                PROVE  \E r \in Requests :
           /\ req'[r] # req[r]
           /\ \/ /\ req[r].pc = "write" /\ req[r].file = f
                 /\ row'[f].vis # Nearest(row'[f].folder) => r \in stale \/ req[r].failed
              \/ /\ req'[r].op = "link" /\ req'[r].file = f /\ row'[f].vis = req'[r].vis
              \/ /\ req[r].pc = "spread" /\ row'[f].vis = req[r].vis
                 /\ req[r].to # row[f].folder =>
                      req[r].kids /\ SqlBelow(req[r].to, row[f].folder)
    OBVIOUS
  <2>1. PICK r \in Requests : FileStep(r) \/ DavStep(r)
    BY <1>1 DEF Next, Crash, BotStarts
  <2>2. req'[r] # req[r] /\ Reads(r, req[r])
    BY <1>1, <2>1, RowsAfter DEF DavInv, Sound
  <2>3. CASE Insert(r) \/ Update(r)
    <3>1. /\ req[r].pc = "write" /\ req[r].file = f
          /\ row'[f].folder = req[r].to /\ row'[f].vis = req[r].vis
      BY <1>1, <2>1, <2>3, RowsAfter DEF Insert, Update, Link, Spread, ShiftFiles, At
    <3>2. r \notin stale /\ ~ req[r].failed => req[r].vis = Nearest(req[r].to)
      BY <2>2, <3>1 DEF Reads
    <3>. QED
      BY <2>2, <3>1, <3>2
  <2>4. CASE ~ (Insert(r) \/ Update(r))
    BY <1>1, <2>1, <2>2, <2>4, RowsAfter DEF Covered
  <2>. QED
    BY <2>3, <2>4
<1>2. DavInv /\ [Next]_storeVars => [Asked]_storeVars
  BY <1>1
<1>. QED
  BY <1>2, DavInvariant, PTL DEF Spec, VisibilityIsAskedFor

\* A file changes its folder only by a move of its own or of a folder above it, or one that
\* LIKE takes for such a folder, and goes where the move says, or by a rename that such a
\* move has overtaken.
THEOREM FilesMoveOnRequest == Spec => MovedOnlyOnRequest
<1>. DEFINE Asked ==
       \A f \in Files :
         (row[f] # NoRow /\ row'[f] # NoRow /\ row'[f].folder # row[f].folder) =>
         \E r \in Requests :
           /\ req'[r] # req[r]
           /\ \/ /\ req[r].op \in {"move", "davmove"} /\ req[r].file = f
                 /\ row'[f].folder = req[r].to
              \/ /\ req[r].op = "davfolder"
                 /\ Below(req[r].from, row[f].folder) \/ LikeOnly(req[r].from, row[f].folder)
                 /\ row'[f].folder = Moved(req[r].from, req[r].to, row[f].folder)
              \/ /\ req[r].op = "rename" /\ req[r].file = f /\ r \in stale
                 /\ row'[f].folder = req[r].to
<1>1. ASSUME DavInv, Next PROVE Asked
  <2>. SUFFICES ASSUME NEW f \in Files, row[f] # NoRow, row'[f] # NoRow,
                       row'[f].folder # row[f].folder
                PROVE  \E r \in Requests :
           /\ req'[r] # req[r]
           /\ \/ /\ req[r].op \in {"move", "davmove"} /\ req[r].file = f
                 /\ row'[f].folder = req[r].to
              \/ /\ req[r].op = "davfolder"
                 /\ Below(req[r].from, row[f].folder) \/ LikeOnly(req[r].from, row[f].folder)
                 /\ row'[f].folder = Moved(req[r].from, req[r].to, row[f].folder)
              \/ /\ req[r].op = "rename" /\ req[r].file = f /\ r \in stale
                 /\ row'[f].folder = req[r].to
    OBVIOUS
  <2>1. PICK r \in Requests : FileStep(r) \/ DavStep(r)
    BY <1>1 DEF Next, Crash, BotStarts
  <2>2. Kind(req[r]) /\ Renames(r, req[r])
    BY <1>1 DEF DavInv, Sound
  <2>3. /\ req'[r] # req[r]
        /\ \/ /\ req[r].pc = "write" /\ req[r].file = f
              /\ req[r].op \in {"move", "rename", "davmove"} /\ row'[f].folder = req[r].to
           \/ /\ req[r].pc = "shift" /\ SqlBelow(req[r].from, row[f].folder)
              /\ row'[f].folder = Moved(req[r].from, req[r].to, row[f].folder)
    BY <1>1, <2>1, RowsAfter
  <2>4. CASE req[r].pc = "shift"
    BY <2>2, <2>3, <2>4 DEF Kind, LikeOnly
  <2>5. CASE req[r].pc = "write" /\ req[r].op = "rename"
    BY <2>2, <2>3, <2>5 DEF Renames
  <2>. QED
    BY <2>3, <2>4, <2>5
<1>2. DavInv /\ [Next]_storeVars => [Asked]_storeVars
  BY <1>1
<1>. QED
  BY <1>2, DavInvariant, PTL DEF Spec, MovedOnlyOnRequest

\* A row that WebDAV removes is where the request named it, or has the single name that it
\* gave as its name or as an id, unless it was moved meanwhile.
THEOREM RowsGoUnderTheirName == Spec => RemovedUnderItsName
<1>. DEFINE Under ==
       \A f \in Files, r \in Requests :
         (f \in req[r].rows /\ row[f] # NoRow /\ row'[f] = NoRow) =>
         LET named == IF req[r].op = "davmove" THEN Append(req[r].to, req[r].name)
                                               ELSE req[r].from
         IN \/ req[r].op = "delete"
            \/ req[r].op = "rmdir" /\ Below(req[r].to, row[f].folder)
            \/ PathOf(f) = named
            \/ Len(named) = 1 /\ (row[f].name = named[1] \/ named[1] \in Ids[f])
            \/ r \in stale
<1>1. DavInv => Under
  <2>1. ASSUME DavInv, NEW f \in Files, NEW r \in Requests, f \in req[r].rows, row[f] # NoRow,
               r \notin stale
        PROVE  Named(req[r], f)
    BY <2>1 DEF DavInv, Sound, Targets
  <2>. QED
    BY <2>1 DEF Named
<1>2. DavInv /\ [Next]_storeVars => [Under]_storeVars
  BY <1>1
<1>. QED
  BY <1>2, DavInvariant, PTL DEF Spec, RemovedUnderItsName

\* The settings of a folder go only with a move of it or of a folder above it, or with a
\* deletion of such a folder that has removed every file it found there, or with those of
\* a folder that LIKE takes for such a one.
THEOREM FoldersForgottenEmptied == Spec => FolderForgottenOnlyWhenEmptied
<1>. DEFINE Emptied ==
       \A p \in DOMAIN setting :
         (setting[p] # "none" /\ setting'[p] = "none") =>
         \E r \in Requests :
           \/ /\ req[r].pc = "settings"
              /\ Below(req[r].from, p) \/ LikeOnly(req[r].from, p)
           \/ /\ req[r].pc = "forget"
              /\ Below(req[r].to, p) \/ LikeOnly(req[r].to, p)
              /\ req[r].found \cap Stored \subseteq Posted
<1>1. ASSUME DavInv, Next PROVE Emptied
  <2>. SUFFICES ASSUME NEW p \in DOMAIN setting, setting[p] # "none", setting'[p] = "none"
                PROVE  \E r \in Requests :
           \/ /\ req[r].pc = "settings"
              /\ Below(req[r].from, p) \/ LikeOnly(req[r].from, p)
           \/ /\ req[r].pc = "forget"
              /\ Below(req[r].to, p) \/ LikeOnly(req[r].to, p)
              /\ req[r].found \cap Stored \subseteq Posted
    OBVIOUS
  <2>1. PICK r \in Requests : FileStep(r) \/ DavStep(r)
    BY <1>1 DEF Next, Crash, BotStarts
  <2>2. /\ req[r] \in Request /\ Sound(r, req[r]) /\ setting \in SettingTable
        /\ p \in Folders \ {<<>>}
    BY <1>1 DEF DavInv, StoreTypes, SettingTable
  <2>3. req[r].vis \in Visibilities
    BY <2>2, RequestFields
  <2>4. CASE Upsert(r) \/ Ensure(r)
    <3>1. PICK x : setting' = [setting EXCEPT ![x] = req[r].vis] \/ setting' = setting
      BY <2>4 DEF Upsert, Ensure
    <3>. QED
      BY <2>2, <2>3, <3>1 DEF SettingTable, Visibilities
  <2>5. CASE Forget(r)
    <3>1. req[r].pc = "forget"
      BY <2>5 DEF Forget, At
    <3>2. SqlBelow(req[r].to, p)
      BY <2>2, <2>5 DEF Forget, SettingTable
    <3>3. /\ req[r].op = "rmdir" /\ ~ req[r].failed
          /\ req[r].files \cup req[r].rows = {}
      BY <2>2, <3>1 DEF Sound, Kind, PurgeKind
    <3>4. \A f \in req[r].found \ Posted : row[f] = NoRow
      BY <2>2, <3>1, <3>3 DEF Sound, Empties
    <3>. QED
      BY <3>1, <3>2, <3>4 DEF Stored, LikeOnly
  <2>6. CASE ShiftSettings(r)
    <3>1. PICK a, d : a = req[r].from /\ d = req[r].to
      OBVIOUS
    <3>2. PICK S : S = {x \in DOMAIN setting : setting[x] # "none" /\ SqlBelow(a, x)}
      OBVIOUS
    <3>3. /\ req[r].pc = "settings"
          /\ \/ setting' = [x \in DOMAIN setting |->
                  IF \E y \in S : Moved(a, d, y) = x
                  THEN setting[CHOOSE y \in S : Moved(a, d, y) = x]
                  ELSE IF x \in S THEN "none" ELSE setting[x]]
             \/ setting' = setting
      BY <2>6, <3>1, <3>2 DEF ShiftSettings, At
    <3>4. ASSUME \E y \in S : Moved(a, d, y) = p PROVE FALSE
      <4>1. PICK y : y = CHOOSE z \in S : Moved(a, d, z) = p
        OBVIOUS
      <4>2. y \in S
        BY <3>4, <4>1
      <4>3. setting'[p] = setting[y]
        BY <3>3, <3>4, <4>1
      <4>. QED
        BY <3>2, <4>2, <4>3
    <3>5. p \in S
      BY <3>3, <3>4
    <3>. QED
      BY <3>1, <3>2, <3>3, <3>5 DEF LikeOnly
  <2>. QED
    BY <2>1, <2>4, <2>5, <2>6, Statements
<1>2. DavInv /\ [Next]_storeVars => [Emptied]_storeVars
  BY <1>1
<1>. QED
  BY <1>2, DavInvariant, PTL DEF Spec, FolderForgottenOnlyWhenEmptied
=============================================================================
