------------------------------ MODULE Web_proofs ------------------------------
(***************************************************************************)
(* Proofs about Web, for any number of browsers and requests, any settings  *)
(* and any database that may fail: what holds of the settings and sessions, *)
(* and, from RateLimit_proofs, of the limiter in front of them.             *)
(***************************************************************************)
EXTENDS Web, RateLimit_proofs

-----------------------------------------------------------------------------
(* The inductive invariant.                                                *)

Tokens == 0..Len(issued)
Drawn == [pass : Passwords, raced : BOOLEAN]
Rows == [pass : Passwords \cup {None}, session : Tokens, key : Keys \cup {None},
         conf : Confs \cup {None}]
Bodies == [pass : Passwords \cup {None, Absent}, key : Keys \cup {None, Absent},
           conf : Confs \cup {None, Absent}]
Flags == {"ok", "crossed", "late", "blind"}
Points == {"idle", "read", "write", "answer", "refused", "done"}

RequestType ==
  [pc : Points, op : Ops \cup {"none"}, by : Browsers, new : Rows, body : Bodies,
   token : Tokens, seen : Tokens, ok : BOOLEAN, crossed : BOOLEAN, late : BOOLEAN,
   blind : BOOLEAN]

\* The password that a row puts in force.
Active(x) == IF x.pass # None THEN x.pass ELSE env.pass

\* The token was drawn for the password, or by a login that was raced.
DrawnFor(token, password) == issued[token].raced \/ issued[token].pass = password

\* The session of a row, if it has one, was drawn for the row's password.
Fits(x) == x.session # 0 => DrawnFor(x.session, Active(x))

\* A handler that will write a row it has made from the row it has read.
Writes(q) == q.pc = "write" /\ q.op \in ReadsFirst

\* A login has a token, drawn for the password in force when it began: this still is,
\* or goes with the token into the row, unless another request came between.
LoginGoesOn(q) ==
  q.op = "login" =>
    /\ q.pc \in {"read", "write"} => q.token # 0
    /\ q.pc = "read" /\ ~ q.crossed => DrawnFor(q.token, Active(row))
    /\ q.pc = "write" =>
         /\ q.new.session = q.token
         /\ ~ q.crossed /\ ~ q.blind => DrawnFor(q.token, Active(q.new))

\* A login that has been written is the session in force until it is overtaken.
LoginStays(q) ==
  q.op = "login" =>
    /\ q.seen = 0
    /\ q.pc = "answer" /\ q.ok /\ ~ q.late => row.session = q.token
    /\ q.pc = "done" /\ q.ok /\ ~ q.late => jar[q.by] = row.session

\* What any other handler will write fits.
OthersFit(q) == Writes(q) /\ q.op # "login" => Fits(q.new)

\* Only what the request names differs from the row, and a password or a key is gone only
\* if the request clears it, unless that is news to it.
ColumnsHeld(q) ==
  Writes(q) /\ ~ q.late /\ ~ q.blind =>
    /\ \A f \in {"pass", "session", "key", "conf"} \ Named(q) : q.new[f] = row[f]
    /\ \A f \in {"pass", "key"} : q.new[f] = None => row[f] = None \/ q.body[f] = None

\* The operations that get to each point.
OpsInPlace(q) ==
  /\ q.pc = "read" => q.op \in ReadsFirst
  /\ q.pc = "write" => q.op \in Ops \ {"logout"}
  /\ q.pc \in {"read", "write"} /\ q.op = "password" => q.body.pass \in Passwords

Sound(q) ==
  /\ q \in RequestType /\ OpsInPlace(q)
  /\ LoginGoesOn(q) /\ LoginStays(q) /\ OthersFit(q) /\ ColumnsHeld(q)

StoreOK ==
  /\ env.pass \in Passwords \cup {None}
  /\ issued \in Seq(Drawn) /\ row \in Rows /\ backup \in Rows
  /\ jar \in [Browsers -> Tokens]
  /\ Fits(row) /\ Fits(backup)

RequestsOK == req = [r \in Requests |-> req[r]] /\ \A r \in Requests : Sound(req[r])

WebInv == RateInv /\ StoreOK /\ RequestsOK

-----------------------------------------------------------------------------
(* What a step keeps of the requests that do not make it.                  *)

\* Tokens are only added, and only marked as raced.
Grown ==
  /\ Len(issued) <= Len(issued')
  /\ \A t \in 1..Len(issued) : /\ issued'[t].pass = issued[t].pass
                               /\ issued[t].raced => issued'[t].raced

\* The sets of tokens, rows and requests grow with the tokens.
LEMMA TypesGrow ==
  ASSUME StoreOK, Grown, issued' \in Seq(Drawn)
  PROVE  Tokens \subseteq Tokens' /\ Rows \subseteq Rows' /\ RequestType \subseteq RequestType'
<1>1. Len(issued) \in Nat /\ Len(issued') \in Nat
  BY DEF StoreOK
<1>2. Tokens \subseteq Tokens'
  BY <1>1 DEF Tokens, Grown
<1>3. Rows \subseteq Rows'
  BY <1>2 DEF Rows
<1>. QED
  BY <1>2, <1>3, Zenon DEF RequestType

\* A token stays drawn for its password, and a row that fits goes on to fit.
LEMMA FitsGrow ==
  ASSUME StoreOK, Grown, UNCHANGED env
  PROVE  /\ \A t \in Tokens \ {0} : \A p : DrawnFor(t, p) => DrawnFor(t, p)'
         /\ \A x \in Rows : Active(x)' = Active(x) /\ (Fits(x) => Fits(x)')
<1>1. Tokens \ {0} = 1..Len(issued)
  BY DEF StoreOK, Tokens
<1>2. \A t \in Tokens \ {0} : \A p : DrawnFor(t, p) => DrawnFor(t, p)'
  BY <1>1 DEF Grown, DrawnFor
<1>3. \A x \in Rows : Active(x)' = Active(x)
  BY DEF Active
<1>. QED
  BY <1>2, <1>3 DEF Fits, Rows

\* A record of a request is all of its fields.
LEMMA RequestFields ==
  ASSUME NEW q \in RequestType
  PROVE  /\ DOMAIN q = {"pc", "op", "by", "new", "body", "token", "seen", "ok", "crossed", "late", "blind"}
         /\ q.pc \in Points /\ q.op \in Ops \cup {"none"} /\ q.by \in Browsers
         /\ q.new \in Rows /\ q.body \in Bodies /\ q.token \in Tokens /\ q.seen \in Tokens
         /\ q.ok \in BOOLEAN /\ q.crossed \in BOOLEAN /\ q.late \in BOOLEAN /\ q.blind \in BOOLEAN
BY DEF RequestType

\* A request goes on as it was when others draw or mark tokens.
LEMMA DrawKeeps ==
  ASSUME StoreOK, Grown, issued' \in Seq(Drawn), UNCHANGED <<env, row, jar>>,
         NEW q, Sound(q)
  PROVE  Sound(q)'
<1>1. q \in RequestType /\ q \in RequestType'
  BY TypesGrow DEF Sound
<1>2. q.new \in Rows /\ q.token \in Tokens /\ row \in Rows
  BY <1>1, RequestFields DEF StoreOK
<1>3. OpsInPlace(q)' /\ LoginStays(q)' /\ ColumnsHeld(q)'
  BY DEF Sound, OpsInPlace, LoginStays, ColumnsHeld, Writes
<1>4. OthersFit(q)'
  BY <1>2, FitsGrow DEF Sound, OthersFit, Writes
<1>5. LoginGoesOn(q)'
  BY <1>2, FitsGrow DEF Sound, LoginGoesOn
<1>. QED
  BY <1>1, <1>3, <1>4, <1>5 DEF Sound

\* A request that is overtaken by a write: what it has read is no longer the row.
LEMMA OvertakenKeeps ==
  ASSUME StoreOK, Grown, issued' \in Seq(Drawn), UNCHANGED <<env, jar>>, NEW q, Sound(q)
  PROVE  Sound([q EXCEPT !.crossed = @ \/ q.pc \in {"read", "write"},
                         !.late    = @ \/ q.pc \in {"write", "answer", "done"}])'
<1>. DEFINE p == [q EXCEPT !.crossed = @ \/ q.pc \in {"read", "write"},
                           !.late    = @ \/ q.pc \in {"write", "answer", "done"}]
<1>1. q \in RequestType /\ q \in RequestType'
  BY TypesGrow DEF Sound
<1>2. q.new \in Rows /\ q.token \in Tokens /\ q.crossed \in BOOLEAN /\ q.late \in BOOLEAN
  BY <1>1, RequestFields
<1>3. p \in RequestType'
  BY <1>1 DEF RequestType
<1>4. /\ p.pc = q.pc /\ p.op = q.op /\ p.by = q.by /\ p.new = q.new /\ p.body = q.body
      /\ p.token = q.token /\ p.seen = q.seen /\ p.ok = q.ok /\ p.blind = q.blind
      /\ p.crossed = (q.crossed \/ q.pc \in {"read", "write"})
      /\ p.late = (q.late \/ q.pc \in {"write", "answer", "done"})
  BY <1>1, RequestFields
<1>. HIDE DEF p
<1>5. OpsInPlace(p)'
  BY <1>4 DEF Sound, OpsInPlace
<1>6. LoginStays(p)'
  BY <1>4 DEF Sound, LoginStays
<1>7. ColumnsHeld(p)'
  BY <1>4 DEF ColumnsHeld, Writes
<1>8. OthersFit(p)'
  BY <1>2, <1>4, FitsGrow DEF Sound, OthersFit, Writes
<1>9. LoginGoesOn(p)'
  BY <1>2, <1>4, FitsGrow DEF Sound, LoginGoesOn
<1>. QED
  BY <1>3, <1>5, <1>6, <1>7, <1>8, <1>9 DEF Sound, p

\* A request whose browser gets another answer.
LEMMA AnsweredKeeps ==
  ASSUME UNCHANGED <<env, row, issued>>, NEW c, NEW t, jar' = [jar EXCEPT ![c] = t],
         jar \in [Browsers -> Tokens], NEW q, Sound(q)
  PROVE  Sound([q EXCEPT !.late = @ \/ (q.pc = "done" /\ q.by = c)])'
<1>. DEFINE p == [q EXCEPT !.late = @ \/ (q.pc = "done" /\ q.by = c)]
<1>1. q \in RequestType /\ q \in RequestType'
  BY DEF Sound, RequestType, Rows, Tokens
<1>2. q.by \in Browsers /\ q.late \in BOOLEAN
  BY <1>1, RequestFields
<1>3. p \in RequestType'
  BY <1>1 DEF RequestType
<1>4. /\ p.pc = q.pc /\ p.op = q.op /\ p.by = q.by /\ p.new = q.new /\ p.body = q.body
      /\ p.token = q.token /\ p.seen = q.seen /\ p.ok = q.ok /\ p.blind = q.blind
      /\ p.crossed = q.crossed
      /\ p.late = (q.late \/ (q.pc = "done" /\ q.by = c))
  BY <1>1, RequestFields
<1>. HIDE DEF p
<1>5. OpsInPlace(p)'
  BY <1>4 DEF Sound, OpsInPlace
<1>6. LoginStays(p)'
  <2>1. q.by # c => jar'[q.by] = jar[q.by]
    BY <1>2
  <2>. QED
    BY <1>2, <1>4, <2>1 DEF Sound, LoginStays
<1>7. ColumnsHeld(p)'
  BY <1>4 DEF Sound, ColumnsHeld, Writes, Named
<1>8. OthersFit(p)'
  BY <1>4 DEF Sound, OthersFit, Writes, Fits, DrawnFor, Active
<1>9. LoginGoesOn(p)'
  BY <1>4 DEF Sound, LoginGoesOn, DrawnFor, Active
<1>. QED
  BY <1>3, <1>5, <1>6, <1>7, <1>8, <1>9 DEF Sound, p

-----------------------------------------------------------------------------
(* The step of a request.                                                  *)

\* One request steps, the others go on as they were.
LEMMA OneSteps ==
  ASSUME StoreOK, RequestsOK, Grown, issued' \in Seq(Drawn), UNCHANGED <<env, row, jar>>,
         NEW r \in Requests, NEW q, Become(r, q), Sound(q)'
  PROVE  RequestsOK'
<1>1. req' = [u \in Requests |-> IF u = r THEN q ELSE req[u]]
  BY DEF RequestsOK, Become
<1>2. ASSUME NEW u \in Requests PROVE Sound(req[u])'
  <2>1. CASE u = r
    <3>1. req'[u] = q
      BY <1>1, <2>1
    <3>. QED
      BY <3>1
  <2>2. CASE u # r
    <3>1. PICK p : p = req[u]
      OBVIOUS
    <3>2. Sound(p)
      BY <3>1 DEF RequestsOK
    <3>3. Sound(p)'
      BY <3>2, DrawKeeps
    <3>4. req'[u] = p
      BY <1>1, <2>2, <3>1
    <3>. QED
      BY <3>3, <3>4
  <2>. QED
    BY <2>1, <2>2
<1>. QED
  BY <1>1, <1>2 DEF RequestsOK

\* A request that has not started, and what it starts with.
LEMMA WaitingSound == StoreOK => Sound(Waiting)
<1>. SUFFICES ASSUME StoreOK PROVE Sound(Waiting)
  OBVIOUS
<1>1. 0 \in Tokens
  BY DEF StoreOK, Tokens
<1>2. Empty \in Rows
  BY <1>1 DEF Empty, Rows
<1>3. [pass |-> Absent, key |-> Absent, conf |-> Absent] \in Bodies
  BY DEF Bodies
<1>4. (CHOOSE c \in Browsers : TRUE) \in Browsers
  BY SettingsConstants
<1>5. Waiting \in RequestType
  BY <1>1, <1>2, <1>3, <1>4 DEF Waiting, RequestType, Points
<1>6. Waiting.pc = "idle" /\ Waiting.op = "none"
  BY DEF Waiting
<1>. QED
  BY <1>5, <1>6 DEF Sound, OpsInPlace, LoginGoesOn, LoginStays, OthersFit, ColumnsHeld, Writes

\* A request that is refused or logs out has nothing to write.
LEMMA IdleSound ==
  ASSUME StoreOK, NEW op \in Ops, NEW c \in Browsers,
         NEW q, q \in {[Waiting EXCEPT !.pc = "refused", !.op = op, !.by = c],
                       [Waiting EXCEPT !.pc = "answer", !.op = "logout", !.by = c, !.ok = TRUE]}
  PROVE  Sound(q)
<1>1. Waiting \in RequestType
  BY WaitingSound DEF Sound
<1>2. Waiting.seen = 0
  BY DEF Waiting
<1>3. "refused" \in Points /\ "answer" \in Points /\ "logout" \in Ops
  BY DEF Points, Ops
<1>4. q \in RequestType
  BY <1>1, <1>3, Zenon DEF RequestType
<1>. HIDE DEF Waiting
<1>5. q.pc = "refused" \/ (q.pc = "answer" /\ q.op = "logout")
  BY <1>1, RequestFields
<1>6. q.seen = 0
  BY <1>1, <1>2, RequestFields
<1>. QED
  BY <1>4, <1>5, <1>6 DEF Sound, OpsInPlace, LoginGoesOn, LoginStays, OthersFit, ColumnsHeld, Writes

\* So nothing changes but that request.
LEMMA RefusedKeeps ==
  ASSUME StoreOK, RequestsOK, NEW r \in Requests, NEW op \in Ops, NEW c \in Browsers,
         \/ Become(r, [Waiting EXCEPT !.pc = "refused", !.op = op, !.by = c])
         \/ Become(r, [Waiting EXCEPT !.pc = "answer", !.op = "logout", !.by = c, !.ok = TRUE]),
         UNCHANGED <<env, row, backup, issued, jar>>
  PROVE  StoreOK' /\ RequestsOK'
<1>1. StoreOK' /\ Grown /\ issued' \in Seq(Drawn)
  BY DEF StoreOK, Grown, Tokens, Rows, Fits, DrawnFor, Active
<1>2. PICK q \in {[Waiting EXCEPT !.pc = "refused", !.op = op, !.by = c],
                  [Waiting EXCEPT !.pc = "answer", !.op = "logout", !.by = c, !.ok = TRUE]} :
        Become(r, q)
  OBVIOUS
<1>3. Sound(q)'
  BY <1>1, IdleSound, DrawKeeps
<1>. QED
  BY <1>1, <1>2, <1>3, OneSteps

\* A token that is drawn comes last, and what there was fits on.
LEMMA AppendStore ==
  ASSUME StoreOK, NEW d \in Drawn, issued' = Append(issued, d), UNCHANGED <<env, row, backup, jar>>
  PROVE  /\ StoreOK' /\ Grown /\ issued' \in Seq(Drawn) /\ Len(issued') = Len(issued) + 1
         /\ issued'[Len(issued) + 1] = d /\ Len(issued) \in Nat
<1>1. /\ issued' \in Seq(Drawn) /\ Len(issued') = Len(issued) + 1
      /\ issued'[Len(issued) + 1] = d /\ Len(issued) \in Nat
      /\ \A t \in 1..Len(issued) : issued'[t] = issued[t]
  BY DEF StoreOK
<1>2. Grown
  BY <1>1 DEF Grown
<1>3. StoreOK'
  <2>1. Tokens \subseteq Tokens' /\ Rows \subseteq Rows'
    BY <1>1, <1>2, TypesGrow
  <2>2. Fits(row)' /\ Fits(backup)'
    BY <1>2, FitsGrow DEF StoreOK
  <2>. QED
    BY <1>1, <2>1, <2>2 DEF StoreOK
<1>. QED
  BY <1>1, <1>2, <1>3

\* The handlers behind the session begin without a token of their own.
LEMMA CallKeeps ==
  ASSUME StoreOK, RequestsOK, NEW r \in Requests, NEW c \in Browsers, NEW op \in Ops,
         NEW body \in Bodies, op \notin {"login", "logout"},
         op = "password" => body.pass \in Passwords, Call(r, c, op, body)
  PROVE  StoreOK' /\ RequestsOK'
<1>1. PICK read \in Reads :
        Become(r, [Waiting EXCEPT
          !.pc = IF ~ Passes(jar[c], read) THEN "refused"
                 ELSE IF op \in ReadsFirst THEN "read" ELSE "write",
          !.op = op, !.by = c, !.body = body,
          !.seen = IF CheckSession(jar[c], read) THEN jar[c] ELSE 0])
  BY DEF Call
<1>2. UNCHANGED <<env, row, backup, issued, jar>>
  BY DEF Call
<1>3. StoreOK' /\ Grown /\ issued' \in Seq(Drawn)
  BY <1>2 DEF StoreOK, Grown, Tokens, Rows, Fits, DrawnFor, Active
<1>4. PICK pc \in Points, seen \in Tokens :
        /\ pc = IF ~ Passes(jar[c], read) THEN "refused"
                ELSE IF op \in ReadsFirst THEN "read" ELSE "write"
        /\ seen = IF CheckSession(jar[c], read) THEN jar[c] ELSE 0
  <2>1. 0 \in Tokens /\ jar[c] \in Tokens
    BY DEF StoreOK, Tokens
  <2>. QED
    BY <2>1 DEF Points
<1>5. PICK q : q = [Waiting EXCEPT !.pc = pc, !.op = op, !.by = c, !.body = body, !.seen = seen]
  OBVIOUS
<1>6. Become(r, q)
  BY <1>1, <1>4, <1>5
<1>7. /\ Waiting \in RequestType
      /\ Waiting.token = 0 /\ Waiting.ok = FALSE /\ 0 \in Tokens
  BY WaitingSound DEF Sound, Waiting, StoreOK, Tokens
<1>8. q \in RequestType /\ q.pc = pc /\ q.op = op /\ q.body = body
  <2>1. q \in RequestType
    BY <1>5, <1>7, Zenon DEF RequestType
  <2>. HIDE DEF Waiting
  <2>. QED
    BY <2>1, <1>5, <1>7, RequestFields
<1>9. Sound(q)'
  <2>1. q \in RequestType'
    BY <1>3, <1>8, TypesGrow
  <2>2. OpsInPlace(q) /\ ~ Writes(q)
    BY <1>4, <1>8 DEF OpsInPlace, Writes, ReadsFirst, Ops
  <2>. QED
    BY <1>8, <2>1, <2>2
       DEF Sound, OpsInPlace, LoginGoesOn, LoginStays, OthersFit, ColumnsHeld, Writes
<1>. QED
  BY <1>2, <1>3, <1>6, <1>9, OneSteps

\* A login that is let in draws a token for the password it has verified.
LEMMA LoginKeeps ==
  ASSUME StoreOK, RequestsOK, NEW r \in Requests, NEW c \in Browsers, NEW body \in Bodies,
         body.pass \in Passwords, Login(r, c, body)
  PROVE  StoreOK' /\ RequestsOK'
<1>1. UNCHANGED <<env, row, backup, jar>>
  BY DEF Login
<1>2. PICK read \in Reads :
        \/ /\ ActivePassword(read) # None /\ body.pass = ActivePassword(read)
           /\ issued' = Append(issued, [pass |-> body.pass, raced |-> ~ read])
           /\ Become(r, [Waiting EXCEPT !.pc = "read", !.op = "login", !.by = c,
                                        !.token = Len(issued) + 1])
        \/ /\ Become(r, [Waiting EXCEPT !.pc = "refused", !.op = "login", !.by = c])
           /\ UNCHANGED issued
  BY DEF Login
<1>3. CASE /\ Become(r, [Waiting EXCEPT !.pc = "refused", !.op = "login", !.by = c])
           /\ UNCHANGED issued
  BY <1>1, <1>3, RefusedKeeps DEF Ops, ReadsFirst
<1>4. CASE /\ ActivePassword(read) # None /\ body.pass = ActivePassword(read)
           /\ issued' = Append(issued, [pass |-> body.pass, raced |-> ~ read])
           /\ Become(r, [Waiting EXCEPT !.pc = "read", !.op = "login", !.by = c,
                                        !.token = Len(issued) + 1])
  <2>1. PICK d : d = [pass |-> body.pass, raced |-> ~ read]
    OBVIOUS
  <2>2. read \in BOOLEAN
    BY DEF Reads
  <2>3. d \in Drawn /\ d.pass = body.pass /\ d.raced = ~ read
    BY <2>1, <2>2 DEF Drawn
  <2>4. issued' = Append(issued, d)
    BY <1>4, <2>1
  <2>5. StoreOK' /\ Grown /\ issued' \in Seq(Drawn) /\ Len(issued') = Len(issued) + 1
        /\ issued'[Len(issued) + 1] = d /\ Len(issued) \in Nat
    BY <1>1, <2>3, <2>4, AppendStore
  <2>6. PICK t : t = Len(issued) + 1
    OBVIOUS
  <2>7. PICK q : q = [Waiting EXCEPT !.pc = "read", !.op = "login", !.by = c, !.token = t]
    OBVIOUS
  <2>8. t \in Tokens' /\ t # 0
    BY <2>5, <2>6 DEF Tokens
  <2>9. /\ q \in RequestType' /\ q.pc = "read" /\ q.op = "login" /\ q.token = t /\ q.seen = 0
    <3>1. Waiting \in RequestType' /\ Waiting.seen = 0
      BY <2>5, WaitingSound, TypesGrow DEF Sound, Waiting
    <3>2. "read" \in Points /\ "login" \in Ops
      BY DEF Points, Ops, ReadsFirst
    <3>. HIDE DEF Waiting
    <3>3. q \in RequestType'
      BY <2>7, <2>8, <3>1, <3>2, Zenon DEF RequestType
    <3>4. DOMAIN Waiting = {"pc", "op", "by", "new", "body", "token", "seen", "ok", "crossed", "late", "blind"}
      BY WaitingSound, RequestFields DEF Sound
    <3>. QED
      BY <2>7, <3>1, <3>3, <3>4
  <2>10. DrawnFor(t, Active(row))'
    <3>1. read => ActivePassword(read) = Active(row)
      BY DEF ActivePassword, Active
    <3>. QED
      BY <1>1, <1>4, <2>2, <2>3, <2>5, <2>6, <3>1 DEF DrawnFor, Active
  <2>11. Sound(q)'
    BY <2>8, <2>9, <2>10
       DEF Sound, OpsInPlace, LoginGoesOn, LoginStays, OthersFit, ColumnsHeld, Writes, ReadsFirst
  <2>12. Become(r, q)
    BY <1>4, <2>6, <2>7
  <2>. QED
    BY <1>1, <2>5, <2>11, <2>12, OneSteps
<1>. QED
  BY <1>2, <1>3, <1>4

\* Reading draws at most one token, for the password that the request brings.
LEMMA ReadDraws ==
  ASSUME StoreOK, NEW q \in RequestType, UNCHANGED <<env, row, backup, jar>>,
         issued' = IF Draws(q) THEN Append(issued, [pass |-> q.body.pass, raced |-> FALSE])
                   ELSE issued,
         NEW t, t = Len(issued) + 1
  PROVE  /\ StoreOK' /\ Grown /\ issued' \in Seq(Drawn)
         /\ Draws(q) => t \in Tokens' /\ q.body.pass \in Passwords /\ DrawnFor(t, q.body.pass)'
<1>1. CASE ~ Draws(q)
  BY <1>1 DEF StoreOK, Grown, Tokens, Rows, Fits, DrawnFor, Active
<1>2. CASE Draws(q)
  <2>1. q.body.pass \in Passwords
    BY <1>2, RequestFields DEF Draws, Bodies
  <2>2. PICK d : d = [pass |-> q.body.pass, raced |-> FALSE]
    OBVIOUS
  <2>3. d \in Drawn /\ d.pass = q.body.pass
    BY <2>1, <2>2 DEF Drawn
  <2>4. StoreOK' /\ Grown /\ issued' \in Seq(Drawn) /\ Len(issued') = Len(issued) + 1
        /\ issued'[Len(issued) + 1] = d /\ Len(issued) \in Nat
    BY <1>2, <2>2, <2>3, AppendStore
  <2>5. t \in Tokens' /\ DrawnFor(t, q.body.pass)'
    BY <2>3, <2>4 DEF Tokens, DrawnFor
  <2>. QED
    BY <2>1, <2>4, <2>5
<1>. QED
  BY <1>1, <1>2

\* The row that a handler makes of one that fits: it fits, unless it is a login's,
\* differs only in the columns that the request names, and has no password or key only if
\* the other has none or the request clears it.
LEMMA NewRowFits ==
  ASSUME StoreOK, Grown, issued' \in Seq(Drawn), UNCHANGED env,
         NEW q \in RequestType, OpsInPlace(q), q.pc = "read",
         NEW base \in Rows, Fits(base), NEW t,
         Draws(q) => t \in Tokens' /\ q.body.pass \in Passwords /\ DrawnFor(t, q.body.pass)',
         NEW new, new = NewRow(q, base, t)
  PROVE  /\ new \in Rows'
         /\ q.op # "login" => Fits(new)'
         /\ q.op = "login" => new = [base EXCEPT !.session = q.token]
         /\ \A f \in {"pass", "session", "key", "conf"} \ Named(q) : new[f] = base[f]
         /\ \A f \in {"pass", "key"} : new[f] = None => base[f] = None \/ q.body[f] = None
<1>1. base \in Rows' /\ Fits(base)' /\ q.token \in Tokens'
  BY RequestFields, TypesGrow, FitsGrow
<1>2. /\ base.pass \in Passwords \cup {None} /\ base.session \in Tokens'
      /\ base.key \in Keys \cup {None} /\ base.conf \in Confs \cup {None}
      /\ DOMAIN base = {"pass", "session", "key", "conf"}
  BY <1>1 DEF Rows
<1>3. /\ q.body.pass \in Passwords \cup {None, Absent}
      /\ q.body.key \in Keys \cup {None, Absent} /\ q.body.conf \in Confs \cup {None, Absent}
  BY RequestFields DEF Bodies
<1>4. None \notin Passwords /\ Absent \notin Passwords /\ 0 \in Tokens'
  BY SettingsConstants DEF Tokens
<1>5. CASE q.op = "login"
  <2>1. new = [base EXCEPT !.session = q.token]
    BY <1>5 DEF NewRow
  <2>2. new \in Rows'
    BY <1>1, <2>1, Zenon DEF Rows
  <2>3. "session" \in Named(q)
    BY <1>5 DEF Named
  <2>4. new.pass = base.pass /\ new.key = base.key
    BY <1>2, <2>1
  <2>. QED
    BY <1>5, <1>2, <2>1, <2>2, <2>3, <2>4
<1>6. CASE q.op = "password"
  <2>1. q.body.pass \in Passwords /\ Draws(q)
    BY <1>4, <1>6 DEF OpsInPlace, Draws
  <2>2. new = [base EXCEPT !.pass = q.body.pass, !.session = t]
    BY <1>6 DEF NewRow
  <2>3. new \in Rows'
    BY <1>1, <2>1, <2>2, Zenon DEF Rows
  <2>4. new.pass = q.body.pass /\ new.session = t
    BY <1>2, <2>2
  <2>5. Fits(new)'
    BY <1>4, <2>1, <2>4 DEF Fits, Active
  <2>6. {"pass", "session"} \subseteq Named(q)
    BY <1>6 DEF Named
  <2>7. new.pass # None /\ new.key = base.key
    BY <1>2, <1>4, <2>1, <2>2
  <2>. QED
    BY <1>2, <1>6, <2>2, <2>3, <2>5, <2>6, <2>7
<1>7. CASE q.op \in {"save", "apply"}
  <2>1. new = MergeConfig(base, q.body, t)
    BY <1>7 DEF NewRow
  <2>2. Draws(q) <=> q.body.pass \notin {None, Absent}
    BY <1>7 DEF Draws
  <2>3. /\ new.pass = Put(base.pass, q.body.pass) /\ new.key = Put(base.key, q.body.key)
        /\ new.conf = Put(base.conf, q.body.conf)
        /\ new.session = IF q.body.pass = Absent THEN base.session
                         ELSE IF q.body.pass = None THEN 0 ELSE t
    BY <2>1 DEF MergeConfig
  <2>4. /\ Put(base.pass, q.body.pass) \in Passwords \cup {None}
        /\ Put(base.key, q.body.key) \in Keys \cup {None}
        /\ Put(base.conf, q.body.conf) \in Confs \cup {None}
    BY <1>2, <1>3 DEF Put
  <2>5. new.session \in Tokens'
    BY <1>2, <1>3, <1>4, <2>2, <2>3
  <2>6. new \in Rows'
    BY <2>1, <2>3, <2>4, <2>5 DEF MergeConfig, Rows
  <2>7. Fits(new)'
    BY <1>1, <1>3, <1>4, <2>2, <2>3 DEF Fits, Active, Put
  <2>8. ASSUME NEW f \in {"pass", "session", "key", "conf"} \ Named(q)
        PROVE  new[f] = base[f]
    BY <2>3, <2>8 DEF Named, Put
  <2>9. ASSUME NEW f \in {"pass", "key"}, new[f] = None
        PROVE  base[f] = None \/ q.body[f] = None
    BY <2>3, <2>9 DEF Put
  <2>. QED
    BY <1>7, <2>6, <2>7, <2>8, <2>9
<1>. QED
  BY <1>5, <1>6, <1>7 DEF OpsInPlace, ReadsFirst

\* A handler reads the row and goes on to write what it has made of it, or refuses a
\* configuration that is bad.
LEMMA ReadKeeps ==
  ASSUME StoreOK, RequestsOK, NEW r \in Requests, Read(r)
  PROVE  StoreOK' /\ RequestsOK'
<1>1. PICK q : q = req[r]
  OBVIOUS
<1>2. q.pc = "read" /\ Sound(q) /\ q \in RequestType /\ OpsInPlace(q)
  BY <1>1 DEF Read, At, RequestsOK, Sound
<1>3. UNCHANGED <<env, row, backup, jar>>
  BY DEF Read
<1>4. PICK t : t = Len(issued) + 1
  OBVIOUS
<1>5. PICK read \in Reads :
        LET new == NewRow(q, IF read THEN row ELSE Empty, t)
        IN /\ IF q.op \in {"save", "apply"} /\ new.conf \in BadConfs
              THEN Become(r, [q EXCEPT !.pc = "answer"])
              ELSE Become(r, [q EXCEPT !.pc = "write", !.new = new, !.blind = ~ read])
           /\ issued' = IF Draws(q) THEN Append(issued, [pass |-> q.body.pass, raced |-> FALSE])
                        ELSE issued
  BY <1>1, <1>4 DEF Read
<1>6. /\ StoreOK' /\ Grown /\ issued' \in Seq(Drawn)
      /\ Draws(q) => t \in Tokens' /\ q.body.pass \in Passwords /\ DrawnFor(t, q.body.pass)'
  BY <1>2, <1>3, <1>4, <1>5, ReadDraws
<1>7. PICK base : base = IF read THEN row ELSE Empty
  OBVIOUS
<1>8. PICK new : new = NewRow(q, base, t)
  OBVIOUS
<1>9. base \in Rows /\ Fits(base)
  BY <1>7 DEF StoreOK, Empty, Rows, Fits, Tokens
<1>10. /\ new \in Rows'
       /\ q.op # "login" => Fits(new)'
       /\ q.op = "login" => new = [base EXCEPT !.session = q.token]
       /\ \A f \in {"pass", "session", "key", "conf"} \ Named(q) : new[f] = base[f]
       /\ \A f \in {"pass", "key"} : new[f] = None => base[f] = None \/ q.body[f] = None
  BY <1>2, <1>3, <1>6, <1>8, <1>9, NewRowFits
<1>11. read \in BOOLEAN
  BY DEF Reads
<1>12. /\ q \in RequestType' /\ Sound(q)'
       /\ q.token \in Tokens /\ q.seen \in Tokens
  BY <1>2, <1>3, <1>6, DrawKeeps, TypesGrow, RequestFields
<1>13. DOMAIN q = {"pc", "op", "by", "new", "body", "token", "seen", "ok", "crossed", "late", "blind"}
  BY <1>2, RequestFields
<1>14. "write" \in Points /\ "answer" \in Points
  BY DEF Points
<1>15. CASE Become(r, [q EXCEPT !.pc = "answer"]) /\ q.op \in {"save", "apply"}
  <2>1. PICK p : p = [q EXCEPT !.pc = "answer"]
    OBVIOUS
  <2>2. p \in RequestType'
    BY <1>12, <1>14, <2>1, Zenon DEF RequestType
  <2>3. p.pc = "answer" /\ p.op = q.op
    BY <1>13, <2>1
  <2>4. Sound(p)'
    BY <1>15, <2>2, <2>3
       DEF Sound, OpsInPlace, LoginGoesOn, LoginStays, OthersFit, ColumnsHeld, Writes
  <2>. QED
    BY <1>3, <1>6, <1>15, <2>1, <2>4, OneSteps
<1>16. CASE Become(r, [q EXCEPT !.pc = "write", !.new = new, !.blind = ~ read])
  <2>1. PICK p : p = [q EXCEPT !.pc = "write", !.new = new, !.blind = ~ read]
    OBVIOUS
  <2>2. p \in RequestType'
    BY <1>10, <1>11, <1>12, <1>14, <2>1, Zenon DEF RequestType
  <2>3. /\ p.pc = "write" /\ p.op = q.op /\ p.by = q.by /\ p.new = new /\ p.body = q.body
        /\ p.token = q.token /\ p.seen = q.seen /\ p.ok = q.ok /\ p.late = q.late
        /\ p.crossed = q.crossed /\ p.blind = ~ read
    BY <1>13, <2>1
  <2>4. OpsInPlace(p)'
    BY <1>2, <2>3 DEF OpsInPlace, ReadsFirst, Ops
  <2>5. LoginStays(p)'
    BY <1>12, <2>3 DEF Sound, LoginStays
  <2>6. OthersFit(p)'
    BY <1>10, <2>3 DEF OthersFit, Writes
  <2>7. ColumnsHeld(p)'
    <3>1. Named(p) = Named(q)
      BY <2>3 DEF Named
    <3>2. read => base = row'
      BY <1>3, <1>7
    <3>. QED
      BY <1>10, <1>11, <2>3, <3>1, <3>2 DEF ColumnsHeld, Writes
  <2>8. LoginGoesOn(p)'
    <3>. SUFFICES ASSUME q.op = "login"
                  PROVE  /\ p.token # 0 /\ p.new.session = p.token
                         /\ ~ p.crossed /\ ~ p.blind => DrawnFor(p.token, Active(p.new))'
      BY <2>3 DEF LoginGoesOn
    <3>1. q.token # 0 /\ (~ q.crossed => DrawnFor(q.token, Active(row))')
      BY <1>2, <1>12 DEF Sound, LoginGoesOn
    <3>2. new.session = q.token /\ new.pass = base.pass
      BY <1>9, <1>10 DEF Rows
    <3>3. read => Active(new)' = Active(row)'
      BY <1>3, <1>7, <3>2 DEF Active
    <3>. QED
      BY <1>11, <2>3, <3>1, <3>2, <3>3 DEF DrawnFor
  <2>9. Sound(p)'
    BY <2>2, <2>4, <2>5, <2>6, <2>7, <2>8 DEF Sound
  <2>. QED
    BY <1>3, <1>6, <1>16, <2>1, <2>9, OneSteps
<1>. QED
  BY <1>5, <1>7, <1>8, <1>15, <1>16

\* What a login that was crossed, or could not read, says of its token when it writes.
LEMMA MarkStore ==
  ASSUME StoreOK, NEW t \in Tokens, t # 0, NEW raced \in BOOLEAN,
         issued' = [issued EXCEPT ![t].raced = @ \/ raced]
  PROVE  /\ issued' \in Seq(Drawn) /\ Grown /\ Tokens' = Tokens
         /\ raced => issued'[t].raced
<1>1. issued \in Seq(Drawn) /\ Len(issued) \in Nat /\ DOMAIN issued = 1..Len(issued) /\ t \in 1..Len(issued)
  BY DEF StoreOK, Tokens
<1>2. issued[t] \in Drawn
  BY <1>1
<1>3. PICK d : d = [issued[t] EXCEPT !.raced = @ \/ raced]
  OBVIOUS
<1>4. d \in Drawn /\ d.pass = issued[t].pass /\ d.raced = (issued[t].raced \/ raced)
  BY <1>2, <1>3 DEF Drawn
<1>5. issued' = [issued EXCEPT ![t] = d]
  BY <1>3
<1>6. /\ issued' \in Seq(Drawn) /\ Len(issued') = Len(issued) /\ issued'[t] = d
      /\ \A i \in 1..Len(issued) : i # t => issued'[i] = issued[i]
  BY <1>1, <1>4, <1>5
<1>7. Grown
  <2>1. d.pass = issued[t].pass /\ (issued[t].raced => d.raced)
    BY <1>4
  <2>2. ASSUME NEW i \in 1..Len(issued)
        PROVE  /\ issued'[i].pass = issued[i].pass
               /\ issued[i].raced => issued'[i].raced
    <3>1. CASE i = t
      BY <1>6, <2>1, <3>1
    <3>. QED
      BY <3>1, <1>6
  <2>. QED
    BY <1>1, <1>6, <2>2 DEF Grown
<1>. QED
  BY <1>1, <1>4, <1>6, <1>7 DEF Tokens

\* A write of the row overtakes the other requests.
LEMMA WriteKeeps ==
  ASSUME StoreOK, RequestsOK, NEW r \in Requests, Write(r)
  PROVE  StoreOK' /\ RequestsOK'
<1>1. PICK q : q = req[r]
  OBVIOUS
<1>2. q.pc = "write" /\ q.op # "export" /\ Sound(q) /\ q \in RequestType /\ OpsInPlace(q)
  BY <1>1 DEF Write, At, RequestsOK, Sound
<1>3. UNCHANGED <<env, backup, jar>>
  BY DEF Write
<1>4. DOMAIN q = {"pc", "op", "by", "new", "body", "token", "seen", "ok", "crossed", "late", "blind"}
  BY <1>2, RequestFields
<1>5. "answer" \in Points
  BY DEF Points
<1>6. CASE Become(r, [q EXCEPT !.pc = "answer", !.ok = (q.op = "reset")]) /\ UNCHANGED <<row, issued>>
  <2>1. StoreOK' /\ Grown /\ issued' \in Seq(Drawn)
    BY <1>3, <1>6 DEF StoreOK, Grown, Tokens, Rows, Fits, DrawnFor, Active
  <2>2. PICK ok \in BOOLEAN : ok = (q.op = "reset")
    OBVIOUS
  <2>3. PICK p : p = [q EXCEPT !.pc = "answer", !.ok = ok]
    OBVIOUS
  <2>4. p \in RequestType
    BY <1>2, <1>5, <2>3, Zenon DEF RequestType
  <2>5. p.pc = "answer" /\ p.op = q.op /\ p.seen = q.seen /\ p.ok = ok
    BY <1>4, <2>3
  <2>6. Sound(p)
    BY <1>2, <2>2, <2>4, <2>5
       DEF Sound, OpsInPlace, LoginGoesOn, LoginStays, OthersFit, ColumnsHeld, Writes
  <2>7. Become(r, p)
    BY <1>6, <2>2, <2>3
  <2>8. Sound(p)'
    BY <1>3, <1>6, <2>1, <2>6, DrawKeeps
  <2>. QED
    BY <1>3, <1>6, <2>1, <2>7, <2>8, OneSteps
<1>7. CASE /\ row' = CASE q.op = "reset" -> Empty [] q.op = "import" -> backup [] OTHER -> q.new
           /\ req' = Overtaken(r, [q EXCEPT !.pc = "answer", !.ok = TRUE])
           /\ issued' = IF q.op = "login"
                        THEN [issued EXCEPT ![q.token].raced = @ \/ q.crossed \/ q.blind]
                        ELSE issued
  <2>1. /\ q.new \in Rows /\ q.token \in Tokens /\ q.crossed \in BOOLEAN /\ q.blind \in BOOLEAN
        /\ q.seen \in Tokens
    BY <1>2, RequestFields
  <2>2. /\ issued' \in Seq(Drawn) /\ Grown /\ Tokens' = Tokens
        /\ q.op = "login" /\ (q.crossed \/ q.blind) => issued'[q.token].raced
    <3>1. CASE q.op = "login"
      <4>1. q.token # 0
        BY <1>2, <3>1 DEF Sound, LoginGoesOn
      <4>2. PICK raced \in BOOLEAN : raced = (q.crossed \/ q.blind)
        BY <2>1
      <4>3. issued' = [issued EXCEPT ![q.token].raced = @ \/ raced]
        BY <1>7, <3>1, <4>2
      <4>. QED
        BY <2>1, <4>1, <4>2, <4>3, MarkStore
    <3>2. CASE q.op # "login"
      BY <1>7, <3>2 DEF StoreOK, Grown, Tokens
    <3>. QED
      BY <3>1, <3>2
  <2>3. Rows' = Rows
    BY <2>2 DEF Rows
  <2>4. row' \in Rows /\ Fits(row)'
    <3>1. Empty \in Rows /\ Empty.session = 0
      BY DEF Empty, Rows, Tokens, StoreOK
    <3>2. backup \in Rows /\ Fits(backup)'
      BY <1>3, <2>2, FitsGrow DEF StoreOK
    <3>3. CASE q.op = "reset"
      BY <1>7, <3>1, <3>3 DEF Fits
    <3>4. CASE q.op = "import"
      BY <1>3, <1>7, <3>2, <3>4 DEF Fits, DrawnFor, Active
    <3>5. CASE q.op = "login"
      <4>1. row' = q.new
        BY <1>7, <3>5
      <4>2. q.new.session = q.token /\ q.token # 0
            /\ (~ q.crossed /\ ~ q.blind => DrawnFor(q.token, Active(q.new)))
        BY <1>2, <3>5 DEF Sound, LoginGoesOn
      <4>3. ~ q.crossed /\ ~ q.blind => DrawnFor(q.token, Active(q.new))'
        BY <1>3, <2>1, <2>2, <4>2, FitsGrow DEF DrawnFor, Active
      <4>4. Fits(q.new)'
        BY <2>2, <3>5, <4>2, <4>3 DEF Fits, DrawnFor
      <4>. QED
        BY <2>1, <4>1, <4>4 DEF Fits, DrawnFor, Active
    <3>6. CASE q.op \in ReadsFirst \ {"login"}
      <4>1. row' = q.new
        BY <1>7, <3>6 DEF ReadsFirst
      <4>2. Fits(q.new)'
        BY <1>2, <1>3, <2>1, <2>2, <3>6, FitsGrow DEF Sound, OthersFit, Writes
      <4>. QED
        BY <2>1, <4>1, <4>2 DEF Fits, DrawnFor, Active
    <3>. QED
      BY <1>2, <3>3, <3>4, <3>5, <3>6 DEF OpsInPlace, Ops
  <2>5. StoreOK'
    <3>1. Fits(backup)'
      BY <1>3, <2>2, FitsGrow DEF StoreOK
    <3>. QED
      BY <1>3, <2>2, <2>3, <2>4, <3>1 DEF StoreOK
  <2>6. PICK p : p = [q EXCEPT !.pc = "answer", !.ok = TRUE]
    OBVIOUS
  <2>7. p \in RequestType'
    <3>1. q \in RequestType'
      BY <1>2, <2>2, TypesGrow
    <3>. QED
      BY <1>5, <2>6, <3>1, Zenon DEF RequestType
  <2>8. p.pc = "answer" /\ p.op = q.op /\ p.seen = q.seen /\ p.late = q.late /\ p.token = q.token
    BY <1>4, <2>6
  <2>9. LoginStays(p)'
    <3>1. q.op = "login" => q.seen = 0 /\ q.new.session = q.token /\ row' = q.new
      BY <1>2, <1>7 DEF Sound, LoginStays, LoginGoesOn
    <3>. QED
      BY <2>8, <3>1 DEF LoginStays
  <2>10. Sound(p)'
    BY <2>7, <2>8, <2>9 DEF Sound, OpsInPlace, LoginGoesOn, OthersFit, ColumnsHeld, Writes
  <2>11. req' = Overtaken(r, p)
    BY <1>7, <2>6
  <2>12. ASSUME NEW u \in Requests PROVE Sound(req[u])'
    <3>1. CASE u = r
      <4>1. req'[u] = p
        BY <2>11, <3>1 DEF Overtaken
      <4>. QED
        BY <4>1, <2>10
    <3>2. CASE u # r
      <4>1. PICK v : v = req[u]
        OBVIOUS
      <4>2. Sound(v)
        BY <4>1 DEF RequestsOK
      <4>3. PICK w : w = [v EXCEPT !.crossed = @ \/ v.pc \in {"read", "write"},
                                   !.late    = @ \/ v.pc \in {"write", "answer", "done"}]
        OBVIOUS
      <4>4. Sound(w)'
        BY <1>3, <2>2, <4>2, <4>3, OvertakenKeeps
      <4>5. req'[u] = w
        BY <2>11, <3>2, <4>1, <4>3 DEF Overtaken
      <4>. QED
        BY <4>4, <4>5
    <3>. QED
      BY <3>1, <3>2
  <2>13. req' = [u \in Requests |-> req'[u]]
    BY <2>11 DEF Overtaken
  <2>. QED
    BY <2>5, <2>12, <2>13 DEF RequestsOK
<1>. QED
  BY <1>1, <1>6, <1>7 DEF Write

\* An export takes the row as it is.
LEMMA ExportKeeps ==
  ASSUME StoreOK, RequestsOK, NEW r \in Requests, Export(r)
  PROVE  StoreOK' /\ RequestsOK'
<1>1. PICK q : q = req[r]
  OBVIOUS
<1>2. q.pc = "write" /\ q.op = "export" /\ Sound(q) /\ q \in RequestType
  BY <1>1 DEF Export, At, RequestsOK, Sound
<1>3. UNCHANGED <<env, row, issued, jar>> /\ backup' \in {row, backup}
  BY DEF Export
<1>4. StoreOK' /\ Grown /\ issued' \in Seq(Drawn)
  BY <1>3 DEF StoreOK, Grown, Tokens, Rows, Fits, DrawnFor, Active
<1>5. PICK p : Become(r, p) /\ \/ p = [q EXCEPT !.pc = "answer", !.ok = TRUE]
                                \/ p = [q EXCEPT !.pc = "answer"]
  BY <1>1 DEF Export
<1>6. p \in RequestType
  BY <1>2, <1>5, Zenon DEF RequestType, Points
<1>7. p.pc = "answer" /\ p.op = "export"
  BY <1>2, <1>5, RequestFields
<1>8. Sound(p)
  BY <1>6, <1>7 DEF Sound, OpsInPlace, LoginGoesOn, LoginStays, OthersFit, ColumnsHeld, Writes
<1>9. Sound(p)'
  BY <1>3, <1>4, <1>8, DrawKeeps
<1>. QED
  BY <1>3, <1>4, <1>5, <1>9, OneSteps

\* An answer sets the cookie of its browser, with whatever the middleware adds.
LEMMA AnswerKeeps ==
  ASSUME StoreOK, RequestsOK, NEW r \in Requests, Answer(r)
  PROVE  StoreOK' /\ RequestsOK'
<1>1. PICK q : q = req[r]
  OBVIOUS
<1>2. q.pc = "answer" /\ Sound(q) /\ q \in RequestType
  BY <1>1 DEF Answer, At, RequestsOK, Sound
<1>3. UNCHANGED <<env, row, backup, issued>>
  BY DEF Answer
<1>4. /\ DOMAIN q = {"pc", "op", "by", "new", "body", "token", "seen", "ok", "crossed", "late", "blind"}
      /\ q.by \in Browsers /\ q.new \in Rows /\ q.token \in Tokens /\ q.seen \in Tokens
      /\ q.new.session \in Tokens /\ 0 \in Tokens
  BY <1>2, RequestFields DEF Rows, StoreOK, Tokens
<1>5. PICK t : t = IF q.seen # 0 THEN q.seen ELSE Given(q)
  OBVIOUS
<1>6. jar' = [jar EXCEPT ![q.by] = t] /\ jar \in [Browsers -> Tokens]
  BY <1>1, <1>5 DEF Answer, StoreOK
<1>7. t \in Tokens
  BY <1>4, <1>5, <1>6 DEF Given
<1>8. jar' \in [Browsers -> Tokens] /\ jar'[q.by] = t
  BY <1>4, <1>6, <1>7
<1>9. StoreOK'
  BY <1>3, <1>8 DEF StoreOK, Tokens, Rows, Fits, DrawnFor, Active
<1>10. PICK p : p = [q EXCEPT !.pc = "done", !.new = Empty, !.token = 0, !.body = Waiting.body]
  OBVIOUS
<1>11. p \in RequestType'
  <2>1. RequestType' = RequestType
    BY <1>3, Zenon DEF RequestType, Rows, Tokens
  <2>2. Empty \in Rows /\ Waiting.body \in Bodies /\ "done" \in Points
    BY <1>4 DEF Empty, Rows, Waiting, Bodies, Points
  <2>3. p \in RequestType
    BY <1>2, <1>4, <1>10, <2>2, Zenon DEF RequestType
  <2>. QED
    BY <2>1, <2>3
<1>12. /\ p.pc = "done" /\ p.op = q.op /\ p.by = q.by /\ p.seen = q.seen /\ p.ok = q.ok
       /\ p.late = q.late
  BY <1>4, <1>10
<1>13. LoginStays(p)'
  <2>. SUFFICES ASSUME q.op = "login", q.ok, ~ q.late
                PROVE  q.seen = 0 /\ jar'[q.by] = row'.session
    BY <1>2, <1>12 DEF LoginStays, Sound
  <2>1. q.seen = 0 /\ row.session = q.token
    BY <1>2 DEF Sound, LoginStays
  <2>2. t = q.token
    BY <1>5, <2>1 DEF Given
  <2>. QED
    BY <1>3, <1>8, <2>1, <2>2
<1>14. Sound(p)'
  BY <1>11, <1>12, <1>13 DEF Sound, OpsInPlace, LoginGoesOn, OthersFit, ColumnsHeld, Writes
<1>15. req' = [u \in Requests |->
                 IF u = r THEN p
                 ELSE [req[u] EXCEPT !.late = @ \/ (req[u].pc = "done" /\ req[u].by = q.by)]]
  BY <1>1, <1>10 DEF Answer
<1>16. ASSUME NEW u \in Requests PROVE Sound(req[u])'
  <2>1. CASE u = r
    <3>1. req'[u] = p
      BY <1>15, <2>1
    <3>. QED
      BY <3>1, <1>14
  <2>2. CASE u # r
    <3>1. PICK v : v = req[u]
      OBVIOUS
    <3>2. Sound(v)
      BY <3>1 DEF RequestsOK
    <3>3. PICK w : w = [v EXCEPT !.late = @ \/ (v.pc = "done" /\ v.by = q.by)]
      OBVIOUS
    <3>4. Sound(w)'
      BY <1>3, <1>6, <3>2, <3>3, AnsweredKeeps
    <3>5. req'[u] = w
      BY <1>15, <2>2, <3>1, <3>3
    <3>. QED
      BY <3>4, <3>5
  <2>. QED
    BY <2>1, <2>2
<1>17. req' = [u \in Requests |-> req'[u]]
  BY <1>15
<1>. QED
  BY <1>9, <1>16, <1>17 DEF RequestsOK

\* An arrival, whether the limiter lets it in or not.
LEMMA ArriveKeeps ==
  ASSUME StoreOK, RequestsOK, NEW r \in Requests, NEW c \in Browsers, NEW op \in Ops,
         NEW body \in BodiesOf(op), Arrive(r, c, op, body)
  PROVE  StoreOK' /\ RequestsOK'
<1>1. body \in Bodies
  <2>1. Waiting.body \in Bodies
    BY DEF Waiting, Bodies
  <2>2. Payloads \subseteq Bodies
    BY SettingsConstants DEF Bodies
  <2>. QED
    BY <2>1, <2>2 DEF BodiesOf
<1>2. op \in {"login", "password"} => body.pass \in Passwords
  BY DEF Arrive
<1>3. CASE op = "login" /\ Login(r, c, body)
  BY <1>1, <1>2, <1>3, LoginKeeps
<1>4. CASE op = "logout" /\ Logout(r, c)
  BY <1>4, RefusedKeeps DEF Logout
<1>5. CASE op \notin {"login", "logout"} /\ Call(r, c, op, body)
  BY <1>1, <1>2, <1>5, CallKeeps
<1>6. CASE /\ Become(r, [Waiting EXCEPT !.pc = "refused", !.op = op, !.by = c])
           /\ UNCHANGED <<env, row, backup, issued, jar>>
  BY <1>6, RefusedKeeps
<1>. QED
  BY <1>3, <1>4, <1>5, <1>6 DEF Arrive

-----------------------------------------------------------------------------
(* The invariant, and what follows from it.                                *)

\* It holds at first.
LEMMA WebInit == Init => WebInv
<1>. SUFFICES ASSUME Init PROVE WebInv
  OBVIOUS
<1>1. RateInv
  BY RateInitInv, WebConstants DEF Init, LoginBucket
<1>2. StoreOK
  <2>1. env \in [pass : Passwords \cup {None}, key : Keys \cup {None}, conf : Confs \cup {None}]
    BY SettingsConstants DEF Init, SettingsInit
  <2>2. issued = <<>> /\ row = Empty /\ backup = Empty /\ jar = [c \in Browsers |-> 0]
    BY DEF Init, SettingsInit
  <2>3. 0 \in Tokens /\ issued \in Seq(Drawn)
    BY <2>2 DEF Tokens
  <2>4. Empty \in Rows /\ Empty.session = 0
    BY <2>3 DEF Empty, Rows
  <2>. QED
    BY <2>1, <2>2, <2>3, <2>4 DEF StoreOK, Fits
<1>3. RequestsOK
  <2>1. req = [r \in Requests |-> Waiting]
    BY DEF Init, SettingsInit
  <2>. QED
    BY <1>2, <2>1, WaitingSound DEF RequestsOK
<1>. QED
  BY <1>1, <1>2, <1>3 DEF WebInv

\* A step of Web is one of the limiter, or leaves it alone.
LEMMA WebRate == [Next]_vars => RateNext \/ UNCHANGED limiterVars
<1>. SUFFICES ASSUME [Next]_vars PROVE RateNext \/ UNCHANGED limiterVars
  OBVIOUS
<1>1. ASSUME NEW r \in Requests, NEW c \in Browsers, NEW op \in Ops, NEW body \in BodiesOf(op),
             Arrive(r, c, op, body)
      PROVE  RateNext
  <2>1. Bucket(op) \in Buckets /\ c \in Clients
    BY WebConstants DEF Bucket
  <2>2. \E ok \in BOOLEAN : Checked(Bucket(op), c, ok)
    BY <1>1 DEF Arrive
  <2>. QED
    BY <2>1, <2>2 DEF RateNext
<1>2. ASSUME NEW c \in Clients, Attempt(c)
      PROVE  RateNext
  <2>1. "login" \in Buckets
    BY WebConstants
  <2>. QED
    BY <1>2, <2>1 DEF Attempt, RateNext
<1>3. CASE Pass
  BY <1>3 DEF Pass, RateNext
<1>4. ASSUME NEW b \in Buckets, Clean(b)
      PROVE  RateNext
  BY <1>4 DEF RateNext
<1>. QED
  BY <1>1, <1>2, <1>3, <1>4 DEF Next, vars

\* A step keeps the settings and the requests.
LEMMA WebSettings == StoreOK /\ RequestsOK /\ [Next]_vars => StoreOK' /\ RequestsOK'
<1>. SUFFICES ASSUME StoreOK, RequestsOK, [Next]_vars
              PROVE  StoreOK' /\ RequestsOK'
  OBVIOUS
<1>1. CASE UNCHANGED settingsVars
  BY <1>1 DEF settingsVars, StoreOK, RequestsOK, Tokens, Rows, Fits, DrawnFor, Active, Sound,
       RequestType, OpsInPlace, LoginGoesOn, LoginStays, OthersFit, ColumnsHeld, Writes
<1>2. ASSUME NEW r \in Requests, Read(r) \/ Write(r) \/ Export(r) \/ Answer(r)
      PROVE  StoreOK' /\ RequestsOK'
  BY <1>2, ReadKeeps, WriteKeeps, ExportKeeps, AnswerKeeps
<1>. QED
  BY <1>1, <1>2, ArriveKeeps DEF Next, vars, Attempt, Pass, settingsVars

\* The inductive invariant of settings, sessions and limiter.
THEOREM WebInvariant == Spec => []WebInv
<1>1. WebInv /\ [Next]_vars => WebInv'
  BY WebRate, WebSettings, RateStepKeeps, WebConstants DEF WebInv, LoginBucket
<1>. QED
  BY <1>1, WebInit, PTL DEF Spec

\* The variables hold what they are for.
THEOREM TypeCorrect == Spec => []TypeOK
<1>1. WebInv => TypeOK
  <2>. SUFFICES ASSUME WebInv PROVE TypeOK
    OBVIOUS
  <2>1. RateTypeOK
    BY RateTyped DEF WebInv
  <2>2. \A r \in Requests : req[r] \in RequestType
    BY DEF WebInv, RequestsOK, Sound
  <2>3. \A r \in Requests : req[r].token \in Tokens /\ req[r].by \in Browsers
    BY <2>2, RequestFields
  <2>4. row \in Rows /\ backup \in Rows /\ jar \in [Browsers -> Tokens]
    BY DEF WebInv, StoreOK
  <2>. QED
    BY <2>1, <2>3, <2>4 DEF TypeOK, SettingsTypeOK, Rows, Tokens
<1>. QED
  BY <1>1, WebInvariant, PTL

\* The session in force was drawn for the password in force, or by a login that another
\* request crossed or that could not read: a new password, a reset or an import never
\* leaves an earlier session in force.
THEOREM SessionIsOfPassword == Spec => []SessionOfPassword
<1>1. WebInv => SessionOfPassword
  BY DEF WebInv, StoreOK, Fits, DrawnFor, Active, ActivePassword, SessionOfPassword
<1>. QED
  BY <1>1, WebInvariant, PTL

\* A login that nobody has overtaken has the session in force in its browser.
THEOREM LoginIsSignedIn == Spec => []LoginSignsIn
<1>1. WebInv => LoginSignsIn
  BY DEF WebInv, RequestsOK, Sound, LoginStays, LoginSignsIn
<1>. QED
  BY <1>1, WebInvariant, PTL

\* No address gets more than two allowances of login attempts into a window's length.
THEOREM AttemptsAreBounded == Spec => []AttemptsBounded
<1>1. WebInv => AttemptsBounded
  BY AttemptsCounted, WebConstants DEF WebInv, LoginBucket
<1>. QED
  BY <1>1, WebInvariant, PTL

\* An attempt is refused only when the allowance is used up within the last window, or
\* the table is full of young entries.
THEOREM RefusalIsDeserved == Spec => []RefusalDeserved
<1>1. WebInv => RefusalDeserved
  BY RefusalCounted, WebConstants DEF WebInv, LoginBucket
<1>. QED
  BY <1>1, WebInvariant, PTL

-----------------------------------------------------------------------------
(* No setting is lost.                                                     *)

\* What ColumnsKept says of a step.
ColumnsStep ==
  \A f \in DOMAIN row : row'[f] # row[f] =>
    \E r \in Requests : LET q == req[r] IN
      /\ q.pc = "write" /\ req'[r].pc = "answer"
      /\ q.op \in {"reset", "import"} \/ f \in Named(q) \/ q.late \/ q.blind

\* Only a write changes the row, and it has what ColumnsHeld says.
LEMMA WriteKeepsColumns ==
  ASSUME StoreOK, RequestsOK, NEW r \in Requests, Write(r)
  PROVE  ColumnsStep
<1>. SUFFICES ASSUME NEW f \in DOMAIN row, row'[f] # row[f]
              PROVE  \E u \in Requests : LET q == req[u] IN
                       /\ q.pc = "write" /\ req'[u].pc = "answer"
                       /\ q.op \in {"reset", "import"} \/ f \in Named(q) \/ q.late \/ q.blind
  BY DEF ColumnsStep
<1>1. PICK q : q = req[r]
  OBVIOUS
<1>2. q.pc = "write" /\ q.op # "export" /\ Sound(q) /\ q \in RequestType /\ OpsInPlace(q)
  BY <1>1 DEF Write, At, RequestsOK, Sound
<1>3. f \in {"pass", "session", "key", "conf"}
  BY DEF StoreOK, Rows
<1>4. /\ row' = CASE q.op = "reset" -> Empty [] q.op = "import" -> backup [] OTHER -> q.new
      /\ req' = Overtaken(r, [q EXCEPT !.pc = "answer", !.ok = TRUE])
  BY <1>1 DEF Write
<1>5. req'[r].pc = "answer"
  <2>1. req'[r] = [q EXCEPT !.pc = "answer", !.ok = TRUE]
    BY <1>4 DEF Overtaken
  <2>. QED
    BY <1>2, <2>1, RequestFields
<1>6. q.op \in {"reset", "import"} \/ f \in Named(q) \/ q.late \/ q.blind
  <2>. SUFFICES ASSUME q.op \notin {"reset", "import"}, f \notin Named(q), ~ q.late, ~ q.blind
                PROVE  FALSE
    OBVIOUS
  <2>1. Writes(q) /\ row' = q.new
    BY <1>2, <1>4 DEF Writes, OpsInPlace, Ops
  <2>2. q.new[f] = row[f]
    BY <1>2, <1>3, <2>1 DEF Sound, ColumnsHeld
  <2>. QED
    BY <2>1, <2>2
<1>. QED
  BY <1>1, <1>2, <1>5, <1>6

\* A column changes only through a request that is about it, a reset or an import, unless
\* the request that wrote was overtaken after it had read, or could not read.
THEOREM ColumnsAreKept == Spec => ColumnsKept
<1>1. WebInv /\ [Next]_vars => [ColumnsStep]_settingsVars
  <2>. SUFFICES ASSUME WebInv, [Next]_vars, settingsVars' # settingsVars
                PROVE  ColumnsStep
    OBVIOUS
  <2>1. CASE row' = row
    BY <2>1 DEF ColumnsStep
  <2>2. CASE row' # row
    <3>1. ASSUME NEW r, NEW c, NEW op, NEW body, Arrive(r, c, op, body)
          PROVE  FALSE
      <4>1. \/ Login(r, c, body) \/ Logout(r, c) \/ Call(r, c, op, body)
            \/ UNCHANGED <<env, row, backup, issued, jar>>
        BY <3>1 DEF Arrive
      <4>. QED
        BY <4>1, <2>2 DEF Login, Logout, Call
    <3>2. \A r \in Requests : ~ Read(r) /\ ~ Export(r) /\ ~ Answer(r)
      BY <2>2 DEF Read, Export, Answer
    <3>3. ~ UNCHANGED settingsVars
      BY <2>2 DEF settingsVars
    <3>4. PICK r \in Requests : Write(r)
      BY <3>1, <3>2, <3>3 DEF Next, vars, Attempt, Pass
    <3>. QED
      BY <3>4, WriteKeepsColumns DEF WebInv
  <2>. QED
    BY <2>1, <2>2
<1>. QED
  BY <1>1, WebInvariant, PTL DEF Spec, ColumnsKept, ColumnsStep

-----------------------------------------------------------------------------
(* Uploads that are closed stay so.                                        *)

\* What UploadsStayClosed says of a step.
ClosedStep ==
  ~ UploadsOpen /\ UploadsOpen' =>
    /\ env.pass = None
    /\ \E r \in Requests : LET q == req[r] IN
         /\ q.pc = "write" /\ req'[r].pc = "answer"
         /\ \/ q.op \in {"reset", "import"} \/ q.late \/ q.blind
            \/ \A f \in {"pass", "key"} : row[f] # None => q.body[f] = None

\* Uploads are open when neither the row nor, for the password, the environment has
\* anything to ask for.
LEMMA OpenWhenBare ==
  ASSUME StoreOK
  PROVE  UploadsOpen <=> env.pass = None /\ row.pass = None /\ row.key = None
BY DEF UploadsOpen, Passes, CheckSession, EnsureUploadAuth, AppSettings, ActivePassword

\* A write that leaves the row bare was about all that was there, or did not know of it.
LEMMA WriteKeepsClosed ==
  ASSUME StoreOK, StoreOK', RequestsOK, NEW r \in Requests, Write(r)
  PROVE  ClosedStep
<1>. SUFFICES ASSUME ~ UploadsOpen, UploadsOpen'
              PROVE  /\ env.pass = None
                     /\ \E u \in Requests : LET q == req[u] IN
                          /\ q.pc = "write" /\ req'[u].pc = "answer"
                          /\ \/ q.op \in {"reset", "import"} \/ q.late \/ q.blind
                             \/ \A f \in {"pass", "key"} : row[f] # None => q.body[f] = None
  BY DEF ClosedStep
<1>1. PICK q : q = req[r]
  OBVIOUS
<1>2. q.pc = "write" /\ q.op # "export" /\ Sound(q) /\ q \in RequestType /\ OpsInPlace(q)
  BY <1>1 DEF Write, At, RequestsOK, Sound
<1>3. (UploadsOpen <=> env.pass = None /\ row.pass = None /\ row.key = None)'
  BY OpenWhenBare, PTL
<1>4. env' = env
  BY DEF Write
<1>5. env.pass = None /\ row'.pass = None /\ row'.key = None
  BY <1>3, <1>4
<1>6. row' # row
  BY <1>5, OpenWhenBare
<1>7. /\ row' = CASE q.op = "reset" -> Empty [] q.op = "import" -> backup [] OTHER -> q.new
      /\ req' = Overtaken(r, [q EXCEPT !.pc = "answer", !.ok = TRUE])
  BY <1>1, <1>6 DEF Write
<1>8. req'[r].pc = "answer"
  <2>1. req'[r] = [q EXCEPT !.pc = "answer", !.ok = TRUE]
    BY <1>7 DEF Overtaken
  <2>. QED
    BY <1>2, <2>1, RequestFields
<1>9. \/ q.op \in {"reset", "import"} \/ q.late \/ q.blind
      \/ \A f \in {"pass", "key"} : row[f] # None => q.body[f] = None
  <2>. SUFFICES ASSUME q.op \notin {"reset", "import"}, ~ q.late, ~ q.blind,
                       NEW f \in {"pass", "key"}, row[f] # None
                PROVE  q.body[f] = None
    OBVIOUS
  <2>1. Writes(q) /\ row' = q.new
    BY <1>2, <1>7 DEF Writes, OpsInPlace, Ops
  <2>2. q.new[f] = None
    BY <1>5, <2>1
  <2>. QED
    BY <1>2, <2>1, <2>2 DEF Sound, ColumnsHeld
<1>. QED
  BY <1>1, <1>2, <1>5, <1>8, <1>9

\* Uploads that a password or the row's key closes are opened only by a reset, an import
\* or a save that clears all that the row has, or by a request that was overtaken after
\* its read or could not read; never under a password of the environment.
THEOREM UploadsAreKeptClosed == Spec => UploadsStayClosed
<1>1. WebInv /\ WebInv' /\ [Next]_vars => [ClosedStep]_settingsVars
  <2>. SUFFICES ASSUME WebInv, WebInv', [Next]_vars, settingsVars' # settingsVars
                PROVE  ClosedStep
    OBVIOUS
  <2>1. CASE row' = row /\ env' = env
    BY <2>1 DEF ClosedStep, UploadsOpen, Passes, CheckSession, EnsureUploadAuth, AppSettings,
                ActivePassword
  <2>2. CASE ~ (row' = row /\ env' = env)
    <3>1. ASSUME NEW r, NEW c, NEW op, NEW body, Arrive(r, c, op, body)
          PROVE  FALSE
      <4>1. \/ Login(r, c, body) \/ Logout(r, c) \/ Call(r, c, op, body)
            \/ UNCHANGED <<env, row, backup, issued, jar>>
        BY <3>1 DEF Arrive
      <4>. QED
        BY <4>1, <2>2 DEF Login, Logout, Call
    <3>2. \A r \in Requests : ~ Read(r) /\ ~ Export(r) /\ ~ Answer(r)
      BY <2>2 DEF Read, Export, Answer
    <3>3. ~ UNCHANGED settingsVars
      BY <2>2 DEF settingsVars
    <3>4. PICK r \in Requests : Write(r)
      BY <3>1, <3>2, <3>3 DEF Next, vars, Attempt, Pass
    <3>. QED
      BY <3>4, WriteKeepsClosed DEF WebInv
  <2>. QED
    BY <2>1, <2>2
<1>. QED
  BY <1>1, WebInvariant, PTL DEF Spec, UploadsStayClosed, ClosedStep
=============================================================================
