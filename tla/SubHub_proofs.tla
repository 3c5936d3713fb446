----------------------------- MODULE SubHub_proofs -----------------------------
(***************************************************************************)
(* Proofs about SubHubSubscription, for any number of requests, tokens,     *)
(* collections and nodes.                                                  *)
(***************************************************************************)
EXTENDS SubHubSubscription, FiniteSetTheorems, TLAPS

(***************************************************************************)
(* Type correctness.                                                       *)
(***************************************************************************)
\* The tables hold ids.
LEMMA Typing ==
  \A k \in Kinds : Table(k) \subseteq Ids /\ LinkTable(k) \subseteq Ids
BY DEF Kinds, Table, LinkTable, Ids, Owners, TokenIds

\* A row is in one table.
LEMMA OneTable ==
  ASSUME NEW j \in Kinds, NEW k \in Kinds, NEW x \in Table(j) \cap Table(k)
  PROVE  LinkTable(j) = LinkTable(k) /\ (j = k)
BY IdAssumption DEF Kinds, Table, LinkTable

\* What an administrator asks for has the type of a request, and names a row and
\* links of the tables it is about.
LEMMA Arrival ==
  ASSUME NEW a \in Admins, AdminArrive(a)
  PROVE  \E call \in Calls, kind \in Kinds :
         \E id \in IF call = "create" THEN {None} ELSE Table(kind) :
         \E enabled \in BOOLEAN \cup {Unset}, ls \in {Unset} \cup SUBSET LinkTable(kind),
            limit \in Limits \cup {Unset}, until \in Expiries \cup {Unset} :
           /\ <<call, kind>> \in AdminCalls
           /\ adm' = [adm EXCEPT ![a] = Request(call, kind, id, enabled, ls, limit, until)]
<1>1. PICK call \in Calls, kind \in Kinds :
        LET writes == call \in {"create", "update"} IN
        /\ <<call, kind>> \in AdminCalls
        /\ \E id \in IF call = "create" THEN {None} ELSE Table(kind) :
           \E enabled \in Field(writes, Switches) :
           \E ls \in Field(writes /\ kind # "node", SUBSET LinkTable(kind)) :
           \E limit \in Field(writes /\ kind = "child", Limits) :
           \E until \in Field(writes /\ kind = "child", Expiries) :
             /\ FewFields(<<enabled, ls, limit, until>>)
             /\ adm' = [adm EXCEPT ![a] = Request(call, kind, id, enabled, ls, limit, until)]
  BY DEF AdminArrive
<1>2. PICK id \in IF call = "create" THEN {None} ELSE Table(kind) :
        LET writes == call \in {"create", "update"} IN
           \E enabled \in Field(writes, Switches) :
           \E ls \in Field(writes /\ kind # "node", SUBSET LinkTable(kind)) :
           \E limit \in Field(writes /\ kind = "child", Limits) :
           \E until \in Field(writes /\ kind = "child", Expiries) :
             /\ FewFields(<<enabled, ls, limit, until>>)
             /\ adm' = [adm EXCEPT ![a] = Request(call, kind, id, enabled, ls, limit, until)]
  BY <1>1
<1>. DEFINE writes == call \in {"create", "update"}
<1>3. PICK enabled \in Field(writes, Switches),
           ls \in Field(writes /\ kind # "node", SUBSET LinkTable(kind)),
           limit \in Field(writes /\ kind = "child", Limits),
           until \in Field(writes /\ kind = "child", Expiries) :
        /\ FewFields(<<enabled, ls, limit, until>>)
        /\ adm' = [adm EXCEPT ![a] = Request(call, kind, id, enabled, ls, limit, until)]
  BY <1>2
<1>4. /\ enabled \in BOOLEAN \cup {Unset} /\ ls \in {Unset} \cup SUBSET LinkTable(kind)
      /\ limit \in Limits \cup {Unset} /\ until \in Expiries \cup {Unset}
  BY RequestAssumption DEF Field
<1>. QED
  BY <1>1, <1>3, <1>4

(***************************************************************************)
(* A request names rows and links of the tables it is about: without this  *)
(* the types are not inductive, for a statement about a row of the wrong    *)
(* table could write anything.                                             *)
(***************************************************************************)
WellFormed ==
  {q \in AdmType :
     /\ q.links \in {Unset} \cup SUBSET LinkTable(q.kind)
     /\ q.had \subseteq LinkTable(q.kind)
     /\ q.pc \in {"read", "readlinks", "write", "link", "count", "delete", "rotate"}
          => q.id \in Table(q.kind)
     /\ q.pc \in {"readlinks", "link"} => q.kind # "node"
     /\ q.pc = "rotate" => q.kind \in {"master", "child"}
     /\ q.pc \in {"count", "delete"} => q.call = "delete"}

\* That a row names rows of the right table only, gone or not, is a part of
\* ForeignKeys that the types need.
LinksTyped == \A k \in Kinds : \A x \in Table(k) \cap Owners : links[x] \subseteq LinkTable(k)

StoreInv == StoreTypeOK /\ LinksTyped /\ adm \in [Admins -> WellFormed]

LEMMA RequestWellFormed ==
  ASSUME NEW call \in Calls, NEW kind \in Kinds, <<call, kind>> \in AdminCalls,
         NEW id \in IF call = "create" THEN {None} ELSE Table(kind),
         NEW enabled \in BOOLEAN \cup {Unset}, NEW ls \in {Unset} \cup SUBSET LinkTable(kind),
         NEW limit \in Limits \cup {Unset}, NEW until \in Expiries \cup {Unset}
  PROVE  Request(call, kind, id, enabled, ls, limit, until) \in WellFormed
<1>. DEFINE q == Request(call, kind, id, enabled, ls, limit, until)
<1>1. FirstStep(call, kind) \in {"insert", "read", "count", "delete", "rotate"}
  BY DEF FirstStep, Calls
<1>2. 0 \in Limits /\ Never \in Expiries
  BY RequestAssumption
<1>3. id \in Ids \cup {None} /\ ls \in {Unset} \cup SUBSET Ids
  BY Typing
<1>4. q \in AdmType
  BY ZenonT(40), <1>1, <1>2, <1>3 DEF Request, NoAdmin, AdmType, AdmSteps
<1>5. /\ q.links = ls /\ q.had = {} /\ q.kind = kind /\ q.id = id /\ q.call = call
      /\ q.pc = FirstStep(call, kind)
  BY DEF Request, NoAdmin
<1>6. FirstStep(call, kind) = "rotate" => kind \in {"master", "child"}
  BY RequestAssumption DEF FirstStep, Calls
<1>7. call = "create" => FirstStep(call, kind) = "insert"
  BY DEF FirstStep
<1>8. FirstStep(call, kind) \in {"count", "delete"} => call = "delete"
  BY DEF FirstStep, Calls
<1>. HIDE DEF q
<1>9. q \in WellFormed
  BY <1>1, <1>4, <1>5, <1>6, <1>7, <1>8 DEF WellFormed
<1>. QED
  BY <1>9 DEF q

\* A request that only moves on stays well formed, if the next step is one for
\* its tables.
LEMMA MovesOn ==
  ASSUME adm \in [Admins -> WellFormed], NEW a \in Admins, NEW pc \in AdmSteps, Go(a, pc),
         \/ pc \in AdmEnded
         \/ adm[a].id \in Table(adm[a].kind) /\ pc = "link" /\ adm[a].kind # "node"
  PROVE  adm' \in [Admins -> WellFormed]
<1>. DEFINE q == [adm[a] EXCEPT !.pc = pc]
<1>1. adm' = [adm EXCEPT ![a] = q]
  BY DEF Go
<1>2. adm[a] \in AdmType /\ adm[a] \in WellFormed
  BY DEF WellFormed
<1>3. q \in AdmType
  BY <1>2 DEF AdmType
<1>4. q.pc = pc /\ q.links = adm[a].links /\ q.had = adm[a].had
      /\ q.kind = adm[a].kind /\ q.id = adm[a].id
  BY <1>2 DEF AdmType
<1>. HIDE DEF q
<1>5. q \in WellFormed
  BY <1>2, <1>3, <1>4 DEF WellFormed, AdmEnded
<1>. QED
  BY <1>1, <1>5

\* The administrators' handlers keep the types.
LEMMA AdminStepInv ==
  ASSUME StoreInv, NEW a \in Admins, AdminStep(a)
  PROVE  StoreInv'
<1>. USE DEF StoreInv, StoreTypeOK
<1>b. links' = links => LinksTyped'
  BY DEF LinksTyped
<1>0. adm[a] \in WellFormed /\ adm[a] \in AdmType
  BY DEF WellFormed
<1>a. adm[a].kind \in Kinds /\ Table(adm[a].kind) \subseteq Ids /\ LinkTable(adm[a].kind) \subseteq Ids
  BY <1>0, Typing DEF AdmType
<1>1. CASE AdminArrive(a)
  <2>1. adm' \in [Admins -> WellFormed]
    <3>1. PICK q \in WellFormed : adm' = [adm EXCEPT ![a] = q]
      BY <1>1, Arrival, RequestWellFormed
    <3>. QED
      BY <3>1
  <2>. QED
    BY <1>b, <1>1, <2>1 DEF AdminArrive, NotTables, tables, WellFormed
<1>2. CASE Insert(a)
  <2>1. PICK x \in Table(adm[a].kind) \ SeedIds :
       /\ row[x] = "unborn"
       /\ row' = [row EXCEPT ![x] = Status(Given(adm[a].enabled, TRUE))]
       /\ adm' = [adm EXCEPT ![a].id = x, ![a].had = Given(adm[a].links, {}),
                             ![a].pc = IF x \in NodeIds THEN "done" ELSE "link"]
       /\ max_uses' = IF x \in ChildIds
                      THEN [max_uses EXCEPT ![x] = Given(adm[a].limit, 0)] ELSE max_uses
       /\ expires_at' = IF x \in ChildIds
                        THEN [expires_at EXCEPT ![x] = Given(adm[a].until, Never)] ELSE expires_at
    BY <1>2 DEF Insert
  <2>2. x \in Ids /\ (x \in NodeIds <=> adm[a].kind = "node")
    BY <1>a, <2>1, IdAssumption DEF Table, Kinds
  <2>3. /\ Given(adm[a].limit, 0) \in Limits /\ Given(adm[a].until, Never) \in Expiries
        /\ Given(adm[a].links, {}) \in SUBSET LinkTable(adm[a].kind)
    BY <1>0, RequestAssumption DEF Given, AdmType, WellFormed
  <2>4. row' \in [Ids -> {"unborn", "on", "off", "gone"}]
    BY <2>1 DEF Status
  <2>5. adm' \in [Admins -> WellFormed]
    <3>. DEFINE had == Given(adm[a].links, {})
                pc == IF x \in NodeIds THEN "done" ELSE "link"
                q == [adm[a] EXCEPT !.id = x, !.had = had, !.pc = pc]
    <3>1. adm' = [adm EXCEPT ![a] = q]
      BY <2>1
    <3>2. pc \in {"done", "link"} /\ (pc = "link" => adm[a].kind # "node")
      BY <2>2
    <3>. HIDE DEF pc
    <3>3. q \in AdmType
      BY <1>0, <1>a, <2>2, <2>3, <3>2 DEF AdmType, AdmSteps, AdmEnded
    <3>4. q.pc = pc /\ q.links = adm[a].links /\ q.had = had /\ q.kind = adm[a].kind /\ q.id = x
      BY <1>0 DEF AdmType
    <3>. HIDE DEF q
    <3>5. q \in WellFormed
      BY <1>0, <2>1, <2>3, <3>2, <3>3, <3>4 DEF WellFormed
    <3>. QED
      BY <3>1, <3>5
  <2>6. max_uses' \in [ChildIds -> Limits] /\ expires_at' \in [ChildIds -> Expiries]
    BY <2>1, <2>3
  <2>. QED
    BY <1>b, <1>2, <2>4, <2>5, <2>6 DEF Insert, NotTables, WellFormed
<1>3. CASE InsertRefused(a) \/ UpdateMissing(a) \/ AdminCancel(a) \/ CountTokens(a)
  <2>1. CASE InsertRefused(a) \/ UpdateMissing(a) \/ AdminCancel(a)
    BY <1>b, <2>1, MovesOn DEF InsertRefused, UpdateMissing, AdminCancel, AdmSteps, AdmEnded, NotTables, tables, WellFormed
  <2>2. CASE CountTokens(a)
    <3>1. adm' \in [Admins -> WellFormed]
      <4>1. CASE adm' = [adm EXCEPT ![a].pc = "delete", ![a].counted = Masters]
        <5>. DEFINE q == [adm[a] EXCEPT !.pc = "delete", !.counted = Masters]
        <5>1. adm' = [adm EXCEPT ![a] = q]
          BY <4>1
        <5>2. q \in AdmType
          BY <1>0 DEF AdmType, AdmSteps, Masters
        <5>3. q.pc = "delete" /\ q.links = adm[a].links /\ q.had = adm[a].had
              /\ q.kind = adm[a].kind /\ q.id = adm[a].id
          BY <1>0 DEF AdmType
        <5>4. adm[a].id \in Table(adm[a].kind)
          BY <1>0, <2>2 DEF CountTokens, At, WellFormed
        <5>6. q.call = "delete"
          BY <1>0, <2>2 DEF CountTokens, At, WellFormed, AdmType
        <5>. HIDE DEF q
        <5>5. q \in WellFormed
          BY <1>0, <5>2, <5>3, <5>4, <5>6 DEF WellFormed
        <5>. QED
          BY <5>1, <5>5
      <4>. QED
        BY <2>2, <4>1, MovesOn DEF CountTokens, AdmSteps, AdmEnded
    <3>. QED
      BY <1>b, <2>2, <3>1 DEF CountTokens, NotTables, tables, WellFormed
  <2>. QED
    BY <1>3, <2>1, <2>2
<1>4. CASE ReadRow(a)
  <2>1. CASE Present(adm[a].id)
    <3>. DEFINE child == adm[a].id \in ChildIds
                was == row[adm[a].id] = "on"
                limit == IF child THEN max_uses[adm[a].id] ELSE 0
                until == IF child THEN expires_at[adm[a].id] ELSE Never
                pc == IF adm[a].id \in NodeIds THEN "write" ELSE "readlinks"
    <3>1. adm' = [adm EXCEPT ![a].was = was, ![a].limit_was = limit, ![a].until_was = until,
                             ![a].pc = pc]
      BY <1>4, <2>1 DEF ReadRow
    <3>2. was \in BOOLEAN /\ limit \in Limits /\ until \in Expiries /\ pc \in {"write", "readlinks"}
      BY RequestAssumption
    <3>3. adm[a].id \in Table(adm[a].kind)
      BY <1>0, <1>4 DEF ReadRow, At, WellFormed
    <3>4. pc = "readlinks" => adm[a].kind # "node"
      BY <3>3 DEF Table
    <3>. HIDE DEF was, limit, until, pc
    <3>. DEFINE q == [adm[a] EXCEPT !.was = was, !.limit_was = limit, !.until_was = until, !.pc = pc]
    <3>5. adm' \in [Admins -> WellFormed]
      <4>1. adm' = [adm EXCEPT ![a] = q]
        BY <3>1
      <4>2. q \in AdmType
        BY <1>0, <3>2 DEF AdmType, AdmSteps
      <4>3. q.pc = pc /\ q.links = adm[a].links /\ q.had = adm[a].had
            /\ q.kind = adm[a].kind /\ q.id = adm[a].id
        BY <1>0 DEF AdmType
      <4>. HIDE DEF q
      <4>4. q \in WellFormed
        BY <1>0, <3>2, <3>3, <3>4, <4>2, <4>3 DEF WellFormed
      <4>. QED
        BY <4>1, <4>4
    <3>. QED
      BY <1>b, <1>4, <3>5 DEF ReadRow, NotTables, tables, WellFormed
  <2>2. CASE ~Present(adm[a].id)
    <3>1. adm' \in [Admins -> WellFormed]
      BY <1>4, <2>2, MovesOn DEF ReadRow, AdmSteps, AdmEnded
    <3>. QED
      BY <1>b, <1>4, <3>1 DEF ReadRow, NotTables, tables, WellFormed
  <2>. QED
    BY <2>1, <2>2
<1>5. CASE ReadLinks(a)
  <2>. DEFINE had == Given(adm[a].links, links[adm[a].id])
              pc == IF adm[a].kind = "child" /\ had = {} THEN "failed" ELSE "write"
              q == [adm[a] EXCEPT !.had = had, !.pc = pc]
  <2>1. adm[a].id \in Table(adm[a].kind) /\ adm[a].kind # "node"
    BY <1>0, <1>5 DEF ReadLinks, At, WellFormed
  <2>2. had \subseteq LinkTable(adm[a].kind) /\ pc \in {"failed", "write"}
    BY <1>0, <1>a, <2>1 DEF Given, WellFormed, LinksTyped, Owners, Table, Kinds, TokenIds
  <2>3. adm' = [adm EXCEPT ![a] = q]
    BY <1>5 DEF ReadLinks
  <2>. HIDE DEF pc, had
  <2>4. q \in AdmType
    BY <1>0, <1>a, <2>2 DEF AdmType, AdmSteps, AdmEnded
  <2>5. q.pc = pc /\ q.links = adm[a].links /\ q.had = had
        /\ q.kind = adm[a].kind /\ q.id = adm[a].id
    BY <1>0 DEF AdmType
  <2>. HIDE DEF q
  <2>6. q \in WellFormed
    BY <1>0, <2>1, <2>2, <2>4, <2>5 DEF WellFormed
  <2>7. adm' \in [Admins -> WellFormed] /\ adm' \in [Admins -> AdmType]
    BY <2>3, <2>4, <2>6
  <2>8. NotTables /\ UNCHANGED tables
    BY <1>5 DEF ReadLinks
  <2>. QED
    BY <1>b, <2>7, <2>8 DEF NotTables, tables
<1>6. CASE Update(a)
  <2>1. adm[a].id \in Table(adm[a].kind)
    BY <1>0, <1>6 DEF Update, At, WellFormed
  <2>2. adm' \in [Admins -> WellFormed]
    BY <1>6, <2>1, MovesOn DEF Update, AdmSteps, AdmEnded
  <2>3. /\ Given(adm[a].limit, adm[a].limit_was) \in Limits
        /\ Given(adm[a].until, adm[a].until_was) \in Expiries
    BY <1>0 DEF Given, AdmType
  <2>4. row' \in [Ids -> {"unborn", "on", "off", "gone"}]
    BY <1>6 DEF Update, Status
  <2>5. max_uses' \in [ChildIds -> Limits] /\ expires_at' \in [ChildIds -> Expiries]
    BY <1>6, <2>3 DEF Update
  <2>. QED
    BY <1>b, <1>6, <2>2, <2>4, <2>5 DEF Update, NotTables, WellFormed
<1>7. CASE SetLinks(a)
  <2>1. adm' \in [Admins -> WellFormed]
    BY <1>7, MovesOn DEF SetLinks, AdmSteps, AdmEnded
  <2>2. links' \in [Owners -> SUBSET Ids]
    BY <1>0, <1>7 DEF SetLinks, AdmType
  <2>3. LinksTyped'
    <3>1. CASE links' = [links EXCEPT ![adm[a].id] = adm[a].had]
      <4>1. adm[a].id \in Table(adm[a].kind) /\ adm[a].had \subseteq LinkTable(adm[a].kind)
        BY <1>0, <1>7 DEF SetLinks, At, WellFormed
      <4>2. ASSUME NEW k \in Kinds, NEW x \in Table(k) \cap Owners
            PROVE  links'[x] \subseteq LinkTable(k)
        <5>1. CASE x = adm[a].id
          BY <1>a, <3>1, <4>1, <4>2, <5>1, OneTable
        <5>2. CASE x # adm[a].id
          BY <3>1, <4>2, <5>2 DEF LinksTyped
        <5>. QED
          BY <5>1, <5>2
      <4>. QED
        BY <4>2 DEF LinksTyped
    <3>. QED
      BY <1>b, <1>7, <3>1 DEF SetLinks
  <2>. QED
    BY <1>7, <2>1, <2>2, <2>3 DEF SetLinks, NotTables, WellFormed
<1>8. CASE Delete(a)
  <2>1. adm' \in [Admins -> WellFormed]
    BY <1>8, MovesOn DEF Delete, AdmSteps, AdmEnded
  <2>2. links' \in [Owners -> SUBSET Ids]
    BY <1>8 DEF Delete, Cascade
  <2>3. row' \in [Ids -> {"unborn", "on", "off", "gone"}]
    BY <1>8 DEF Delete
  <2>4. LinksTyped'
    <3>1. CASE links' = Cascade(adm[a].id)
      BY <3>1 DEF LinksTyped, Cascade
    <3>. QED
      BY <1>b, <1>8, <3>1 DEF Delete
  <2>. QED
    BY <1>8, <2>1, <2>2, <2>3, <2>4 DEF Delete, NotTables, WellFormed
<1>9. CASE RegenerateToken(a)
  <2>1. adm' \in [Admins -> WellFormed]
    BY <1>9, MovesOn DEF RegenerateToken, AdmSteps, AdmEnded
  <2>2. secret' \in [TokenIds -> 0 .. MaxRotations]
    BY <1>9, RequestAssumption DEF RegenerateToken
  <2>. QED
    BY <1>b, <1>9, <2>1, <2>2 DEF RegenerateToken, NotTables, WellFormed
<1>. QED
  BY <1>1, <1>2, <1>3, <1>4, <1>5, <1>6, <1>7, <1>8, <1>9 DEF AdminStep

(***************************************************************************)
(* A subscription request knows its token once it has arrived, charges     *)
(* child tokens only, once, and has charged one before it delivers.        *)
(***************************************************************************)
WellCharged ==
  {q \in SubType :
     /\ q.pc # "idle" => q.tok \in TokenIds
     /\ q.pc = "consume" => q.tok \in ChildIds
     /\ q.pc \in {"idle", "auth", "grants", "resolve", "nodes", "consume"} => ~q.charged
     /\ q.charged => q.tok \in ChildIds
     /\ (q.pc = "write" \/ q.status = 200) /\ q.tok \in ChildIds => q.charged}

Inv == StoreInv /\ sub \in [Subs -> WellCharged] /\ logs \in Seq(Subs)

\* The subscription handlers keep the types.
LEMMA SubStepInv ==
  ASSUME Inv, NEW s \in Subs, SubStep(s)
  PROVE  Inv'
<1>. USE DEF Inv
<1>0. sub[s] \in WellCharged /\ sub[s] \in SubType
  BY DEF WellCharged
<1>c. /\ {"auth", "grants", "resolve", "nodes", "consume", "write", "log", "prune", "done",
           "rejected", "lost"} \subseteq SubSteps
      /\ {200, 400, 403, 404, 500, 502} \subseteq Statuses
  BY DEF SubSteps, SubEnded, Statuses
<1>1. ASSUME NEW q \in WellCharged, sub' = [sub EXCEPT ![s] = q]
      PROVE  sub' \in [Subs -> WellCharged]
  BY <1>1
<1>2. ASSUME NotStore
      PROVE  StoreInv'
  BY <1>2 DEF NotStore, StoreInv, StoreTypeOK, LinksTyped, storeVars, tables
<1>3. ASSUME NEW status \in {200, 400, 403, 404, 500, 502}, Answer(s, status),
             sub[s].pc # "idle",
             status = 200 => sub[s].pc = "write"
      PROVE  sub' \in [Subs -> WellCharged]
  <2>. DEFINE q == [sub[s] EXCEPT !.pc = "log", !.status = status]
  <2>1. sub' = [sub EXCEPT ![s] = q]
    BY <1>3 DEF Answer
  <2>p. "log" \in SubSteps /\ status \in Statuses
    BY <1>c, <1>3
  <2>2. q \in SubType
    BY <1>0, <2>p, Zenon DEF SubType
  <2>3. q.pc = "log" /\ q.status = status /\ q.tok = sub[s].tok /\ q.charged = sub[s].charged
    BY <1>0 DEF SubType
  <2>. HIDE DEF q
  <2>4. q \in WellCharged
    BY <1>0, <1>3, <2>2, <2>3 DEF WellCharged
  <2>. QED
    BY <1>1, <2>1, <2>4
<1>4. CASE SubArrive(s)
  <2>1. PICK ask \in Asks : \E g \in 0 .. secret[ask.tok] :
          sub' = [sub EXCEPT ![s] = [NoSub EXCEPT !.pc = "auth", !.tok = ask.tok, !.secret = g,
                                               !.want = ask.want, !.convert = ask.convert]]
    BY <1>4 DEF SubArrive
  <2>0. PICK g \in 0 .. secret[ask.tok] :
          sub' = [sub EXCEPT ![s] = [NoSub EXCEPT !.pc = "auth", !.tok = ask.tok, !.secret = g,
                                               !.want = ask.want, !.convert = ask.convert]]
    BY <2>1
  <2>. DEFINE q == [NoSub EXCEPT !.pc = "auth", !.tok = ask.tok, !.secret = g,
                                 !.want = ask.want, !.convert = ask.convert]
  <2>2. ask.tok \in TokenIds /\ g \in 0 .. MaxRotations
        /\ ask.want \in SUBSET CollectionIds /\ ask.convert \in BOOLEAN
    BY SubscriptionAssumption, RequestAssumption DEF StoreInv, StoreTypeOK
  <2>3. q \in SubType
    BY <2>2 DEF NoSub, SubType, SubSteps, Statuses
  <2>4. q.pc = "auth" /\ q.status = 0 /\ q.tok = ask.tok /\ q.charged = FALSE
    BY DEF NoSub
  <2>5. sub' = [sub EXCEPT ![s] = q]
    BY <2>0
  <2>. HIDE DEF q
  <2>6. q \in WellCharged
    BY <2>2, <2>3, <2>4 DEF WellCharged
  <2>. QED
    BY <1>1, <1>2, <1>4, <2>5, <2>6 DEF SubArrive
<1>5. ASSUME NEW pc \in {"grants", "rejected", "prune", "done", "lost"},
             sub[s].pc # "idle",
             pc = "grants" => sub[s].pc = "auth",
             sub' = [sub EXCEPT ![s].pc = pc]
      PROVE  sub' \in [Subs -> WellCharged]
  <2>. DEFINE q == [sub[s] EXCEPT !.pc = pc]
  <2>p. pc \in SubSteps
    BY <1>c, <1>5
  <2>1. q \in SubType
    BY <1>0, <2>p, Zenon DEF SubType
  <2>2. q.pc = pc /\ q.status = sub[s].status /\ q.tok = sub[s].tok /\ q.charged = sub[s].charged
    BY <1>0 DEF SubType
  <2>3. sub' = [sub EXCEPT ![s] = q]
    BY <1>5
  <2>. HIDE DEF q
  <2>4. q \in WellCharged
    BY <1>0, <1>5, <2>1, <2>2 DEF WellCharged
  <2>. QED
    BY <1>1, <2>3, <2>4
<1>6. CASE Authenticate(s)
  <2>1. sub' = [sub EXCEPT ![s].pc = "grants"] \/ sub' = [sub EXCEPT ![s].pc = "rejected"]
    BY <1>6 DEF Authenticate
  <2>2. sub[s].pc = "auth"
    BY <1>6 DEF Authenticate, SubAt
  <2>3. sub' \in [Subs -> WellCharged]
    BY <1>5, <2>1, <2>2
  <2>. QED
    BY <1>2, <1>6, <2>3 DEF Authenticate
<1>7. CASE ReadGrants(s)
  <2>. DEFINE q == [sub[s] EXCEPT !.cols = links[sub[s].tok], !.pc = "resolve"]
  <2>1. sub' = [sub EXCEPT ![s] = q] /\ sub[s].pc = "grants"
    BY <1>7 DEF ReadGrants, SubAt
  <2>2. links[sub[s].tok] \in SUBSET Ids
    BY <1>0, <2>1 DEF WellCharged, StoreInv, StoreTypeOK, Owners
  <2>p. "resolve" \in SubSteps
    BY <1>c
  <2>3. q \in SubType
    BY <1>0, <2>2, <2>p, Zenon DEF SubType
  <2>4. q.pc = "resolve" /\ q.status = sub[s].status /\ q.tok = sub[s].tok /\ q.charged = sub[s].charged
    BY <1>0 DEF SubType
  <2>. HIDE DEF q
  <2>5. q \in WellCharged
    BY <1>0, <2>1, <2>3, <2>4 DEF WellCharged
  <2>. QED
    BY <1>1, <1>2, <1>7, <2>1, <2>5 DEF ReadGrants
<1>8. CASE ResolveCollectionIDs(s)
  <2>1. sub[s].pc = "resolve"
    BY <1>8 DEF ResolveCollectionIDs, SubAt
  <2>2. CASE Answer(s, 403)
    BY <1>2, <1>3, <1>8, <2>1, <2>2 DEF ResolveCollectionIDs
  <2>3. CASE ~Answer(s, 403)
    <3>1. PICK ids \in SUBSET CollectionIds : sub' = [sub EXCEPT ![s].ids = ids, ![s].pc = "nodes"]
      BY <1>8, <2>3 DEF ResolveCollectionIDs
    <3>. DEFINE q == [sub[s] EXCEPT !.ids = ids, !.pc = "nodes"]
    <3>2. sub' = [sub EXCEPT ![s] = q]
      BY <3>1
    <3>p. "nodes" \in SubSteps
      BY <1>c
    <3>3. q \in SubType
      BY <1>0, <3>p, Zenon DEF SubType
    <3>4. q.pc = "nodes" /\ q.status = sub[s].status /\ q.tok = sub[s].tok /\ q.charged = sub[s].charged
      BY <1>0 DEF SubType
    <3>. HIDE DEF q
    <3>5. q \in WellCharged
      BY <1>0, <2>1, <3>3, <3>4 DEF WellCharged
    <3>. QED
      BY <1>1, <1>2, <1>8, <3>2, <3>5 DEF ResolveCollectionIDs
  <2>. QED
    BY <2>2, <2>3
<1>9. CASE ReadNodes(s)
  <2>1. sub[s].pc = "nodes"
    BY <1>9 DEF ReadNodes, SubAt
  <2>2. CASE Answer(s, 404)
    BY <1>2, <1>3, <1>9, <2>1, <2>2 DEF ReadNodes
  <2>3. CASE ~Answer(s, 404)
    <3>. DEFINE pc == IF sub[s].tok \in ChildIds THEN "consume" ELSE "write"
    <3>1. PICK uris \in SUBSET (NodeIds \cup LegacyNodes) :
            sub' = [sub EXCEPT ![s].uris = uris, ![s].pc = pc]
      BY <1>9, <2>3 DEF ReadNodes, NodeURIs
    <3>. DEFINE q == [sub[s] EXCEPT !.uris = uris, !.pc = pc]
    <3>2. sub' = [sub EXCEPT ![s] = q]
      BY <3>1
    <3>p. pc \in SubSteps
      BY <1>c
    <3>q. (pc = "consume" /\ sub[s].tok \in ChildIds) \/ (pc = "write" /\ sub[s].tok \notin ChildIds)
      OBVIOUS
    <3>. HIDE DEF pc
    <3>3. q \in SubType
      BY <1>0, <3>p, Zenon DEF SubType
    <3>4. q.pc = pc /\ q.status = sub[s].status /\ q.tok = sub[s].tok /\ q.charged = sub[s].charged
      BY <1>0 DEF SubType
    <3>. HIDE DEF q
    <3>5. q \in WellCharged
      BY <1>0, <2>1, <3>3, <3>4, <3>q DEF WellCharged
    <3>. QED
      BY <1>1, <1>2, <1>9, <3>2, <3>5 DEF ReadNodes
  <2>. QED
    BY <2>2, <2>3
<1>10. CASE ConsumeChildUse(s)
  <2>1. sub[s].pc = "consume" /\ sub[s].tok \in ChildIds
    BY <1>0, <1>10 DEF ConsumeChildUse, SubAt, WellCharged
  <2>2. use_count' \in [ChildIds -> Nat]
    <3>1. use_count' = use_count \/ use_count' = [use_count EXCEPT ![sub[s].tok] = @ + 1]
      BY <1>10 DEF ConsumeChildUse
    <3>. QED
      BY <3>1 DEF StoreInv, StoreTypeOK
  <2>3. StoreInv'
    BY <1>10, <2>2 DEF ConsumeChildUse, StoreInv, StoreTypeOK, LinksTyped, tables
  <2>4. CASE sub' = [sub EXCEPT ![s].charged = TRUE, ![s].pc = "write"]
    <3>. DEFINE q == [sub[s] EXCEPT !.charged = TRUE, !.pc = "write"]
    <3>1. sub' = [sub EXCEPT ![s] = q]
      BY <2>4
    <3>p. "write" \in SubSteps
      BY <1>c
    <3>2. q \in SubType
      BY <1>0, <3>p, Zenon DEF SubType
    <3>3. q.pc = "write" /\ q.status = sub[s].status /\ q.tok = sub[s].tok /\ q.charged
      BY <1>0 DEF SubType
    <3>. HIDE DEF q
    <3>4. q \in WellCharged
      BY <2>1, <3>2, <3>3 DEF WellCharged
    <3>. QED
      BY <1>1, <1>10, <2>3, <3>1, <3>4 DEF ConsumeChildUse
  <2>5. CASE Answer(s, 403)
    BY <1>3, <1>10, <2>1, <2>3, <2>5 DEF ConsumeChildUse
  <2>. QED
    BY <1>10, <2>4, <2>5 DEF ConsumeChildUse
<1>11. CASE WriteRaw(s) \/ ConverterFails(s)
  BY <1>2, <1>3, <1>11 DEF WriteRaw, ConverterFails, SubAt
<1>12. CASE WriteConverted(s)
  <2>1. sub[s].pc = "write"
    BY <1>12 DEF WriteConverted, SubAt
  <2>2. CASE Answer(s, 400)
    BY <1>2, <1>3, <1>12, <2>1, <2>2 DEF WriteConverted
  <2>3. CASE ~Answer(s, 400)
    <3>1. PICK uris \in SUBSET NodeIds :
            sub' = [sub EXCEPT ![s].uris = uris, ![s].status = 200, ![s].pc = "log"]
      BY <1>12, <2>3 DEF WriteConverted, NodeURIs
    <3>. DEFINE q == [sub[s] EXCEPT !.uris = uris, !.status = 200, !.pc = "log"]
    <3>2. sub' = [sub EXCEPT ![s] = q]
      BY <3>1
    <3>p. "log" \in SubSteps /\ 200 \in Statuses /\ uris \in SUBSET (NodeIds \cup LegacyNodes)
      BY <1>c
    <3>3. q \in SubType
      BY <1>0, <3>p, Zenon DEF SubType
    <3>4. q.pc = "log" /\ q.status = 200 /\ q.tok = sub[s].tok /\ q.charged = sub[s].charged
      BY <1>0 DEF SubType
    <3>. HIDE DEF q
    <3>5. q \in WellCharged
      BY <1>0, <2>1, <3>3, <3>4 DEF WellCharged
    <3>. QED
      BY <1>1, <1>2, <1>12, <3>2, <3>5 DEF WriteConverted
  <2>. QED
    BY <2>2, <2>3
<1>13. CASE LogAccess(s)
  <2>1. sub' \in [Subs -> WellCharged]
    BY <1>5, <1>13 DEF LogAccess, SubAt
  <2>. QED
    BY <1>2, <1>13, <2>1 DEF LogAccess
<1>14. CASE PruneLogs(s)
  <2>1. sub' \in [Subs -> WellCharged]
    BY <1>5, <1>14 DEF PruneLogs, SubAt
  <2>2. logs' \in Seq(Subs)
    BY <1>14, SubscriptionAssumption DEF PruneLogs
  <2>. QED
    BY <1>2, <1>14, <2>1, <2>2 DEF PruneLogs
<1>15. CASE LogTimesOut(s)
  <2>1. sub' \in [Subs -> WellCharged]
    BY <1>5, <1>15 DEF LogTimesOut
  <2>. QED
    BY <1>2, <1>15, <2>1 DEF LogTimesOut
<1>16. CASE SubCancel(s)
  <2>1. sub' \in [Subs -> WellCharged]
    BY <1>3, <1>5, <1>16 DEF SubCancel
  <2>. QED
    BY <1>2, <1>16, <2>1 DEF SubCancel
<1>. QED
  BY <1>4, <1>6, <1>7, <1>8, <1>9, <1>10, <1>11, <1>12, <1>13, <1>14, <1>15, <1>16 DEF SubStep

\* The inductive invariant of the whole service.
LEMMA InvInductive == SInit /\ [][Next]_vars => []Inv
<1>1. SInit => Inv
  <2> SUFFICES ASSUME SInit
               PROVE  Inv
    OBVIOUS
  <2>1. NoAdmin \in WellFormed
    <3>1. NoAdmin \in AdmType
      BY RequestAssumption DEF NoAdmin, AdmType, AdmSteps, Calls, Kinds
    <3>. QED
      BY <3>1 DEF NoAdmin, WellFormed
  <2>2. NoSub \in WellCharged
    <3>1. NoSub \in SubType
      BY RequestAssumption DEF NoSub, SubType, SubSteps, Statuses
    <3>. QED
      BY <3>1 DEF NoSub, WellCharged
  <2>3. adm \in [Admins -> AdmType] /\ adm \in [Admins -> WellFormed]
    BY <2>1 DEF SInit, Init, WellFormed
  <2>4. LinksTyped
    BY DEF SInit, Init, LinksTyped
  <2>5. links \in [Owners -> SUBSET Ids]
    BY DEF SInit, Init, Ids, Owners
  <2>6. StoreTypeOK
    BY <2>3, <2>5, RequestAssumption DEF SInit, Init, StoreTypeOK
  <2>. QED
    BY <2>2, <2>3, <2>4, <2>6 DEF SInit, Inv, StoreInv
<1>2. Inv /\ [Next]_vars => Inv'
  <2> SUFFICES ASSUME Inv, [Next]_vars
               PROVE  Inv'
    OBVIOUS
  <2>1. CASE UNCHANGED vars
    BY <2>1 DEF Inv, StoreInv, StoreTypeOK, LinksTyped, vars, storeVars, subVars, tables
  <2>2. CASE Tick /\ UNCHANGED subVars
    BY <2>2, RequestAssumption DEF Tick, Inv, StoreInv, StoreTypeOK, LinksTyped, subVars, tables
  <2>3. CASE Boot /\ UNCHANGED subVars
    <3>1. row' \in [Ids -> {"unborn", "on", "off", "gone"}]
      BY <2>3 DEF Boot, Seed, Inv, StoreInv, StoreTypeOK
    <3>. QED
      BY <2>3, <3>1 DEF Boot, Inv, StoreInv, StoreTypeOK, LinksTyped, subVars
  <2>4. ASSUME NEW a \in Admins, AdminStep(a), UNCHANGED subVars
        PROVE  Inv'
    BY <2>4, AdminStepInv DEF Inv, subVars
  <2>5. ASSUME NEW s \in Subs, SubStep(s)
        PROVE  Inv'
    BY <2>5, SubStepInv
  <2>6. CASE ClearLogs
    BY <2>6 DEF ClearLogs, Inv, StoreInv, StoreTypeOK, LinksTyped, storeVars, tables
  <2>7. CASE Crash
    <3>1. adm' \in [Admins -> WellFormed]
      <4>1. ASSUME NEW a \in Admins
            PROVE  [adm[a] EXCEPT !.pc = "lost"] \in WellFormed
        <5>1. adm[a] \in WellFormed /\ adm[a] \in AdmType
          BY DEF Inv, StoreInv, WellFormed
        <5>. DEFINE q == [adm[a] EXCEPT !.pc = "lost"]
        <5>2. q \in AdmType
          BY <5>1 DEF AdmType, AdmSteps, AdmEnded
        <5>3. q.pc = "lost" /\ q.links = adm[a].links /\ q.had = adm[a].had /\ q.kind = adm[a].kind
          BY <5>1 DEF AdmType
        <5>. HIDE DEF q
        <5>4. q \in WellFormed
          BY <5>1, <5>2, <5>3 DEF WellFormed
        <5>. QED
          BY <5>4 DEF q
      <4>. QED
        BY <2>7, <4>1 DEF Crash, CrashAdmins, Inv, StoreInv
    <3>2. sub' \in [Subs -> WellCharged]
      <4>1. ASSUME NEW s \in Subs, sub[s].pc \notin SubEnded \cup {"idle"}
            PROVE  [sub[s] EXCEPT !.pc = "lost"] \in WellCharged
        <5>1. sub[s] \in WellCharged /\ sub[s] \in SubType
          BY DEF Inv, WellCharged
        <5>. DEFINE q == [sub[s] EXCEPT !.pc = "lost"]
        <5>p. "lost" \in SubSteps
          BY DEF SubSteps, SubEnded
        <5>2. q \in SubType
          BY <5>1, <5>p, Zenon DEF SubType
        <5>3. q.pc = "lost" /\ q.status = sub[s].status /\ q.tok = sub[s].tok /\ q.charged = sub[s].charged
          BY <5>1 DEF SubType
        <5>. HIDE DEF q
        <5>4. q \in WellCharged
          BY <4>1, <5>1, <5>2, <5>3 DEF WellCharged
        <5>. QED
          BY <5>4 DEF q
      <4>. QED
        BY <2>7, <4>1 DEF Crash, Inv
    <3>3. adm' \in [Admins -> AdmType]
      BY <3>1 DEF WellFormed
    <3>. QED
      BY <2>7, <3>1, <3>2, <3>3 DEF Crash, Inv, StoreInv, StoreTypeOK, LinksTyped, tables
  <2>. QED
    BY <2>1, <2>2, <2>3, <2>4, <2>5, <2>6, <2>7 DEF Next
<1>. QED
  BY <1>1, <1>2, PTL

\* The store and the requests keep their types, whatever handlers interleave
\* and crash.
THEOREM TypeCorrect == Spec => []TypeOK
<1>1. Inv => TypeOK
  BY DEF Inv, StoreInv, TypeOK, WellCharged
<1>. QED
  BY <1>1, InvInductive, PTL DEF Spec
=============================================================================
