-------------------------- MODULE SubHubSafety_proofs --------------------------
(***************************************************************************)
(* What the store and the subscriptions guarantee, from the inductive       *)
(* invariant Inv of SubHub_proofs.                                         *)
(***************************************************************************)
EXTENDS SubHub_proofs

(***************************************************************************)
(* Which steps change the tables.                                          *)
(***************************************************************************)
\* Rows are added, kept, or deleted by the one step of a DELETE, which ends its
\* request.
LEMMA RowSteps ==
  ASSUME Inv, NEW a \in Admins, AdminStep(a)
  PROVE  \/ Delete(a) /\ Present(adm[a].id)
         \/ \A x \in Ids : Present(x) => Present(x)'
<1>. USE DEF Present
<1>1. CASE Insert(a)
  <2>1. PICK x \in Table(adm[a].kind) \ SeedIds :
          row[x] = "unborn" /\ row' = [row EXCEPT ![x] = Status(Given(adm[a].enabled, TRUE))]
    BY <1>1 DEF Insert
  <2>. QED
    BY <2>1 DEF Inv, StoreInv, StoreTypeOK
<1>2. CASE Update(a)
  BY <1>2 DEF Update, Status, Inv, StoreInv, StoreTypeOK
<1>3. CASE Delete(a)
  BY <1>3 DEF Delete
<1>4. CASE row' = row
  BY <1>4
<1>. QED
  BY <1>1, <1>2, <1>3, <1>4 DEF AdminStep, AdminArrive, InsertRefused, ReadRow, ReadLinks,
     UpdateMissing, SetLinks, CountTokens, RegenerateToken, AdminCancel, tables

\* Links are rewritten by SetLinks, cleaned by DELETE, and kept by everything else.
LEMMA LinkSteps ==
  ASSUME NEW a \in Admins, AdminStep(a)
  PROVE  SetLinks(a) \/ Delete(a) \/ links' = links
BY DEF AdminStep, AdminArrive, Insert, InsertRefused, ReadRow, ReadLinks, Update,
   UpdateMissing, CountTokens, RegenerateToken, AdminCancel, tables

\* Steps that are no administrator's add rows at most.
LEMMA OtherRowSteps ==
  ASSUME Inv, [Next]_vars, ~\E a \in Admins : AdminStep(a)
  PROVE  links' = links /\ \A x \in Ids : Present(x) => Present(x)'
<1>1. CASE Boot
  BY <1>1 DEF Boot, Seed, Present, Inv, StoreInv, StoreTypeOK
<1>2. CASE row' = row /\ links' = links
  BY <1>2 DEF Present
<1>3. ASSUME NEW s \in Subs, SubStep(s)
      PROVE  row' = row /\ links' = links
  BY <1>3 DEF SubStep, SubArrive, Authenticate, ReadGrants, ResolveCollectionIDs, ReadNodes,
     ConsumeChildUse, WriteRaw, WriteConverted, ConverterFails, LogAccess, PruneLogs,
     LogTimesOut, SubCancel, NotStore, storeVars, tables
<1>4. CASE Tick \/ ClearLogs \/ Crash \/ UNCHANGED vars
  BY <1>2, <1>4 DEF Tick, ClearLogs, Crash, vars, storeVars, tables
<1>. QED
  BY <1>1, <1>2, <1>3, <1>4 DEF Next

(***************************************************************************)
(* Foreign keys.                                                           *)
(***************************************************************************)
LEMMA KeysStay ==
  ASSUME ForeignKeys, links' = links, \A x \in Ids : Present(x) => Present(x)'
  PROVE  ForeignKeys'
BY Typing DEF ForeignKeys

\* No association outlives its rows, for any number of administrators whose
\* statements interleave, abandoned requests and crashes included.
THEOREM KeysHold == Spec => []ForeignKeys
<1>1. SInit => ForeignKeys
  BY DEF SInit, Init, ForeignKeys, Present
<1>2. Inv /\ ForeignKeys /\ [Next]_vars => ForeignKeys'
  <2> SUFFICES ASSUME Inv, ForeignKeys, [Next]_vars
               PROVE  ForeignKeys'
    OBVIOUS
  <2>1. ASSUME NEW a \in Admins, AdminStep(a)
        PROVE  ForeignKeys'
    <3>1. adm[a] \in WellFormed /\ adm[a].kind \in Kinds /\ links \in [Owners -> SUBSET Ids]
      BY DEF Inv, StoreInv, StoreTypeOK, AdmType, WellFormed
    <3>2. CASE SetLinks(a) /\ links' = [links EXCEPT ![adm[a].id] = adm[a].had]
      <4>1. row' = row
        BY <3>2 DEF SetLinks
      <4>2. adm[a].id \in Table(adm[a].kind) /\ adm[a].had \subseteq LinkTable(adm[a].kind)
        BY <3>1, <3>2 DEF SetLinks, At, WellFormed
      <4>3. CASE adm[a].had = {}
        BY <3>2, <4>1, <4>3, <3>1 DEF ForeignKeys, Present
      <4>4. CASE Present(adm[a].id) /\ \A y \in adm[a].had : Present(y)
        <5>1. ASSUME NEW k \in Kinds, NEW x \in Table(k) \cap Owners
              PROVE  links'[x] \subseteq {y \in LinkTable(k) : Present(x) /\ Present(y)}
          <6>1. CASE x = adm[a].id
            BY <3>1, <3>2, <4>2, <4>4, <5>1, <6>1, OneTable
          <6>2. CASE x # adm[a].id
            BY <3>1, <3>2, <5>1, <6>2 DEF ForeignKeys
          <6>. QED
            BY <6>1, <6>2
        <5>. QED
          BY <4>1, <5>1 DEF ForeignKeys, Present
      <4>5. adm[a].had = {} \/ (Present(adm[a].id) /\ \A y \in adm[a].had : Present(y))
            \/ (links' = links /\ row' = row)
        BY <3>2 DEF SetLinks
      <4>. QED
        BY <4>3, <4>4, <4>5, KeysStay DEF Present
    <3>3. CASE Delete(a) /\ Present(adm[a].id)
      <4>1. links' = Cascade(adm[a].id) /\ row' = [row EXCEPT ![adm[a].id] = "gone"]
        BY <3>3 DEF Delete
      <4>2. ASSUME NEW k \in Kinds, NEW x \in Table(k) \cap Owners, NEW y \in links'[x]
            PROVE  y \in LinkTable(k) /\ Present(x)' /\ Present(y)'
        <5>1. x # adm[a].id /\ y # adm[a].id /\ y \in links[x]
          BY <4>1, <4>2 DEF Cascade
        <5>2. y \in LinkTable(k) /\ Present(x) /\ Present(y)
          BY <5>1 DEF ForeignKeys
        <5>. QED
          BY <4>1, <5>1, <5>2, Typing DEF Present, Inv, StoreInv, StoreTypeOK
      <4>. QED
        BY <4>2 DEF ForeignKeys
    <3>4. CASE links' = links /\ \A x \in Ids : Present(x) => Present(x)'
      BY <3>4, KeysStay
    <3>5. CASE Delete(a) /\ ~Present(adm[a].id)
      BY <3>5, KeysStay DEF Delete, Present
    <3>6. CASE SetLinks(a) /\ links' = links
      BY <3>6, KeysStay DEF SetLinks, Present
    <3>. QED
      BY <2>1, <3>2, <3>3, <3>4, <3>5, <3>6, RowSteps, LinkSteps DEF SetLinks
  <2>2. CASE ~\E a \in Admins : AdminStep(a)
    BY <2>2, OtherRowSteps, KeysStay
  <2>. QED
    BY <2>1, <2>2
<1>. QED
  BY <1>1, <1>2, InvInductive, PTL DEF Spec

(***************************************************************************)
(* The last master.  A request that is about to delete a master counted at  *)
(* least one more, and whatever it counted is still there unless another    *)
(* delete, now over, took it.                                              *)
(***************************************************************************)
TookMaster(b, m) == adm[b].pc = "done" /\ adm[b].call = "delete" /\ adm[b].id = m

CountedInv ==
  \A a \in Admins :
    adm[a].pc = "delete" /\ adm[a].kind = "master"
    => /\ \E m \in adm[a].counted : m # adm[a].id
       /\ \A m \in adm[a].counted : Present(m) \/ \E b \in Admins : TookMaster(b, m)

LEMMA SeveralMasters ==
  ASSUME ~(Cardinality(Masters) <= 1), NEW id
  PROVE  \E m \in Masters : m # id
<1>. SUFFICES ASSUME \A m \in Masters : m = id
              PROVE  FALSE
  OBVIOUS
<1>1. Masters = {} \/ Masters = {id}
  OBVIOUS
<1>2. Cardinality(Masters) \in {0, 1}
  BY <1>1, FS_EmptySet, FS_Singleton
<1>. QED
  BY <1>2

\* A request that is over stays as it is.
LEMMA DoneStays ==
  ASSUME Inv, [Next]_vars, NEW b \in Admins, adm[b].pc = "done"
  PROVE  adm'[b] = adm[b]
<1>0. adm \in [Admins -> WellFormed]
  BY DEF Inv, StoreInv
<1>1. ASSUME NEW a \in Admins, AdminStep(a)
      PROVE  adm'[b] = adm[b]
  <2>1. adm[a].pc # "done"
    BY <1>1 DEF AdminStep, AdminArrive, Insert, InsertRefused, ReadRow, ReadLinks, Update,
       UpdateMissing, SetLinks, CountTokens, Delete, RegenerateToken, AdminCancel, At, AdmEnded
  <2>2. a # b
    BY <2>1
  <2>3. \A c \in Admins : c # a => adm'[c] = adm[c]
    <3>1. CASE AdminArrive(a)
      BY <1>0, <3>1, Arrival
    <3>2. CASE Insert(a)
      BY <1>0, <3>2 DEF Insert
    <3>3. CASE ReadRow(a)
      BY <1>0, <3>3, Zenon DEF ReadRow, Go
    <3>4. CASE ReadLinks(a) \/ CountTokens(a)
      BY <1>0, <3>4 DEF ReadLinks, CountTokens, Go
    <3>. QED
      BY <1>0, <1>1, <3>1, <3>2, <3>3, <3>4 DEF AdminStep, InsertRefused, Update,
         UpdateMissing, SetLinks, Delete, RegenerateToken, AdminCancel, Go
  <2>. QED
    BY <2>2, <2>3
<1>2. ASSUME NEW s \in Subs, SubStep(s)
      PROVE  adm' = adm
  BY <1>2 DEF SubStep, SubArrive, Authenticate, ReadGrants, ResolveCollectionIDs, ReadNodes,
     ConsumeChildUse, WriteRaw, WriteConverted, ConverterFails, LogAccess, PruneLogs,
     LogTimesOut, SubCancel, NotStore, storeVars
<1>3. CASE Tick \/ Boot \/ ClearLogs \/ UNCHANGED vars
  BY <1>3 DEF Tick, Boot, ClearLogs, vars, storeVars
<1>4. CASE Crash
  BY <1>4 DEF Crash, CrashAdmins, AdmEnded
<1>. QED
  BY <1>1, <1>2, <1>3, <1>4 DEF Next

\* How a request comes to be about to delete a master.
LEMMA BeforeDelete ==
  ASSUME Inv, [Next]_vars, NEW a \in Admins,
         adm'[a].pc = "delete", adm'[a].kind = "master"
  PROVE  \/ adm'[a] = adm[a]
         \/ /\ row' = row
            /\ adm'[a].counted = Masters
            /\ \E m \in Masters : m # adm'[a].id
<1>0. adm \in [Admins -> WellFormed] /\ adm[a] \in AdmType
  BY DEF Inv, StoreInv, WellFormed
<1>1. ASSUME NEW c \in Admins, AdminStep(c)
      PROVE  \/ adm'[a] = adm[a]
             \/ /\ row' = row /\ adm'[a].counted = Masters
                /\ \E m \in Masters : m # adm'[a].id
  <2>1. CASE AdminArrive(c)
    <3>1. PICK call \in Calls, kind \in Kinds :
                \E id \in IF call = "create" THEN {None} ELSE Table(kind) :
                \E enabled \in BOOLEAN \cup {Unset}, ls \in {Unset} \cup SUBSET LinkTable(kind),
                   limit \in Limits \cup {Unset}, until \in Expiries \cup {Unset} :
                  /\ <<call, kind>> \in AdminCalls
                  /\ adm' = [adm EXCEPT ![c] = Request(call, kind, id, enabled, ls, limit, until)]
      BY <2>1, Arrival
    <3>2. \/ adm'[a] = adm[a]
          \/ adm'[a].kind = kind /\ adm'[a].pc = FirstStep(call, kind)
      BY <1>0, <3>1 DEF Request, NoAdmin
    <3>3. kind = "master" => FirstStep(call, kind) # "delete"
      BY DEF FirstStep, Calls
    <3>. QED
      BY <3>2, <3>3
  <2>2. CASE CountTokens(c)
    <3>1. CASE adm' = [adm EXCEPT ![c].pc = "delete", ![c].counted = Masters]
               /\ ~(adm[c].kind = "master" /\ Cardinality(Masters) <= 1)
      <4>1. adm[c] \in AdmType
        BY <1>0 DEF WellFormed
      <4>2. CASE a = c
        <5>1. /\ adm'[a].counted = Masters /\ adm'[a].kind = adm[a].kind
              /\ adm'[a].id = adm[a].id
          BY <1>0, <3>1, <4>1, <4>2 DEF AdmType
        <5>. QED
          BY <2>2, <3>1, <4>2, <5>1, SeveralMasters DEF CountTokens, tables
      <4>3. CASE a # c
        BY <1>0, <3>1, <4>3
      <4>. QED
        BY <4>2, <4>3
    <3>2. CASE Go(c, "failed")
      BY <1>0, <3>2 DEF Go
    <3>. QED
      BY <2>2, <3>1, <3>2 DEF CountTokens
  <2>3. CASE Insert(c)
    <3>1. PICK x \in Table(adm[c].kind) \ SeedIds :
            adm' = [adm EXCEPT ![c].id = x, ![c].had = Given(adm[c].links, {}),
                               ![c].pc = IF x \in NodeIds THEN "done" ELSE "link"]
      BY <2>3 DEF Insert
    <3>2. adm[c] \in AdmType
      BY <1>0 DEF WellFormed
    <3>3. adm'[c].pc # "delete"
      BY <1>0, <3>1, <3>2 DEF AdmType
    <3>. QED
      BY <1>0, <3>1, <3>3
  <2>4. CASE ReadRow(c)
    <3>1. CASE Go(c, "failed")
      BY <1>0, <3>1 DEF Go
    <3>2. CASE Present(adm[c].id)
      <4>. DEFINE child == adm[c].id \in ChildIds
                  was == row[adm[c].id] = "on"
                  limit == IF child THEN max_uses[adm[c].id] ELSE 0
                  until == IF child THEN expires_at[adm[c].id] ELSE Never
                  pc == IF adm[c].id \in NodeIds THEN "write" ELSE "readlinks"
                  q == [adm[c] EXCEPT !.was = was, !.limit_was = limit, !.until_was = until,
                                      !.pc = pc]
      <4>1. adm' = [adm EXCEPT ![c] = q]
        BY <2>4, <3>2 DEF ReadRow
      <4>2. pc # "delete"
        OBVIOUS
      <4>. HIDE DEF was, limit, until, pc
      <4>3. q.pc # "delete"
        BY <1>0, <4>2 DEF WellFormed, AdmType
      <4>. HIDE DEF q
      <4>. QED
        BY <1>0, <4>1, <4>3
    <3>. QED
      BY <2>4, <3>1, <3>2 DEF ReadRow
  <2>5. CASE ReadLinks(c)
    BY <1>0, <2>5 DEF ReadLinks
  <2>6. ASSUME NEW pc \in AdmEnded \cup {"link"}, Go(c, pc)
        PROVE  adm'[a] = adm[a]
    BY <1>0, <2>6 DEF Go, AdmEnded
  <2>. QED
    BY <1>1, <2>1, <2>2, <2>3, <2>4, <2>5, <2>6 DEF AdminStep, InsertRefused, Update,
       UpdateMissing, SetLinks, Delete, RegenerateToken, AdminCancel, AdmEnded
<1>2. ASSUME NEW s \in Subs, SubStep(s)
      PROVE  adm' = adm
  BY <1>2 DEF SubStep, SubArrive, Authenticate, ReadGrants, ResolveCollectionIDs, ReadNodes,
     ConsumeChildUse, WriteRaw, WriteConverted, ConverterFails, LogAccess, PruneLogs,
     LogTimesOut, SubCancel, NotStore, storeVars
<1>3. CASE Tick \/ Boot \/ ClearLogs \/ UNCHANGED vars
  BY <1>3 DEF Tick, Boot, ClearLogs, vars, storeVars
<1>4. CASE Crash
  BY <1>4 DEF Crash, CrashAdmins
<1>. QED
  BY <1>1, <1>2, <1>3, <1>4 DEF Next

LEMMA CountedInvHolds == Spec => []CountedInv
<1>1. SInit => CountedInv
  BY DEF SInit, Init, CountedInv, NoAdmin
<1>2. Inv /\ CountedInv /\ [Next]_vars => CountedInv'
  <2> SUFFICES ASSUME Inv, CountedInv, [Next]_vars,
                      NEW a \in Admins, adm'[a].pc = "delete", adm'[a].kind = "master"
               PROVE  /\ \E m \in adm'[a].counted : m # adm'[a].id
                      /\ \A m \in adm'[a].counted :
                           Present(m)' \/ \E b \in Admins : TookMaster(b, m)'
    BY DEF CountedInv
  <2>1. CASE adm'[a] = adm[a]
    <3>1. \E m \in adm'[a].counted : m # adm'[a].id
      BY <2>1 DEF CountedInv
    <3>2. ASSUME NEW m \in adm[a].counted
          PROVE  Present(m)' \/ \E b \in Admins : TookMaster(b, m)'
      <4>0. m \in MasterIds /\ m \in Ids
        BY DEF Inv, StoreInv, WellFormed, AdmType, Ids, Owners, TokenIds
      <4>1. ASSUME NEW b \in Admins, TookMaster(b, m)
            PROVE  TookMaster(b, m)'
        BY <4>1, DoneStays DEF TookMaster
      <4>2. ASSUME Present(m), ~Present(m)'
            PROVE  \E b \in Admins : TookMaster(b, m)'
        <5>1. PICK b \in Admins : Delete(b) /\ Present(adm[b].id)
          BY <4>0, <4>2, RowSteps, OtherRowSteps
        <5>2. adm[b] \in AdmType /\ adm[b].call = "delete" /\ adm \in [Admins -> WellFormed]
          BY <5>1 DEF Inv, StoreInv, WellFormed, Delete, At
        <5>3. m = adm[b].id
          BY <4>0, <4>2, <5>1 DEF Delete, Present, Inv, StoreInv, StoreTypeOK
        <5>4. adm' = [adm EXCEPT ![b].pc = "done"]
          BY <5>1 DEF Delete, Go
        <5>5. adm'[b].pc = "done" /\ adm'[b].call = "delete" /\ adm'[b].id = m
          BY <5>2, <5>3, <5>4 DEF AdmType
        <5>. QED
          BY <5>5 DEF TookMaster
      <4>3. Present(m) \/ \E b \in Admins : TookMaster(b, m)
        BY <2>1 DEF CountedInv
      <4>. QED
        BY <4>1, <4>2, <4>3
    <3>. QED
      BY <2>1, <3>1, <3>2
  <2>2. CASE /\ row' = row
             /\ adm'[a].counted = Masters
             /\ \E m \in Masters : m # adm'[a].id
    BY <2>2 DEF Masters, Present
  <2>. QED
    BY <2>1, <2>2, BeforeDelete
<1>. QED
  BY <1>1, <1>2, InvInductive, PTL DEF Spec

\* The last master goes only by a race: for any number of administrators, the
\* request that takes it had counted a master that another one deleted since.
THEOREM LastMasterGoesByRace == Spec => LastMasterNeedsARace
<1>1. Inv /\ CountedInv /\ [Next]_vars => LastMasterIsRaced
  <2> SUFFICES ASSUME Inv, CountedInv, [Next]_vars, Masters # {}, Masters' = {}
               PROVE  \E a, b \in Admins :
                        /\ adm[a].pc = "delete" /\ adm'[a].pc = "done"
                        /\ adm[b].pc = "done" /\ adm[b].call = "delete"
                        /\ adm[b].id \in adm[a].counted
    BY DEF LastMasterIsRaced
  <2>1. PICK x \in MasterIds : Present(x) /\ ~Present(x)'
    BY DEF Masters
  <2>2. x \in Ids
    BY DEF Ids, Owners, TokenIds
  <2>3. PICK a \in Admins : Delete(a) /\ Present(adm[a].id)
    BY <2>1, <2>2, RowSteps, OtherRowSteps
  <2>4. adm[a] \in WellFormed /\ adm[a] \in AdmType /\ adm \in [Admins -> WellFormed]
    BY DEF Inv, StoreInv, WellFormed
  <2>5. x = adm[a].id /\ adm[a].pc = "delete"
    BY <2>1, <2>2, <2>3 DEF Delete, At, Present, Inv, StoreInv, StoreTypeOK
  <2>6. adm[a].kind = "master"
    BY <2>4, <2>5, IdAssumption DEF WellFormed, AdmType, Table, Kinds
  <2>7. PICK m \in adm[a].counted : m # x
    BY <2>5, <2>6 DEF CountedInv
  <2>8. ~Present(m)
    <3>1. m \in MasterIds /\ m \in Ids
      BY <2>4 DEF AdmType, Ids, Owners, TokenIds
    <3>2. ~Present(m)'
      BY <3>1 DEF Masters
    <3>. QED
      BY <2>3, <2>5, <2>7, <3>1, <3>2 DEF Delete, Present, Inv, StoreInv, StoreTypeOK
  <2>9. PICK b \in Admins : TookMaster(b, m)
    BY <2>5, <2>6, <2>8 DEF CountedInv
  <2>10. adm'[a].pc = "done"
    BY <2>3, <2>4 DEF Delete, Go, AdmType
  <2>. QED
    BY <2>5, <2>7, <2>9, <2>10 DEF TookMaster
<1>. QED
  BY <1>1, InvInductive, CountedInvHolds, PTL DEF Spec, LastMasterNeedsARace

(***************************************************************************)
(* Charging.  Passes and Standing are what the abstract quota sees.        *)
(***************************************************************************)
Passes == {<<sub[s].tok, s>> : s \in {r \in Subs : sub[r].charged}}
Standing == {c \in ChildIds : row[c] = "on" /\ now <= expires_at[c]}

\* The conditional UPDATE finds the row.
Charge(s) ==
  /\ ConsumeChildUse(s)
  /\ Usable(sub[s].tok, TRUE)
  /\ sub' = [sub EXCEPT ![s].charged = TRUE, ![s].pc = "write"]
  /\ use_count' = [use_count EXCEPT ![sub[s].tok] = @ + 1]

\* Once it has arrived a request keeps its token, and the only step that charges
\* is the conditional UPDATE.
LEMMA Charging ==
  ASSUME Inv, NEW s \in Subs, SubStep(s)
  PROVE  /\ \A r \in Subs : r # s => sub'[r] = sub[r]
         /\ sub[s].pc # "idle" => sub'[s].tok = sub[s].tok
         /\ \/ Charge(s)
            \/ sub'[s].charged = sub[s].charged /\ use_count' = use_count
<1>0. sub \in [Subs -> WellCharged] /\ sub[s] \in SubType
  BY DEF Inv, WellCharged
<1>1. ASSUME NEW status, Answer(s, status)
      PROVE  /\ \A r \in Subs : r # s => sub'[r] = sub[r]
             /\ sub'[s].tok = sub[s].tok /\ sub'[s].charged = sub[s].charged
             /\ sub'[s].pc = "log"
  BY <1>0, <1>1 DEF Answer, SubType
<1>2. ASSUME NEW pc, sub' = [sub EXCEPT ![s].pc = pc]
      PROVE  /\ \A r \in Subs : r # s => sub'[r] = sub[r]
             /\ sub'[s].tok = sub[s].tok /\ sub'[s].charged = sub[s].charged
             /\ sub'[s].pc = pc
  BY <1>0, <1>2 DEF SubType
<1>3. CASE SubArrive(s)
  <2>1. PICK ask \in Asks : \E g \in 0 .. secret[ask.tok] :
          sub' = [sub EXCEPT ![s] = [NoSub EXCEPT !.pc = "auth", !.tok = ask.tok, !.secret = g,
                                                  !.want = ask.want, !.convert = ask.convert]]
    BY <1>3 DEF SubArrive
  <2>2. sub'[s].charged = FALSE /\ \A r \in Subs : r # s => sub'[r] = sub[r]
    BY <1>0, <2>1 DEF NoSub
  <2>3. sub[s].pc = "idle" /\ ~sub[s].charged /\ use_count' = use_count
    BY <1>0, <1>3 DEF SubArrive, SubAt, WellCharged, NotStore, storeVars
  <2>4. sub[s].charged = FALSE
    BY <1>0, <2>3 DEF SubType
  <2>. QED
    BY <2>2, <2>3, <2>4
<1>4. CASE Authenticate(s) \/ LogAccess(s) \/ PruneLogs(s) \/ LogTimesOut(s) \/ SubCancel(s)
  BY <1>1, <1>2, <1>4 DEF Authenticate, LogAccess, PruneLogs, LogTimesOut, SubCancel, SubAt,
     NotStore, storeVars
<1>5. CASE WriteRaw(s) \/ ConverterFails(s)
  BY <1>1, <1>5 DEF WriteRaw, ConverterFails, NotStore, storeVars
<1>6. CASE ReadGrants(s)
  BY <1>0, <1>6 DEF ReadGrants, SubAt, NotStore, storeVars, SubType
<1>7. CASE ResolveCollectionIDs(s)
  <2>1. CASE Answer(s, 403)
    BY <1>1, <1>7, <2>1 DEF ResolveCollectionIDs, NotStore, storeVars
  <2>2. CASE ~Answer(s, 403)
    <3>1. PICK ids \in SUBSET CollectionIds : sub' = [sub EXCEPT ![s].ids = ids, ![s].pc = "nodes"]
      BY <1>7, <2>2 DEF ResolveCollectionIDs
    <3>. QED
      BY <1>0, <1>7, <3>1 DEF ResolveCollectionIDs, NotStore, storeVars, SubType
  <2>. QED
    BY <2>1, <2>2
<1>8. CASE ReadNodes(s)
  <2>0. sub[s].pc = "nodes" /\ use_count' = use_count
    BY <1>8 DEF ReadNodes, SubAt, NotStore, storeVars
  <2>1. CASE Answer(s, 404)
    BY <1>1, <2>0, <2>1
  <2>2. CASE ~Answer(s, 404)
    <3>1. PICK uris, pc : sub' = [sub EXCEPT ![s].uris = uris, ![s].pc = pc]
      BY <1>8, <2>2 DEF ReadNodes
    <3>. QED
      BY <1>0, <2>0, <3>1 DEF SubType
  <2>. QED
    BY <2>1, <2>2
<1>9. CASE ConsumeChildUse(s)
  <2>1. PICK later \in BOOLEAN :
          IF Usable(sub[s].tok, later)
            THEN /\ use_count' = [use_count EXCEPT ![sub[s].tok] = @ + 1]
                 /\ sub' = [sub EXCEPT ![s].charged = TRUE, ![s].pc = "write"]
            ELSE UNCHANGED use_count /\ Answer(s, 403)
    BY <1>9 DEF ConsumeChildUse
  <2>2. CASE Usable(sub[s].tok, later)
    <3>1. Usable(sub[s].tok, TRUE)
      BY <2>2 DEF Usable
    <3>. QED
      BY <1>0, <1>9, <2>1, <2>2, <3>1 DEF Charge, SubType
  <2>3. CASE ~Usable(sub[s].tok, later)
    BY <1>1, <1>9, <2>1, <2>3
  <2>. QED
    BY <2>2, <2>3
<1>10. CASE WriteConverted(s)
  <2>0. sub[s].pc = "write" /\ use_count' = use_count
    BY <1>10 DEF WriteConverted, SubAt, NotStore, storeVars
  <2>1. CASE Answer(s, 400)
    BY <1>1, <2>0, <2>1
  <2>2. CASE ~Answer(s, 400)
    <3>1. PICK uris : sub' = [sub EXCEPT ![s].uris = uris, ![s].status = 200, ![s].pc = "log"]
      BY <1>10, <2>2 DEF WriteConverted
    <3>. QED
      BY <1>0, <2>0, <3>1 DEF SubType
  <2>. QED
    BY <2>1, <2>2
<1>. QED
  BY <1>3, <1>4, <1>5, <1>6, <1>7, <1>8, <1>9, <1>10 DEF SubStep

(***************************************************************************)
(* The service implements the quota.                                       *)
(***************************************************************************)
\* What an administrator does to the limits.
LEMMA LimitSteps ==
  ASSUME Inv, NEW a \in Admins, AdminStep(a)
  PROVE  /\ use_count' = use_count
         /\ \/ max_uses' = max_uses
            \/ \E c \in ChildIds, n \in Limits : max_uses' = [max_uses EXCEPT ![c] = n]
<1>0. adm[a] \in AdmType /\ max_uses \in [ChildIds -> Limits]
  BY DEF Inv, StoreInv, StoreTypeOK
<1>1. Given(adm[a].limit, 0) \in Limits /\ Given(adm[a].limit, adm[a].limit_was) \in Limits
  BY <1>0, RequestAssumption DEF Given, AdmType
<1>2. CASE Insert(a)
  <2>1. PICK x \in Table(adm[a].kind) \ SeedIds :
          max_uses' = IF x \in ChildIds
                      THEN [max_uses EXCEPT ![x] = Given(adm[a].limit, 0)] ELSE max_uses
    BY <1>2 DEF Insert
  <2>. QED
    BY <1>1, <1>2, <2>1 DEF Insert, NotTables
<1>3. CASE Update(a)
  BY <1>1, <1>3 DEF Update, NotTables
<1>. QED
  BY <1>2, <1>3 DEF AdminStep, AdminArrive, InsertRefused, ReadRow, ReadLinks, UpdateMissing,
     SetLinks, CountTokens, Delete, RegenerateToken, AdminCancel, NotTables, tables

LEMMA QuotaStep == Inv /\ [Next]_vars => [Quota!Next]_(Quota!vars)
<1> SUFFICES ASSUME Inv, [Next]_vars
             PROVE  Quota!Next \/ UNCHANGED <<max_uses, use_count, Standing, Passes>>
  BY DEF Quota!vars, Standing, Passes
<1>0. sub \in [Subs -> WellCharged] /\ \A s \in Subs : sub[s] \in SubType
  BY DEF Inv, WellCharged
<1>t. /\ max_uses \in [ChildIds -> Limits] /\ now \in Nat
      /\ \A c \in ChildIds : expires_at[c] \in Nat
  <2>1. /\ max_uses \in [ChildIds -> Limits] /\ expires_at \in [ChildIds -> Expiries]
        /\ now \in 0 .. Horizon
    BY DEF Inv, StoreInv, StoreTypeOK
  <2>2. Horizon \in Nat /\ Expiries \subseteq 1 .. Horizon + 1
    BY RequestAssumption DEF Never
  <2>3. now \in Nat
    BY <2>1, <2>2
  <2>4. \A e \in Expiries : e \in Nat
    BY <2>2
  <2>. QED
    BY <2>1, <2>3, <2>4
<1>s. Standing \subseteq ChildIds /\ Standing' \subseteq ChildIds
  BY DEF Standing
<1>k. ASSUME NEW c \in ChildIds, NEW n \in Limits, max_uses' = [max_uses EXCEPT ![c] = n],
             use_count' = use_count, Passes' = Passes
      PROVE  Quota!Next
  BY <1>s, <1>k DEF Quota!Next, Quota!Administer, Standing, Passes
<1>i. ASSUME max_uses' = max_uses, use_count' = use_count, Passes' = Passes
      PROVE  Quota!Next \/ UNCHANGED <<max_uses, use_count, Standing, Passes>>
  <2>1. CASE Standing' = Standing
    BY <1>i, <2>1
  <2>2. CASE Standing' # Standing
    <3>1. PICK c \in ChildIds : TRUE
      BY <1>s, <2>2
    <3>2. max_uses' = [max_uses EXCEPT ![c] = max_uses[c]] /\ max_uses[c] \in Limits
      BY <1>i, <1>t
    <3>. QED
      BY <1>i, <1>k, <3>2
  <2>. QED
    BY <2>1, <2>2
<1>1. ASSUME NEW a \in Admins, AdminStep(a), UNCHANGED subVars
      PROVE  Quota!Next \/ UNCHANGED <<max_uses, use_count, Standing, Passes>>
  <2>1. Passes' = Passes
    BY <1>1 DEF subVars, Passes
  <2>. QED
    BY <1>1, <1>i, <1>k, <2>1, LimitSteps
<1>2. ASSUME NEW s \in Subs, SubStep(s)
      PROVE  Quota!Next \/ UNCHANGED <<max_uses, use_count, Standing, Passes>>
  <2>1. max_uses' = max_uses
    BY <1>2 DEF SubStep, SubArrive, Authenticate, ReadGrants, ResolveCollectionIDs, ReadNodes,
       ConsumeChildUse, WriteRaw, WriteConverted, ConverterFails, LogAccess, PruneLogs,
       LogTimesOut, SubCancel, NotStore, storeVars, tables
  <2>5. Standing' = Standing
    BY <1>2 DEF SubStep, SubArrive, Authenticate, ReadGrants, ResolveCollectionIDs, ReadNodes,
       ConsumeChildUse, WriteRaw, WriteConverted, ConverterFails, LogAccess, PruneLogs,
       LogTimesOut, SubCancel, NotStore, storeVars, tables, Standing
  <2>2. sub[s].charged => sub[s].pc # "idle"
    BY <1>0 DEF WellCharged
  <2>3. CASE Charge(s)
    <3>1. sub[s].pc = "consume" /\ sub[s].tok \in ChildIds /\ ~sub[s].charged
      BY <1>0, <2>3 DEF Charge, ConsumeChildUse, SubAt, WellCharged
    <3>2. sub' = [sub EXCEPT ![s].charged = TRUE, ![s].pc = "write"]
      BY <2>3 DEF Charge
    <3>3. sub'[s].charged /\ sub'[s].tok = sub[s].tok /\ \A r \in Subs : r # s => sub'[r] = sub[r]
      BY <1>0, <3>2 DEF SubType
    <3>4. Passes' = Passes \cup {<<sub[s].tok, s>>}
      BY <3>1, <3>3 DEF Passes
    <3>5. \A d \in ChildIds : <<d, s>> \notin Passes
      BY <3>1 DEF Passes
    <3>6. WithinLimit(sub[s].tok) /\ use_count' = [use_count EXCEPT ![sub[s].tok] = @ + 1]
      BY <2>3 DEF Charge, Usable
    <3>7. sub[s].tok \in Standing
      BY <1>t, <2>3, <3>1 DEF Charge, Usable, Standing
    <3>8. Quota!Spend(sub[s].tok, s)
      BY <2>1, <2>5, <3>4, <3>5, <3>6, <3>7 DEF Quota!Spend, WithinLimit, Passes, Standing
    <3>. QED
      BY <3>1, <3>8 DEF Quota!Next
  <2>4. CASE sub'[s].charged = sub[s].charged /\ use_count' = use_count
    <3>1. \A r \in Subs : sub'[r].charged = sub[r].charged
      BY <1>2, <2>4, Charging
    <3>2. \A r \in Subs : sub[r].charged => sub'[r].tok = sub[r].tok
      BY <1>2, <2>2, Charging
    <3>3. Passes' = Passes
      BY <3>1, <3>2 DEF Passes
    <3>. QED
      BY <2>1, <2>4, <2>5, <3>3
  <2>. QED
    BY <1>2, <2>3, <2>4, Charging
<1>3. CASE ((Tick \/ Boot) /\ UNCHANGED subVars) \/ ClearLogs \/ UNCHANGED vars
  <2>1. max_uses' = max_uses /\ use_count' = use_count /\ Passes' = Passes
    BY <1>3 DEF Tick, Boot, ClearLogs, vars, storeVars, subVars, tables, Passes
  <2>. QED
    BY <1>i, <2>1
<1>4. CASE Crash
  <2>1. \A s \in Subs : sub'[s].charged = sub[s].charged /\ sub'[s].tok = sub[s].tok
    BY <1>0, <1>4 DEF Crash, SubType
  <2>. QED
    BY <1>4, <2>1 DEF Crash, tables, Standing, Passes
<1>. QED
  BY <1>1, <1>2, <1>3, <1>4 DEF Next

\* The refinement: for any number of children, requests and administrators, each
\* subscription costs a use and none is sold above the limit then in force, or to a
\* child that was disabled or deleted, or that expired in an earlier second, after the
\* request had been authenticated.
THEOREM ImplementsQuota == Spec => QuotaSpec
<1>1. SInit => Quota!Init
  BY DEF SInit, Init, NoSub, Quota!Init
<1>. QED
  BY <1>1, QuotaStep, InvInductive, PTL DEF Spec, QuotaSpec, Quota!Spec

(***************************************************************************)
(* The life of one administrator's request.  Only an update is read before *)
(* it is written, only a create is inserted, and what a request asked for   *)
(* does not change while it waits between its statements.                  *)
(***************************************************************************)
Shaped ==
  {q \in WellFormed :
     /\ q.pc = "idle" => q.id = None
     /\ q.pc = "insert" => q.call = "create"
     /\ q.pc \in {"read", "readlinks", "write"} => q.call = "update"
     /\ q.call = "update" => q.pc \notin {"idle", "insert", "count", "delete", "rotate"}}

ShapeInv == adm \in [Admins -> Shaped]

SameAsked(p, q) == p.call = q.call /\ p.kind = q.kind /\ p.links = q.links /\ p.limit = q.limit
SameRead(p, q) == p.id = q.id /\ p.had = q.had /\ p.limit_was = q.limit_was

Arrived(p, q) ==
  /\ p.pc = "idle" /\ q.had = {}
  /\ \/ q.call = "create" /\ q.pc = "insert"
     \/ q.call = "update" /\ q.pc = "read"
     \/ q.call \in {"delete", "rotate"} /\ q.pc \in {"count", "delete", "rotate"}
Inserted(p, q) ==
  /\ p.pc = "insert" /\ q.pc \in {"link", "done"} /\ SameAsked(p, q)
  /\ q.id \in Table(q.kind) /\ row[q.id] = "unborn" /\ q.had = Given(q.links, {})
Read(p, q) ==
  /\ p.pc = "read" /\ SameAsked(p, q) /\ Present(p.id) /\ p.id = q.id
  /\ q.pc = IF p.id \in NodeIds THEN "write" ELSE "readlinks"
  /\ p.id \in ChildIds => q.limit_was = max_uses[p.id]
LinksRead(p, q) ==
  /\ p.pc = "readlinks" /\ SameAsked(p, q) /\ p.id = q.id /\ p.limit_was = q.limit_was
  /\ q.pc \in {"write", "failed"} /\ q.had = Given(p.links, links[p.id])
MovedOn(p, q) ==
  /\ p.pc \notin AdmEnded \cup {"idle"} /\ SameAsked(p, q) /\ SameRead(p, q)
  /\ \/ q.pc \in AdmEnded
     \/ p.pc = "write" /\ q.pc = "link"
     \/ p.pc = "count" /\ q.pc = "delete"

\* Every change of a request is one of these.
LEMMA RequestSteps ==
  ASSUME Inv, [Next]_vars, NEW b \in Admins
  PROVE  \/ adm'[b] = adm[b]
         \/ Arrived(adm[b], adm'[b]) /\ UNCHANGED tables
         \/ Inserted(adm[b], adm'[b]) /\ UNCHANGED links
         \/ Read(adm[b], adm'[b]) /\ UNCHANGED tables
         \/ LinksRead(adm[b], adm'[b]) /\ UNCHANGED tables
         \/ MovedOn(adm[b], adm'[b])
<1>0. adm \in [Admins -> WellFormed] /\ adm[b] \in WellFormed /\ adm[b] \in AdmType
  BY DEF Inv, StoreInv, WellFormed
<1>1. ASSUME NEW pc, Go(b, pc),
             \/ pc \in AdmEnded
             \/ adm[b].pc = "write" /\ pc = "link"
             \/ adm[b].pc = "count" /\ pc = "delete",
             adm[b].pc \notin AdmEnded \cup {"idle"}
      PROVE  MovedOn(adm[b], adm'[b])
  BY <1>0, <1>1 DEF Go, MovedOn, SameAsked, SameRead, AdmType
<1>2. ASSUME NEW c \in Admins, AdminStep(c), c # b
      PROVE  adm'[b] = adm[b]
  <2>1. CASE AdminArrive(c)
    BY <1>0, <1>2, <2>1, Arrival
  <2>2. CASE Insert(c)
    BY <1>0, <1>2, <2>2 DEF Insert
  <2>3. CASE ReadRow(c)
    BY <1>0, <1>2, <2>3, Zenon DEF ReadRow, Go
  <2>4. CASE ReadLinks(c) \/ CountTokens(c)
    BY <1>0, <1>2, <2>4 DEF ReadLinks, CountTokens, Go
  <2>. QED
    BY <1>0, <1>2, <2>1, <2>2, <2>3, <2>4 DEF AdminStep, InsertRefused, Update,
       UpdateMissing, SetLinks, Delete, RegenerateToken, AdminCancel, Go
<1>3. CASE AdminArrive(b)
  <2>1. PICK call \in Calls, kind \in Kinds :
              \E id \in IF call = "create" THEN {None} ELSE Table(kind) :
              \E enabled \in BOOLEAN \cup {Unset}, ls \in {Unset} \cup SUBSET LinkTable(kind),
                 limit \in Limits \cup {Unset}, until \in Expiries \cup {Unset} :
                /\ <<call, kind>> \in AdminCalls
                /\ adm' = [adm EXCEPT ![b] = Request(call, kind, id, enabled, ls, limit, until)]
    BY <1>3, Arrival
  <2>2. adm'[b].call = call /\ adm'[b].pc = FirstStep(call, kind) /\ adm'[b].had = {}
    BY <1>0, <2>1 DEF Request, NoAdmin
  <2>. QED
    BY <1>3, <2>2 DEF AdminArrive, At, Arrived, FirstStep, Calls
<1>4. CASE Insert(b)
  <2>1. PICK x \in Table(adm[b].kind) \ SeedIds :
          /\ row[x] = "unborn"
          /\ adm' = [adm EXCEPT ![b].id = x, ![b].had = Given(adm[b].links, {}),
                                ![b].pc = IF x \in NodeIds THEN "done" ELSE "link"]
    BY <1>4 DEF Insert
  <2>2. Inserted(adm[b], adm'[b])
    BY <1>0, <1>4, <2>1 DEF Insert, At, Inserted, SameAsked, AdmType
  <2>. QED
    BY <1>4, <2>2 DEF Insert
<1>5. CASE ReadRow(b)
  <2>1. CASE Present(adm[b].id)
    <3>. DEFINE child == adm[b].id \in ChildIds
                was == row[adm[b].id] = "on"
                limit == IF child THEN max_uses[adm[b].id] ELSE 0
                until == IF child THEN expires_at[adm[b].id] ELSE Never
                pc == IF adm[b].id \in NodeIds THEN "write" ELSE "readlinks"
                q == [adm[b] EXCEPT !.was = was, !.limit_was = limit, !.until_was = until,
                                    !.pc = pc]
    <3>1. adm' = [adm EXCEPT ![b] = q]
      BY <1>5, <2>1 DEF ReadRow
    <3>2. adm[b].id \in ChildIds => limit = max_uses[adm[b].id]
      OBVIOUS
    <3>3. pc = IF adm[b].id \in NodeIds THEN "write" ELSE "readlinks"
      OBVIOUS
    <3>. HIDE DEF child, was, limit, until, pc
    <3>4. q.pc = pc /\ q.limit_was = limit /\ q.id = adm[b].id /\ SameAsked(adm[b], q)
      BY <1>0 DEF AdmType, SameAsked
    <3>. HIDE DEF q
    <3>5. adm'[b] = q
      BY <1>0, <3>1
    <3>6. Read(adm[b], adm'[b])
      BY <1>5, <2>1, <3>2, <3>3, <3>4, <3>5 DEF ReadRow, At, Read
    <3>. QED
      BY <1>5, <3>6 DEF ReadRow
  <2>2. CASE ~Present(adm[b].id)
    BY <1>1, <1>5, <2>2 DEF ReadRow, At, AdmEnded
  <2>. QED
    BY <2>1, <2>2
<1>6. CASE ReadLinks(b)
  <2>. DEFINE had == Given(adm[b].links, links[adm[b].id])
              pc == IF adm[b].kind = "child" /\ had = {} THEN "failed" ELSE "write"
  <2>1. adm' = [adm EXCEPT ![b].had = had, ![b].pc = pc]
    BY <1>6 DEF ReadLinks
  <2>2. pc \in {"failed", "write"}
    OBVIOUS
  <2>. HIDE DEF pc
  <2>3. LinksRead(adm[b], adm'[b])
    BY <1>0, <1>6, <2>1, <2>2 DEF ReadLinks, At, LinksRead, SameAsked, AdmType
  <2>. QED
    BY <1>6, <2>3 DEF ReadLinks
<1>7. CASE CountTokens(b)
  <2>1. CASE Go(b, "failed")
    BY <1>1, <1>7, <2>1 DEF CountTokens, At, AdmEnded
  <2>2. CASE adm' = [adm EXCEPT ![b].pc = "delete", ![b].counted = Masters]
    BY <1>0, <1>7, <2>2 DEF CountTokens, At, AdmEnded, MovedOn, SameAsked, SameRead, AdmType
  <2>. QED
    BY <1>7, <2>1, <2>2 DEF CountTokens
<1>8. CASE InsertRefused(b) \/ Update(b) \/ UpdateMissing(b) \/ SetLinks(b) \/ Delete(b)
           \/ RegenerateToken(b) \/ AdminCancel(b)
  BY <1>1, <1>8 DEF InsertRefused, Update, UpdateMissing, SetLinks, Delete, RegenerateToken,
     AdminCancel, At, AdmEnded
<1>9. CASE Crash
  <2>1. adm'[b] = adm[b] \/ (/\ adm[b].pc \notin AdmEnded \cup {"idle"}
                             /\ adm'[b] = [adm[b] EXCEPT !.pc = "lost"])
    BY <1>9 DEF Crash, CrashAdmins
  <2>. QED
    BY <1>0, <2>1 DEF MovedOn, SameAsked, SameRead, AdmType, AdmEnded
<1>10. ASSUME NEW s \in Subs, SubStep(s)
       PROVE  adm' = adm
  BY <1>10 DEF SubStep, SubArrive, Authenticate, ReadGrants, ResolveCollectionIDs, ReadNodes,
     ConsumeChildUse, WriteRaw, WriteConverted, ConverterFails, LogAccess, PruneLogs,
     LogTimesOut, SubCancel, NotStore, storeVars
<1>11. CASE Tick \/ Boot \/ ClearLogs \/ UNCHANGED vars
  BY <1>11 DEF Tick, Boot, ClearLogs, vars, storeVars
<1>12. ASSUME AdminStep(b)
       PROVE  \/ AdminArrive(b) \/ Insert(b) \/ ReadRow(b) \/ ReadLinks(b) \/ CountTokens(b)
              \/ InsertRefused(b) \/ Update(b) \/ UpdateMissing(b) \/ SetLinks(b) \/ Delete(b)
              \/ RegenerateToken(b) \/ AdminCancel(b)
  BY <1>12 DEF AdminStep
<1>13. AdminArrive(b) => UNCHANGED tables
  BY DEF AdminArrive
<1>. QED
  BY <1>2, <1>3, <1>4, <1>5, <1>6, <1>7, <1>8, <1>9, <1>10, <1>11, <1>12, <1>13, Zenon DEF Next

\* The shape of the requests is kept.
LEMMA ShapeHolds == Spec => []ShapeInv
<1>1. SInit /\ Inv => ShapeInv
  <2> SUFFICES ASSUME SInit, Inv, NEW a \in Admins
               PROVE  adm[a] \in Shaped
    BY DEF ShapeInv, Inv, StoreInv
  <2>1. adm = [b \in Admins |-> NoAdmin] /\ adm[a] \in WellFormed
    BY DEF SInit, Init, Inv, StoreInv
  <2>2. adm[a].pc = "idle" /\ adm[a].id = None /\ adm[a].call = "create"
    BY <2>1 DEF NoAdmin
  <2>. QED
    BY <2>1, <2>2 DEF Shaped
<1>2. Inv /\ Inv' /\ ShapeInv /\ [Next]_vars => ShapeInv'
  <2> SUFFICES ASSUME Inv, Inv', ShapeInv, [Next]_vars, NEW b \in Admins
               PROVE  adm'[b] \in Shaped
    BY DEF ShapeInv, Inv, StoreInv
  <2>1. adm[b] \in Shaped /\ adm'[b] \in WellFormed
    BY DEF ShapeInv, Inv, StoreInv
  <2>2. \/ adm'[b] = adm[b] \/ Arrived(adm[b], adm'[b]) \/ Inserted(adm[b], adm'[b])
        \/ Read(adm[b], adm'[b]) \/ LinksRead(adm[b], adm'[b]) \/ MovedOn(adm[b], adm'[b])
    BY RequestSteps
  <2>. QED
    BY <2>1, <2>2
       DEF Shaped, Arrived, Inserted, Read, LinksRead, MovedOn, SameAsked, SameRead, AdmEnded
<1>. QED
  BY <1>1, <1>2, InvInductive, PTL DEF Spec

\* A row that was born stays so.
LEMMA BornStays ==
  ASSUME Inv, [Next]_vars, NEW x \in Ids, row[x] # "unborn"
  PROVE  row'[x] # "unborn"
<1>0. row \in [Ids -> {"unborn", "on", "off", "gone"}]
  BY DEF Inv, StoreInv, StoreTypeOK
<1>1. CASE Present(x)
  <2>1. CASE ~\E a \in Admins : AdminStep(a)
    BY <1>1, <2>1, OtherRowSteps DEF Present
  <2>2. ASSUME NEW a \in Admins, AdminStep(a)
        PROVE  row'[x] # "unborn"
    BY <1>0, <1>1, <2>2, RowSteps DEF Delete, Present
  <2>. QED
    BY <2>1, <2>2
<1>2. CASE row[x] = "gone"
  <2>1. CASE Boot
    BY <1>0, <1>2, <2>1 DEF Boot, Seed
  <2>2. ASSUME NEW a \in Admins, AdminStep(a)
        PROVE  row'[x] # "unborn"
    <3>1. CASE Insert(a)
      BY <1>0, <1>2, <3>1 DEF Insert, Status
    <3>2. CASE Update(a)
      BY <1>0, <1>2, <3>2 DEF Update, Status
    <3>3. CASE Delete(a)
      BY <1>0, <1>2, <3>3 DEF Delete
    <3>. QED
      BY <1>2, <2>2, <3>1, <3>2, <3>3 DEF AdminStep, AdminArrive, InsertRefused, ReadRow,
         ReadLinks, UpdateMissing, SetLinks, CountTokens, RegenerateToken, AdminCancel, tables
  <2>3. ASSUME NEW s \in Subs, SubStep(s)
        PROVE  row' = row
    BY <2>3 DEF SubStep, SubArrive, Authenticate, ReadGrants, ResolveCollectionIDs, ReadNodes,
       ConsumeChildUse, WriteRaw, WriteConverted, ConverterFails, LogAccess, PruneLogs,
       LogTimesOut, SubCancel, NotStore, storeVars, tables
  <2>4. CASE Tick \/ ClearLogs \/ Crash \/ UNCHANGED vars
    BY <1>2, <2>4 DEF Tick, ClearLogs, Crash, vars, storeVars, tables
  <2>. QED
    BY <1>2, <2>1, <2>2, <2>3, <2>4 DEF Next
<1>. QED
  BY <1>0, <1>1, <1>2 DEF Present

(***************************************************************************)
(* Limits.  An update that has read a limit either finds it as it is, or    *)
(* has been crossed by another one which gave a limit.                     *)
(***************************************************************************)
Crossed(b, c) ==
  /\ adm[b].call = "update" /\ adm[b].id = c /\ adm[b].limit # Unset
  /\ adm[b].pc \notin {"idle", "read", "readlinks", "write"}

LimitRead ==
  \A a \in Admins :
    adm[a].pc \in {"readlinks", "write"} /\ adm[a].id \in ChildIds =>
      /\ row[adm[a].id] # "unborn"
      /\ adm[a].limit_was = max_uses[adm[a].id] \/ \E b \in Admins : Crossed(b, adm[a].id)

\* An update that is over, or about its links, stays so.
LEMMA CrossedStays ==
  ASSUME Inv, ShapeInv, [Next]_vars, NEW b \in Admins, NEW c, Crossed(b, c)
  PROVE  Crossed(b, c)'
<1>1. adm[b] \in Shaped /\ adm[b] \in AdmType
  BY DEF ShapeInv, Shaped, WellFormed
<1>2. adm[b].pc \in {"link"} \cup AdmEnded
  BY <1>1 DEF Crossed, Shaped, AdmType, AdmSteps
<1>3. adm'[b] = adm[b] \/ MovedOn(adm[b], adm'[b])
  BY <1>2, RequestSteps DEF Arrived, Inserted, Read, LinksRead, AdmEnded
<1>. QED
  BY <1>2, <1>3 DEF Crossed, MovedOn, SameAsked, SameRead, AdmEnded

\* A limit changes by an INSERT or by an UPDATE of its row, which writes what was
\* asked or else what was read.
LEMMA LimitChange ==
  ASSUME Inv, ShapeInv, [Next]_vars, NEW c \in ChildIds, max_uses'[c] # max_uses[c]
  PROVE  \E a \in Admins :
           \/ adm[a].pc = "insert" /\ adm'[a].id = c /\ row[c] = "unborn"
           \/ /\ adm[a].pc = "write" /\ adm[a].call = "update" /\ adm[a].id = c
              /\ max_uses'[c] = Given(adm[a].limit, adm[a].limit_was)
              /\ adm[a].limit # Unset => Crossed(a, c)'
<1>0. max_uses \in [ChildIds -> Limits] /\ adm \in [Admins -> AdmType]
  BY DEF Inv, StoreInv, StoreTypeOK
<1>1. PICK a \in Admins : AdminStep(a)
  <2>1. ASSUME NEW s \in Subs, SubStep(s)
        PROVE  max_uses' = max_uses
    BY <2>1 DEF SubStep, SubArrive, Authenticate, ReadGrants, ResolveCollectionIDs, ReadNodes,
       ConsumeChildUse, WriteRaw, WriteConverted, ConverterFails, LogAccess, PruneLogs,
       LogTimesOut, SubCancel, NotStore, storeVars, tables
  <2>. QED
    BY <2>1 DEF Next, Tick, Boot, ClearLogs, Crash, vars, storeVars, tables
<1>2. CASE Insert(a)
  <2>1. PICK x \in Table(adm[a].kind) \ SeedIds :
          /\ row[x] = "unborn"
          /\ adm' = [adm EXCEPT ![a].id = x, ![a].had = Given(adm[a].links, {}),
                                ![a].pc = IF x \in NodeIds THEN "done" ELSE "link"]
          /\ max_uses' = IF x \in ChildIds
                         THEN [max_uses EXCEPT ![x] = Given(adm[a].limit, 0)] ELSE max_uses
    BY <1>2 DEF Insert
  <2>2. x = c
    BY <1>0, <2>1
  <2>3. adm'[a].id = c
    BY <1>0, <2>1, <2>2 DEF AdmType
  <2>. QED
    BY <1>2, <2>1, <2>2, <2>3 DEF Insert, At
<1>3. CASE Update(a)
  <2>1. adm[a].pc = "write" /\ adm[a].id = c
        /\ max_uses'[c] = Given(adm[a].limit, adm[a].limit_was)
    BY <1>0, <1>3 DEF Update, At
  <2>2. adm[a].call = "update"
    BY <2>1 DEF ShapeInv, Shaped
  <2>3. PICK pc \in {"link", "done"} : Go(a, pc)
    BY <1>3 DEF Update
  <2>4. /\ adm'[a].pc = pc /\ adm'[a].id = c /\ adm'[a].call = "update"
        /\ adm'[a].limit = adm[a].limit
    BY <1>0, <2>1, <2>2, <2>3 DEF Go, AdmType
  <2>. QED
    BY <2>1, <2>2, <2>4 DEF Crossed
<1>4. CASE UNCHANGED max_uses
  BY <1>4
<1>. QED
  BY <1>1, <1>2, <1>3, <1>4 DEF AdminStep, AdminArrive, InsertRefused, ReadRow, ReadLinks,
     UpdateMissing, SetLinks, CountTokens, Delete, RegenerateToken, AdminCancel, tables

\* Hence a limit changes because it was asked for, or by an update which was
\* crossed by one that asked for it.
LEMMA LimitAsked ==
  ASSUME Inv, ShapeInv, LimitRead, [Next]_vars,
         NEW c \in ChildIds, max_uses'[c] # max_uses[c]
  PROVE  \E a \in Admins :
           \/ adm[a].pc = "insert" /\ adm'[a].id = c /\ row[c] = "unborn"
           \/ /\ adm[a].pc = "write" /\ adm[a].id = c
              /\ \/ adm[a].limit # Unset /\ Crossed(a, c)'
                 \/ adm[a].limit = Unset /\ \E b \in Admins : Crossed(b, c)
<1>1. PICK a \in Admins :
           \/ adm[a].pc = "insert" /\ adm'[a].id = c /\ row[c] = "unborn"
           \/ /\ adm[a].pc = "write" /\ adm[a].call = "update" /\ adm[a].id = c
              /\ max_uses'[c] = Given(adm[a].limit, adm[a].limit_was)
              /\ adm[a].limit # Unset => Crossed(a, c)'
  BY LimitChange
<1>2. ASSUME adm[a].pc = "write", adm[a].id = c, adm[a].limit = Unset,
             max_uses'[c] = Given(adm[a].limit, adm[a].limit_was)
      PROVE  \E b \in Admins : Crossed(b, c)
  BY <1>2 DEF Given, LimitRead
<1>. QED
  BY <1>1, <1>2

LEMMA LimitReadHolds == Spec => []LimitRead
<1>1. SInit => LimitRead
  BY DEF SInit, Init, LimitRead, NoAdmin
<1>2. Inv /\ ShapeInv /\ LimitRead /\ [Next]_vars => LimitRead'
  <2> SUFFICES ASSUME Inv, ShapeInv, LimitRead, [Next]_vars, NEW a \in Admins,
                      NEW c \in ChildIds, adm'[a].id = c,
                      adm'[a].pc \in {"readlinks", "write"}
               PROVE  /\ row'[c] # "unborn"
                      /\ adm'[a].limit_was = max_uses'[c] \/ \E b \in Admins : Crossed(b, c)'
    BY DEF LimitRead, Crossed
  <2>0. c \in Ids
    BY DEF Ids, Owners, TokenIds
  <2>1. CASE /\ adm[a].pc \in {"readlinks", "write"} /\ adm[a].id = c
             /\ adm'[a].limit_was = adm[a].limit_was
    <3>1. row[c] # "unborn" /\ (adm[a].limit_was = max_uses[c] \/ \E b \in Admins : Crossed(b, c))
      BY <2>1 DEF LimitRead
    <3>2. row'[c] # "unborn"
      BY <2>0, <3>1, BornStays
    <3>3. CASE \E b \in Admins : Crossed(b, c)
      BY <3>2, <3>3, CrossedStays
    <3>4. CASE max_uses'[c] # max_uses[c]
      <4>1. (\E b \in Admins : Crossed(b, c)) \/ (\E b \in Admins : Crossed(b, c)')
        BY <3>1, <3>4, LimitAsked
      <4>. QED
        BY <3>2, <4>1, CrossedStays
    <3>. QED
      BY <2>1, <3>1, <3>2, <3>3, <3>4
  <2>2. CASE Read(adm[a], adm'[a]) /\ UNCHANGED tables
    BY <2>2 DEF Read, Present, tables
  <2>3. adm'[a] = adm[a] \/ LinksRead(adm[a], adm'[a]) \/ (Read(adm[a], adm'[a]) /\ UNCHANGED tables)
    BY RequestSteps DEF Arrived, Inserted, MovedOn, AdmEnded
  <2>. QED
    BY <2>1, <2>2, <2>3 DEF LinksRead
<1>. QED
  BY <1>1, <1>2, InvInductive, ShapeHolds, PTL DEF Spec

\* An update that does not mention max_uses preserves it, unless another update
\* which does came between its read and its write.
THEOREM LimitsAreAskedFor == Spec => LimitKeptUnlessCrossed
<1>1. Inv /\ ShapeInv /\ LimitRead /\ [Next]_vars => LimitIsAskedFor
  <2> SUFFICES ASSUME Inv, ShapeInv, LimitRead, [Next]_vars,
                      NEW c \in ChildIds, max_uses'[c] # max_uses[c]
               PROVE  \E a \in Admins :
                        \/ adm[a].pc = "insert" /\ adm'[a].id = c
                        \/ /\ adm[a].pc = "write" /\ adm[a].id = c
                           /\ adm[a].limit = Unset => \E b \in Admins : Crossed(b, c)
    BY DEF LimitIsAskedFor, Crossed
  <2>. QED
    BY LimitAsked
<1>2. [Next]_vars /\ UNCHANGED storeVars => LimitIsAskedFor
  BY DEF storeVars, tables, LimitIsAskedFor
<1>. QED
  BY <1>1, InvInductive, ShapeHolds, LimitReadHolds, PTL DEF Spec, LimitKeptUnlessCrossed

(***************************************************************************)
(* Confinement.  A master is freed of its collections by an update that     *)
(* leaves them alone only if it read none, and whoever gave it some since   *)
(* then is done.                                                           *)
(***************************************************************************)
Confined(b, m) == adm[b].id = m /\ adm[b].had # {} /\ adm[b].pc = "done"

EmptyRead ==
  \A a \in Admins :
    /\ adm[a].pc \in {"write", "link"} /\ adm[a].id \in MasterIds
    /\ adm[a].links = Unset /\ adm[a].had = {} /\ links[adm[a].id] # {}
    => \E b \in Admins : Confined(b, adm[a].id)

\* A token that had no collections gets some from a request that is then done.
LEMMA LinksGiven ==
  ASSUME Inv, [Next]_vars, NEW m \in MasterIds, links[m] = {}, links'[m] # {}
  PROVE  \E b \in Admins : Confined(b, m)'
<1>0. m \in Owners /\ links \in [Owners -> SUBSET Ids] /\ adm \in [Admins -> AdmType]
  BY DEF Owners, TokenIds, Inv, StoreInv, StoreTypeOK
<1>1. PICK a \in Admins : AdminStep(a)
  BY OtherRowSteps
<1>2. CASE SetLinks(a)
  <2>1. links' = [links EXCEPT ![adm[a].id] = adm[a].had] /\ Go(a, "done")
    BY <1>2 DEF SetLinks
  <2>2. adm[a].id = m /\ adm[a].had # {}
    BY <1>0, <2>1
  <2>3. adm'[a].id = m /\ adm'[a].had # {} /\ adm'[a].pc = "done"
    BY <1>0, <2>1, <2>2 DEF Go, AdmType
  <2>. QED
    BY <2>3 DEF Confined
<1>3. CASE Delete(a)
  BY <1>0, <1>3 DEF Delete, Cascade
<1>. QED
  BY <1>1, <1>2, <1>3, LinkSteps

LEMMA EmptyReadHolds == Spec => []EmptyRead
<1>1. SInit => EmptyRead
  BY DEF SInit, Init, EmptyRead, NoAdmin
<1>2. Inv /\ Inv' /\ ForeignKeys /\ EmptyRead /\ [Next]_vars => EmptyRead'
  <2> SUFFICES ASSUME Inv, Inv', ForeignKeys, EmptyRead, [Next]_vars, NEW a \in Admins,
                      NEW m \in MasterIds, adm'[a].id = m, adm'[a].pc \in {"write", "link"},
                      adm'[a].links = Unset, adm'[a].had = {}, links'[m] # {}
               PROVE  \E b \in Admins : Confined(b, m)'
    BY DEF EmptyRead, Confined
  <2>0. adm[a] \in WellFormed
    BY DEF Inv, StoreInv
  <2>1. CASE links[m] = {}
    BY <2>1, LinksGiven
  <2>2. CASE links[m] # {} /\ adm[a].pc \in {"write", "link"} /\ SameAsked(adm[a], adm'[a])
             /\ SameRead(adm[a], adm'[a])
    <3>1. PICK b \in Admins : Confined(b, m)
      BY <2>2 DEF EmptyRead, SameAsked, SameRead
    <3>. QED
      BY <3>1, DoneStays DEF Confined
  <2>3. CASE LinksRead(adm[a], adm'[a])
    BY <2>1, <2>3 DEF LinksRead, SameAsked, Given
  <2>4. CASE Inserted(adm[a], adm'[a])
    <3>1. adm'[a].kind \in Kinds
      BY DEF Inv, StoreInv, StoreTypeOK, AdmType
    <3>2. m \in Table(adm'[a].kind) \cap Owners /\ ~Present(m)
      BY <2>4 DEF Inserted, Owners, TokenIds, Present
    <3>3. links[m] = {}
      BY <3>1, <3>2 DEF ForeignKeys
    <3>. QED
      BY <2>1, <3>3
  <2>5. CASE Read(adm[a], adm'[a])
    <3>1. m \in NodeIds
      BY <2>5 DEF Read
    <3>. QED
      BY <3>1, IdAssumption
  <2>6. adm[a].pc \in {"write", "link"} \/ ~MovedOn(adm[a], adm'[a])
    BY DEF MovedOn, AdmEnded
  <2>7. ~Arrived(adm[a], adm'[a])
    BY DEF Arrived
  <2>. QED
    BY <2>1, <2>2, <2>3, <2>4, <2>5, <2>6, <2>7, RequestSteps DEF MovedOn, SameAsked, SameRead
<1>. QED
  BY <1>1, <1>2, InvInductive, KeysHold, PTL DEF Spec

\* A master is freed of its collections on request only, or by the deletion of the
\* last one, or by an update that had read the list before another one filled it.
THEOREM ConfinementIsKept == Spec => ConfinementKept
<1>1. Inv /\ ForeignKeys /\ EmptyRead /\ [Next]_vars => ConfinementIsLifted
  <2> SUFFICES ASSUME Inv, ForeignKeys, EmptyRead, [Next]_vars, NEW m \in MasterIds,
                      links[m] # {}, links'[m] = {}, row'[m] # "gone"
               PROVE  \E a \in Admins :
                        \/ /\ adm[a].pc = "delete" /\ adm[a].kind = "collection"
                           /\ links[m] = {adm[a].id}
                        \/ /\ adm[a].pc = "link" /\ adm[a].id = m
                           /\ adm[a].links = Unset => \E b \in Admins : Confined(b, m)
    BY DEF ConfinementIsLifted, Confined
  <2>0. m \in Owners /\ m \in Ids /\ links \in [Owners -> SUBSET Ids] /\ adm \in [Admins -> WellFormed]
        /\ row \in [Ids -> {"unborn", "on", "off", "gone"}]
    BY DEF Ids, Owners, TokenIds, Inv, StoreInv, StoreTypeOK
  <2>1. PICK a \in Admins : AdminStep(a)
    BY OtherRowSteps
  <2>2. CASE Delete(a)
    <3>1. adm[a].pc = "delete" /\ links' = Cascade(adm[a].id)
          /\ row' = [row EXCEPT ![adm[a].id] = "gone"]
      BY <2>2 DEF Delete, At
    <3>2. m # adm[a].id
      BY <2>0, <3>1
    <3>3. links[m] = {adm[a].id}
      BY <2>0, <3>1, <3>2 DEF Cascade
    <3>4. links[m] \subseteq CollectionIds
      BY <2>0 DEF Inv, StoreInv, LinksTyped, Kinds, Table, LinkTable
    <3>5. adm[a].kind = "collection"
      <4>1. adm[a].id \in Table(adm[a].kind) /\ adm[a].kind \in Kinds
        BY <2>0, <3>1 DEF WellFormed, AdmType
      <4>. QED
        BY <3>3, <3>4, <4>1, OneTable DEF Kinds, Table
    <3>. QED
      BY <3>1, <3>3, <3>5
  <2>3. CASE SetLinks(a)
    <3>1. adm[a].pc = "link" /\ links' = [links EXCEPT ![adm[a].id] = adm[a].had]
      BY <2>3 DEF SetLinks, At
    <3>2. adm[a].id = m /\ adm[a].had = {}
      BY <2>0, <3>1
    <3>. QED
      BY <3>1, <3>2 DEF EmptyRead
  <2>. QED
    BY <2>1, <2>2, <2>3, LinkSteps
<1>2. UNCHANGED storeVars => ConfinementIsLifted
  BY DEF storeVars, tables, ConfinementIsLifted
<1>. QED
  BY <1>1, <1>2, InvInductive, KeysHold, EmptyReadHolds, PTL DEF Spec, ConfinementKept

\* Whatever the administrators did, a restart leaves a master token.
THEOREM RestartLetsIn == Spec => RestartRevives
<1>. DEFINE Revives == server = "down" /\ server' = "up" => Masters' # {}
<1>1. Inv /\ [Next]_vars => Revives
  <2> SUFFICES ASSUME Inv, [Next]_vars, server = "down", server' = "up"
               PROVE  Masters' # {}
    OBVIOUS
  <2>1. Boot
    <3>1. ASSUME NEW a \in Admins, AdminStep(a)
          PROVE  server' = server
      BY <3>1 DEF AdminStep, AdminArrive, Insert, InsertRefused, ReadRow, ReadLinks, Update,
         UpdateMissing, SetLinks, CountTokens, Delete, RegenerateToken, AdminCancel, NotTables
    <3>2. ASSUME NEW s \in Subs, SubStep(s)
          PROVE  server' = server
      BY <3>2 DEF SubStep, SubArrive, Authenticate, ReadGrants, ResolveCollectionIDs, ReadNodes,
         ConsumeChildUse, WriteRaw, WriteConverted, ConverterFails, LogAccess, PruneLogs,
         LogTimesOut, SubCancel, NotStore, storeVars
    <3>. QED
      BY <3>1, <3>2 DEF Next, Tick, ClearLogs, Crash, vars, storeVars
  <2>2. CASE Masters # {}
    BY <2>1, <2>2 DEF Boot, Seed, Masters, Present
  <2>3. CASE Masters = {}
    <3>1. PICK m \in SeedIds : row[m] = "unborn" /\ row' = [row EXCEPT ![m] = "on"]
      BY <2>1, <2>3 DEF Boot, Seed
    <3>2. m \in MasterIds /\ m \in Ids
      BY IdAssumption DEF Ids, Owners, TokenIds
    <3>3. row'[m] = "on"
      BY <3>1, <3>2 DEF Inv, StoreInv, StoreTypeOK
    <3>. QED
      BY <3>2, <3>3 DEF Masters, Present
  <2>. QED
    BY <2>2, <2>3
<1>. QED
  BY <1>1, InvInductive, PTL DEF Spec, RestartRevives

(***************************************************************************)
(* The quota of one child.  use_count is the number of requests that were   *)
(* charged for it, and is within the limit unless an update named it.       *)
(***************************************************************************)
ChargedFor(c) == {s \in Subs : sub[s].charged /\ sub[s].tok = c}
Unedited(c) == \A a \in Admins : adm[a].id = c => adm[a].call # "update"

UsesCounted ==
  \A c \in ChildIds :
    /\ IsFiniteSet(ChargedFor(c)) /\ Cardinality(ChargedFor(c)) = use_count[c]
    /\ row[c] = "unborn" => use_count[c] = 0
    /\ max_uses[c] # 0 /\ Unedited(c) => use_count[c] <= max_uses[c]

\* What a step does to the requests that were charged.
LEMMA UseSteps ==
  ASSUME Inv, [Next]_vars, NEW c \in ChildIds
  PROVE  \/ ChargedFor(c)' = ChargedFor(c) /\ use_count'[c] = use_count[c]
         \/ \E s \in Subs \ ChargedFor(c) :
              /\ ChargedFor(c)' = ChargedFor(c) \cup {s}
              /\ use_count'[c] = use_count[c] + 1
              /\ Usable(c, TRUE) /\ UNCHANGED <<tables, adm>>
<1>0. /\ sub \in [Subs -> WellCharged] /\ \A s \in Subs : sub[s] \in SubType
      /\ use_count \in [ChildIds -> Nat]
  BY DEF Inv, WellCharged, StoreInv, StoreTypeOK
<1>1. ASSUME NEW s \in Subs, SubStep(s)
      PROVE  \/ ChargedFor(c)' = ChargedFor(c) /\ use_count'[c] = use_count[c]
             \/ \E r \in Subs \ ChargedFor(c) :
                  /\ ChargedFor(c)' = ChargedFor(c) \cup {r}
                  /\ use_count'[c] = use_count[c] + 1
                  /\ Usable(c, TRUE) /\ UNCHANGED <<tables, adm>>
  <2>1. CASE Charge(s)
    <3>1. sub[s].tok \in ChildIds /\ ~sub[s].charged
      BY <1>0, <2>1 DEF Charge, ConsumeChildUse, SubAt, WellCharged
    <3>2. /\ sub' = [sub EXCEPT ![s].charged = TRUE, ![s].pc = "write"]
          /\ use_count' = [use_count EXCEPT ![sub[s].tok] = @ + 1]
          /\ UNCHANGED <<tables, adm>>
      BY <2>1 DEF Charge, ConsumeChildUse
    <3>3. sub'[s].charged /\ sub'[s].tok = sub[s].tok /\ \A r \in Subs : r # s => sub'[r] = sub[r]
      BY <1>0, <3>2 DEF SubType
    <3>4. CASE sub[s].tok = c
      <4>1. ChargedFor(c)' = ChargedFor(c) \cup {s} /\ s \notin ChargedFor(c)
        BY <3>1, <3>3, <3>4 DEF ChargedFor
      <4>2. use_count'[c] = use_count[c] + 1
        BY <1>0, <3>2, <3>4
      <4>3. Usable(c, TRUE)
        BY <2>1, <3>4 DEF Charge
      <4>. QED
        BY <3>2, <4>1, <4>2, <4>3
    <3>5. CASE sub[s].tok # c
      BY <1>0, <3>1, <3>2, <3>3, <3>5 DEF ChargedFor
    <3>. QED
      BY <3>4, <3>5
  <2>2. CASE sub'[s].charged = sub[s].charged /\ use_count' = use_count
    <3>1. sub[s].charged => sub[s].pc # "idle"
      BY <1>0 DEF WellCharged
    <3>2. \A r \in Subs : sub'[r].charged = sub[r].charged
                          /\ (sub[r].charged => sub'[r].tok = sub[r].tok)
      BY <1>1, <2>2, <3>1, Charging
    <3>. QED
      BY <2>2, <3>2 DEF ChargedFor
  <2>. QED
    BY <1>1, <2>1, <2>2, Charging
<1>2. ASSUME NEW a \in Admins, AdminStep(a), UNCHANGED subVars
      PROVE  ChargedFor(c)' = ChargedFor(c) /\ use_count'[c] = use_count[c]
  BY <1>2, LimitSteps DEF subVars, ChargedFor
<1>3. CASE ((Tick \/ Boot) /\ UNCHANGED subVars) \/ ClearLogs \/ UNCHANGED vars
  BY <1>3 DEF Tick, Boot, ClearLogs, vars, storeVars, subVars, ChargedFor
<1>4. CASE Crash
  <2>1. \A s \in Subs : sub'[s].charged = sub[s].charged /\ sub'[s].tok = sub[s].tok
    BY <1>0, <1>4 DEF Crash, SubType
  <2>. QED
    BY <1>4, <2>1 DEF Crash, ChargedFor
<1>. QED
  BY <1>1, <1>2, <1>3, <1>4 DEF Next

\* A token that an update has named stays so.
LEMMA EditedStays ==
  ASSUME Inv, ShapeInv, [Next]_vars, NEW c \in ChildIds, Unedited(c)'
  PROVE  Unedited(c)
<1> SUFFICES ASSUME NEW a \in Admins, adm[a].id = c, adm[a].call = "update"
             PROVE  adm'[a].id = c /\ adm'[a].call = "update"
  BY DEF Unedited
<1>1. adm[a].pc \notin {"idle", "insert"}
  BY DEF ShapeInv, Shaped
<1>. QED
  BY <1>1, RequestSteps
     DEF Arrived, Inserted, Read, LinksRead, MovedOn, SameAsked, SameRead

LEMMA UsesCountedHolds == Spec => []UsesCounted
<1>1. SInit => UsesCounted
  <2> SUFFICES ASSUME SInit, NEW c \in ChildIds
               PROVE  /\ IsFiniteSet(ChargedFor(c)) /\ Cardinality(ChargedFor(c)) = use_count[c]
                      /\ use_count[c] = 0 /\ max_uses[c] \in Nat
    BY DEF UsesCounted
  <2>1. ChargedFor(c) = {}
    BY DEF SInit, NoSub, ChargedFor
  <2>2. use_count[c] = 0 /\ max_uses[c] \in Nat
    BY RequestAssumption DEF SInit, Init
  <2>. QED
    BY <2>1, <2>2, FS_EmptySet
<1>2. Inv /\ Inv' /\ ShapeInv /\ UsesCounted /\ [Next]_vars => UsesCounted'
  <2> SUFFICES ASSUME Inv, Inv', ShapeInv, UsesCounted, [Next]_vars, NEW c \in ChildIds
               PROVE  /\ IsFiniteSet(ChargedFor(c))'
                      /\ Cardinality(ChargedFor(c)') = use_count'[c]
                      /\ row'[c] = "unborn" => use_count'[c] = 0
                      /\ max_uses'[c] # 0 /\ Unedited(c)' => use_count'[c] <= max_uses'[c]
    BY DEF UsesCounted
  <2>0. /\ c \in Ids /\ max_uses[c] \in Nat /\ max_uses'[c] \in Nat /\ use_count[c] \in Nat
        /\ IsFiniteSet(ChargedFor(c)) /\ Cardinality(ChargedFor(c)) = use_count[c]
    BY RequestAssumption DEF Ids, Owners, TokenIds, Inv, StoreInv, StoreTypeOK, UsesCounted
  <2>1. CASE \E s \in Subs \ ChargedFor(c) :
               /\ ChargedFor(c)' = ChargedFor(c) \cup {s}
               /\ use_count'[c] = use_count[c] + 1
               /\ Usable(c, TRUE) /\ UNCHANGED <<tables, adm>>
    <3>1. PICK s \in Subs \ ChargedFor(c) :
               /\ ChargedFor(c)' = ChargedFor(c) \cup {s}
               /\ use_count'[c] = use_count[c] + 1
               /\ Usable(c, TRUE) /\ UNCHANGED <<tables, adm>>
      BY <2>1
    <3>2. IsFiniteSet(ChargedFor(c) \cup {s})
          /\ Cardinality(ChargedFor(c) \cup {s}) = Cardinality(ChargedFor(c)) + 1
      BY <2>0, <3>1, FS_AddElement
    <3>3. row'[c] = "on" /\ max_uses'[c] = max_uses[c]
      BY <3>1 DEF Usable, tables
    <3>4. max_uses[c] # 0 => use_count[c] < max_uses[c]
      BY <3>1 DEF Usable, WithinLimit
    <3>5. max_uses'[c] # 0 => use_count'[c] <= max_uses'[c]
      BY <2>0, <3>1, <3>3, <3>4
    <3>. QED
      BY <2>0, <3>1, <3>2, <3>3, <3>5
  <2>2. CASE ChargedFor(c)' = ChargedFor(c) /\ use_count'[c] = use_count[c]
    <3>1. row'[c] = "unborn" => use_count'[c] = 0
      BY <2>0, <2>2, BornStays DEF UsesCounted
    <3>2. ASSUME max_uses'[c] # 0, Unedited(c)'
          PROVE  use_count'[c] <= max_uses'[c]
      <4>1. CASE max_uses'[c] = max_uses[c]
        BY <2>2, <3>2, <4>1, EditedStays DEF UsesCounted
      <4>2. CASE max_uses'[c] # max_uses[c]
        <5>1. PICK a \in Admins :
                 \/ adm[a].pc = "insert" /\ adm'[a].id = c /\ row[c] = "unborn"
                 \/ adm[a].call = "update" /\ adm[a].id = c
          BY <4>2, LimitChange
        <5>2. row[c] = "unborn"
          BY <3>2, <5>1, EditedStays DEF Unedited
        <5>. QED
          BY <2>0, <2>2, <5>2 DEF UsesCounted
      <4>. QED
        BY <4>1, <4>2
    <3>. QED
      BY <2>0, <2>2, <3>1, <3>2
  <2>. QED
    BY <2>1, <2>2, UseSteps
<1>. QED
  BY <1>1, <1>2, InvInductive, ShapeHolds, PTL DEF Spec

\* However many requests race for the last uses of a child token, it yields no more
\* subscriptions than its limit, unless an update changes that.
THEOREM QuotaIsKept == Spec => []QuotaKept
<1>1. Inv /\ UsesCounted => QuotaKept
  <2> SUFFICES ASSUME Inv, UsesCounted, NEW c \in ChildIds, max_uses[c] # 0, Unedited(c)
               PROVE  Cardinality(Delivered(c)) <= max_uses[c]
    BY DEF QuotaKept, Unedited
  <2>1. Delivered(c) \subseteq ChargedFor(c)
    BY DEF Delivered, ChargedFor, Inv, WellCharged
  <2>2. Cardinality(Delivered(c)) <= Cardinality(ChargedFor(c))
        /\ Cardinality(Delivered(c)) \in Nat
    BY <2>1, FS_Subset, FS_CardinalityType DEF UsesCounted
  <2>3. use_count[c] \in Nat /\ max_uses[c] \in Nat
        /\ Cardinality(ChargedFor(c)) = use_count[c] /\ use_count[c] <= max_uses[c]
    BY RequestAssumption DEF Inv, StoreInv, StoreTypeOK, UsesCounted
  <2>. QED
    BY <2>2, <2>3
<1>. QED
  BY <1>1, InvInductive, UsesCountedHolds, PTL DEF Spec

(***************************************************************************)
(* The access log.  Only finitely many requests have come, so those that    *)
(* may have left an entry too many can be counted.                         *)
(***************************************************************************)
Unpruned == {s \in Subs : sub[s].pc \in {"prune", "lost"}}
Begun == {s \in Subs : sub[s].pc # "idle"}
LogInv == IsFiniteSet(Begun) /\ Len(logs) <= LogMax + Cardinality(Unpruned)

\* A step that leaves the log alone, or empties it, and takes nobody off the
\* unpruned keeps it within its bound.
LEMMA LogKept ==
  ASSUME Inv, LogInv, IsFiniteSet(Begun'), Unpruned \subseteq Unpruned',
         logs' = logs \/ logs' = <<>>
  PROVE  LogInv'
<1>1. IsFiniteSet(Unpruned) /\ IsFiniteSet(Unpruned')
  <2>1. Unpruned \subseteq Begun /\ Unpruned' \subseteq Begun'
    BY DEF Unpruned, Begun
  <2>. QED
    BY <2>1, FS_Subset DEF LogInv
<1>2. Cardinality(Unpruned) <= Cardinality(Unpruned')
  BY <1>1, FS_Subset
<1>3. Cardinality(Unpruned) \in Nat /\ Cardinality(Unpruned') \in Nat
  BY <1>1, FS_CardinalityType
<1>4. Len(logs) \in Nat /\ Len(<<>>) = 0 /\ LogMax \in Nat
  BY SubscriptionAssumption DEF Inv
<1>5. Len(logs') <= LogMax + Cardinality(Unpruned')
  <2>1. CASE logs' = logs
    BY <1>2, <1>3, <1>4, <2>1 DEF LogInv
  <2>2. CASE logs' = <<>>
    BY <1>3, <1>4, <2>2
  <2>. QED
    BY <2>1, <2>2
<1>. QED
  BY <1>5 DEF LogInv

\* Of the subscription handlers, the log's two are the ones that write it.
LEMMA LogSteps ==
  ASSUME Inv, NEW s \in Subs, SubStep(s)
  PROVE  /\ \A r \in Subs : r # s => sub'[r] = sub[r]
         /\ LogAccess(s) \/ PruneLogs(s) \/ logs' = logs
         /\ ~PruneLogs(s) /\ sub[s].pc \in {"prune", "lost"} => sub'[s].pc \in {"prune", "lost"}
<1>0. sub \in [Subs -> WellCharged] /\ sub[s] \in SubType
  BY DEF Inv, WellCharged
<1>1. LogAccess(s) \/ PruneLogs(s) \/ logs' = logs
  BY DEF SubStep, SubArrive, Authenticate, ReadGrants, ResolveCollectionIDs, ReadNodes,
     ConsumeChildUse, WriteRaw, WriteConverted, ConverterFails, LogTimesOut, SubCancel
<1>2. ASSUME ~PruneLogs(s), sub[s].pc \in {"prune", "lost"}
      PROVE  sub'[s].pc \in {"prune", "lost"}
  <2>1. LogTimesOut(s)
    BY <1>2 DEF SubStep, SubArrive, Authenticate, ReadGrants, ResolveCollectionIDs, ReadNodes,
       ConsumeChildUse, WriteRaw, WriteConverted, ConverterFails, LogAccess, LogTimesOut,
       SubCancel, SubAt
  <2>. QED
    BY <1>0, <2>1 DEF LogTimesOut, SubType
<1>. QED
  BY <1>1, <1>2, Charging

LEMMA LogInvHolds == Spec => []LogInv
<1>1. SInit => LogInv
  <2> SUFFICES ASSUME SInit
               PROVE  LogInv
    OBVIOUS
  <2>1. Begun = {} /\ Unpruned = {} /\ Len(logs) = 0
    BY DEF SInit, NoSub, Begun, Unpruned
  <2>. QED
    BY <2>1, FS_EmptySet, SubscriptionAssumption DEF LogInv
<1>2. Inv /\ Inv' /\ LogInv /\ [Next]_vars => LogInv'
  <2> SUFFICES ASSUME Inv, Inv', LogInv, [Next]_vars
               PROVE  LogInv'
    OBVIOUS
  <2>0. IsFiniteSet(Begun) /\ IsFiniteSet(Unpruned) /\ Unpruned \subseteq Begun
    <3>1. Unpruned \subseteq Begun
      BY DEF Unpruned, Begun
    <3>. QED
      BY <3>1, FS_Subset DEF LogInv
  <2>n. Cardinality(Unpruned) \in Nat /\ LogMax \in Nat \ {0} /\ logs \in Seq(Subs)
    BY <2>0, FS_CardinalityType, SubscriptionAssumption DEF Inv
  <2>1. ASSUME NEW s \in Subs, SubStep(s)
        PROVE  LogInv'
    <3>1. \A r \in Subs : r # s => sub'[r] = sub[r]
      BY <2>1, LogSteps
    <3>2. IsFiniteSet(Begun')
      <4>1. Begun' \subseteq Begun \cup {s}
        BY <3>1 DEF Begun
      <4>2. IsFiniteSet(Begun \cup {s})
        BY <2>0, FS_AddElement
      <4>. QED
        BY <4>1, <4>2, FS_Subset
    <3>3. CASE LogAccess(s)
      <4>1. /\ sub[s].pc = "log" /\ logs' = Append(logs, s)
            /\ sub' = [sub EXCEPT ![s].pc = "prune"]
        BY <3>3 DEF LogAccess, SubAt
      <4>2. sub'[s].pc = "prune"
        BY <4>1 DEF Inv, WellCharged, SubType
      <4>3. Unpruned' = Unpruned \cup {s} /\ s \notin Unpruned
        BY <3>1, <4>1, <4>2 DEF Unpruned
      <4>4. Cardinality(Unpruned') = Cardinality(Unpruned) + 1
        BY <2>0, <4>3, FS_AddElement
      <4>5. Len(logs') = Len(logs) + 1 /\ Len(logs) \in Nat
        BY <2>n, <4>1
      <4>6. Len(logs') <= LogMax + Cardinality(Unpruned')
        BY <2>n, <4>4, <4>5 DEF LogInv
      <4>. QED
        BY <3>2, <4>6 DEF LogInv
    <3>4. CASE PruneLogs(s)
      <4>1. Len(logs') <= LogMax /\ Len(logs') \in Nat
        <5>1. CASE Len(logs) <= LogMax
          BY <2>n, <3>4, <5>1 DEF PruneLogs
        <5>2. CASE ~(Len(logs) <= LogMax)
          <6>1. logs' = SubSeq(logs, Len(logs) - LogMax + 1, Len(logs))
            BY <3>4, <5>2 DEF PruneLogs
          <6>2. PICK n \in Nat : n = Len(logs) /\ n > LogMax
            BY <2>n, <5>2
          <6>3. n - LogMax + 1 \in 1 .. n /\ n - (n - LogMax + 1) + 1 = LogMax
            BY <2>n, <6>2
          <6>4. Len(logs') = LogMax
            BY <2>n, <6>1, <6>2, <6>3
          <6>. QED
            BY <2>n, <6>4
        <5>. QED
          BY <5>1, <5>2
      <4>2. Cardinality(Unpruned') \in Nat
        <5>1. Unpruned' \subseteq Begun'
          BY DEF Unpruned, Begun
        <5>. QED
          BY <3>2, <5>1, FS_Subset, FS_CardinalityType
      <4>. QED
        BY <2>n, <3>2, <4>1, <4>2 DEF LogInv
    <3>5. CASE ~LogAccess(s) /\ ~PruneLogs(s)
      <4>1. logs' = logs /\ Unpruned \subseteq Unpruned'
        BY <2>1, <3>1, <3>5, LogSteps DEF Unpruned
      <4>. QED
        BY <3>2, <4>1, LogKept
    <3>. QED
      BY <3>3, <3>4, <3>5
  <2>2. CASE (logs' = logs \/ logs' = <<>>) /\ sub' = sub
    <3>1. Begun' = Begun /\ Unpruned' = Unpruned
      BY <2>2 DEF Begun, Unpruned
    <3>. QED
      BY <2>0, <2>2, <3>1, LogKept
  <2>3. CASE Crash
    <3>1. \A s \in Subs : \/ sub'[s] = sub[s]
                          \/ sub[s].pc \notin SubEnded \cup {"idle"} /\ sub'[s].pc = "lost"
      BY <2>3 DEF Crash, Inv, WellCharged, SubType
    <3>2. Begun' = Begun /\ Unpruned \subseteq Unpruned'
      BY <3>1 DEF Begun, Unpruned
    <3>. QED
      BY <2>0, <2>3, <3>2, LogKept DEF Crash
  <2>. QED
    BY <2>1, <2>2, <2>3 DEF Next, ClearLogs, vars, subVars
<1>. QED
  BY <1>1, <1>2, InvInductive, PTL DEF Spec

\* The log outgrows its bound by requests between their insert and their prune
\* only, dead or alive.
THEOREM LogIsBounded == Spec => []LogBounded
<1>1. LogInv => LogBounded
  BY DEF LogInv, LogBounded, Unpruned
<1>. QED
  BY <1>1, LogInvHolds, PTL
=============================================================================
