----------------------------- MODULE SubHubStore -----------------------------
(***************************************************************************)
(* The SQLite database of sub-hub and the admin handlers that change it     *)
(* (db.go, db_tokens.go, db_collections.go, db_nodes.go, api.go).           *)
(*                                                                         *)
(* The pool has one connection, so a statement or a transaction is one step *)
(* and handlers are interleaved between them.  Four tables have the columns *)
(* id and enabled and are one function, row; the three association tables   *)
(* are one function, links.  Names, slugs, notes and orders are left out.   *)
(***************************************************************************)
EXTENDS Naturals, FiniteSets

CONSTANTS
  MasterIds, ChildIds, CollectionIds, NodeIds,  \* AUTOINCREMENT: never reused
  Born, Off,     \* the rows of the initial database; those that may be disabled
  SeedIds,       \* ids kept for the seed (bounds restarts without a master)
  Admins,        \* admin requests, each used once (bounds the load)
  AdminCalls,    \* the pairs <<call, kind>> they may ask for
  Switches,      \* values of enabled in requests
  Limits,        \* values of max_uses; 0 is unlimited
  Horizon,       \* bound on the clock
  Expiries,      \* values of expires_at; Never is none
  MaxFields,     \* bound on the fields that one request gives
  MaxRotations,  \* bound on RegenerateToken, per token
  Unset, None    \* a field that the request omits; no id

TokenIds == MasterIds \cup ChildIds
Owners == TokenIds \cup CollectionIds
Ids == Owners \cup NodeIds
Kinds == {"master", "child", "collection", "node"}
Table(k) == CASE k = "master" -> MasterIds
              [] k = "child" -> ChildIds
              [] k = "collection" -> CollectionIds
              [] k = "node" -> NodeIds
LinkTable(k) == IF k = "collection" THEN NodeIds
                ELSE IF k = "node" THEN {} ELSE CollectionIds
Calls == {"create", "update", "delete", "rotate"}
Never == Horizon + 1

ASSUME IdAssumption ==
  /\ MasterIds \cap (ChildIds \cup CollectionIds \cup NodeIds) = {}
  /\ ChildIds \cap (CollectionIds \cup NodeIds) = {}
  /\ CollectionIds \cap NodeIds = {}
  /\ None \notin Ids
  /\ Born \subseteq Ids \ SeedIds /\ SeedIds \subseteq MasterIds
ASSUME RequestAssumption ==
  /\ AdminCalls \subseteq (Calls \X {"master", "child"})
                          \cup ({"create", "update", "delete"} \X {"collection", "node"})
  /\ Switches \subseteq BOOLEAN
  /\ Limits \subseteq Nat /\ 0 \in Limits /\ MaxRotations \in Nat /\ MaxFields \in Nat
  /\ Horizon \in Nat /\ Expiries \subseteq 1 .. Never /\ Never \in Expiries
  /\ Unset \notin BOOLEAN /\ Unset \notin Nat
  /\ \A ids \in SUBSET Ids : Unset # ids

VARIABLES
  server,     \* "up" or "down"
  row,        \* "unborn", "on", "off" or "gone": a row and its enabled column
  links,      \* master_collections, child_collections, collection_nodes
  secret,     \* which of its successive secrets a token has
  max_uses,   \* child_tokens.max_uses
  expires_at, \* child_tokens.expires_at
  now,        \* the clock
  use_count,  \* child_tokens.use_count
  adm         \* the admin requests

tables == <<row, links, secret, max_uses, expires_at>>
storeVars == <<server, now, tables, use_count, adm>>

-----------------------------------------------------------------------------
Present(x) == row[x] \in {"on", "off"}
Field(applies, values) == {Unset} \cup (IF applies THEN values ELSE {})
Status(enabled) == IF enabled THEN "on" ELSE "off"
Given(field, default) == IF field = Unset THEN default ELSE field
Masters == {m \in MasterIds : Present(m)}

NoAdmin == [pc |-> "idle", call |-> "create", kind |-> "node", id |-> None,
            enabled |-> Unset, links |-> Unset, limit |-> Unset, until |-> Unset,
            was |-> FALSE, had |-> {}, limit_was |-> 0, until_was |-> Never, counted |-> {}]
AdmEnded == {"done", "failed", "lost"}

\* A database that administrators have filled, as OpenDB leaves it: foreign keys
\* hold, a child was given a collection, and there is a master.
Init ==
  /\ server = "up"
  /\ row \in [Ids -> {"unborn", "on", "off"}]
  /\ \A x \in Ids : x \in Born <=> Present(x)
  /\ \A x \in Ids : row[x] = "off" => x \in Off
  /\ links \in [Owners -> SUBSET (Born \cap (CollectionIds \cup NodeIds))]
  /\ \A k \in Kinds : \A x \in Table(k) \cap Owners :
       links[x] \subseteq {y \in LinkTable(k) : Present(x) /\ Present(y)}
  /\ \A c \in ChildIds : Present(c) => links[c] # {}
  /\ Masters # {}
  /\ secret = [t \in TokenIds |-> 0]
  /\ max_uses \in [ChildIds -> Limits]
  /\ expires_at \in [ChildIds -> Expiries]
  /\ now = 0
  /\ use_count = [c \in ChildIds |-> 0]
  /\ adm = [a \in Admins |-> NoAdmin]

-----------------------------------------------------------------------------
(* One admin request.  Go(a, pc) moves it on.                               *)

At(a, pc) == server = "up" /\ adm[a].pc = pc
Go(a, pc) == adm' = [adm EXCEPT ![a].pc = pc]
NotTables == UNCHANGED <<server, now, use_count>>

FirstStep(call, kind) ==
  CASE call = "create" -> "insert"
    [] call = "update" -> "read"
    [] call = "delete" -> IF kind \in {"master", "child"} THEN "count" ELSE "delete"
    [] call = "rotate" -> "rotate"

Request(call, kind, id, enabled, ls, limit, until) ==
  [NoAdmin EXCEPT !.pc = FirstStep(call, kind), !.call = call, !.kind = kind, !.id = id,
                  !.enabled = enabled, !.links = ls, !.limit = limit, !.until = until]

\* Bound: how many fields the JSON gives.
FewFields(fields) == Cardinality({i \in 1 .. 4 : fields[i] # Unset}) <= MaxFields

\* A decoded request of an enabled master.  A create needs no id; a field that
\* the JSON leaves out is Unset.
AdminArrive(a) ==
  /\ At(a, "idle")
  /\ \E m \in MasterIds : row[m] = "on"
  /\ \E call \in Calls, kind \in Kinds :
     LET writes == call \in {"create", "update"} IN
     /\ <<call, kind>> \in AdminCalls
     /\ \E id \in IF call = "create" THEN {None} ELSE Table(kind) :
        \E enabled \in Field(writes, Switches) :
        \E ls \in Field(writes /\ kind # "node", SUBSET LinkTable(kind)) :
        \E limit \in Field(writes /\ kind = "child", Limits) :
        \E until \in Field(writes /\ kind = "child", Expiries) :
          /\ FewFields(<<enabled, ls, limit, until>>)
          /\ adm' = [adm EXCEPT ![a] = Request(call, kind, id, enabled, ls, limit, until)]
  /\ NotTables /\ UNCHANGED tables

\* INSERT: CreateMasterToken, CreateChildToken, CreateCollection, CreateNode.
Insert(a) ==
  /\ At(a, "insert")
  /\ adm[a].kind = "child" => Given(adm[a].links, {}) # {}
  /\ \E x \in Table(adm[a].kind) \ SeedIds :
       /\ row[x] = "unborn"
       /\ row' = [row EXCEPT ![x] = Status(Given(adm[a].enabled, TRUE))]
       /\ adm' = [adm EXCEPT ![a].id = x, ![a].had = Given(adm[a].links, {}),
                             ![a].pc = IF x \in NodeIds THEN "done" ELSE "link"]
       /\ max_uses' = IF x \in ChildIds
                      THEN [max_uses EXCEPT ![x] = Given(adm[a].limit, 0)] ELSE max_uses
       /\ expires_at' = IF x \in ChildIds
                        THEN [expires_at EXCEPT ![x] = Given(adm[a].until, Never)] ELSE expires_at
  /\ NotTables /\ UNCHANGED <<links, secret>>

\* A child without collections is refused before anything is written.
InsertRefused(a) ==
  /\ At(a, "insert")
  /\ adm[a].kind = "child" /\ Given(adm[a].links, {}) = {}
  /\ Go(a, "failed")
  /\ NotTables /\ UNCHANGED tables

\* GetMasterToken, GetChildToken, GetCollection, GetNode: the row, then its links.
ReadRow(a) ==
  /\ At(a, "read")
  /\ IF Present(adm[a].id)
       THEN LET child == adm[a].id \in ChildIds IN
            adm' = [adm EXCEPT
              ![a].was = row[adm[a].id] = "on",
              ![a].limit_was = IF child THEN max_uses[adm[a].id] ELSE 0,
              ![a].until_was = IF child THEN expires_at[adm[a].id] ELSE Never,
              ![a].pc = IF adm[a].id \in NodeIds THEN "write" ELSE "readlinks"]
       ELSE Go(a, "failed")
  /\ NotTables /\ UNCHANGED tables

\* Mutant: links that the request omits are none.
Mut_ReadLinksDefaults(a) ==
  /\ At(a, "readlinks")
  /\ LET had == Given(adm[a].links, {}) IN
     adm' = [adm EXCEPT ![a].had = had,
                        ![a].pc = IF adm[a].kind = "child" /\ had = {}
                                  THEN "failed" ELSE "write"]
  /\ NotTables /\ UNCHANGED tables

\* Here a child that would end up without collections is refused.
ReadLinks(a) ==
  /\ At(a, "readlinks")
  /\ LET had == Given(adm[a].links, links[adm[a].id]) IN
     adm' = [adm EXCEPT ![a].had = had,
                        ![a].pc = IF adm[a].kind = "child" /\ had = {}
                                  THEN "failed" ELSE "write"]
  /\ NotTables /\ UNCHANGED tables

\* Mutant: a limit that the request omits is written as null.
Mut_UpdateAsGiven(a) ==
  /\ At(a, "write")
  /\ Present(adm[a].id)
  /\ row' = [row EXCEPT ![adm[a].id] = Status(Given(adm[a].enabled, adm[a].was))]
  /\ max_uses' = IF adm[a].id \in ChildIds
                 THEN [max_uses EXCEPT ![adm[a].id] = adm[a].limit] ELSE max_uses
  /\ Go(a, IF adm[a].kind = "node" THEN "done" ELSE "link")
  /\ NotTables /\ UNCHANGED <<links, secret, expires_at>>

\* Mutant: a limit that the request omits is set to the default of a create.
Mut_UpdateDefaults(a) ==
  /\ At(a, "write")
  /\ Present(adm[a].id)
  /\ row' = [row EXCEPT ![adm[a].id] = Status(Given(adm[a].enabled, adm[a].was))]
  /\ max_uses' = IF adm[a].id \in ChildIds
                 THEN [max_uses EXCEPT ![adm[a].id] = Given(adm[a].limit, 0)] ELSE max_uses
  /\ Go(a, IF adm[a].kind = "node" THEN "done" ELSE "link")
  /\ NotTables /\ UNCHANGED <<links, secret, expires_at>>

\* UPDATE of every column: what the request omits is written back as it was read.
\* A PUT of a collection without node_ids stops here, a PATCH does not.
Update(a) ==
  /\ At(a, "write")
  /\ Present(adm[a].id)
  /\ row' = [row EXCEPT ![adm[a].id] = Status(Given(adm[a].enabled, adm[a].was))]
  /\ max_uses' = IF adm[a].id \in ChildIds
                 THEN [max_uses EXCEPT ![adm[a].id] = Given(adm[a].limit, adm[a].limit_was)]
                 ELSE max_uses
  /\ expires_at' = IF adm[a].id \in ChildIds
                   THEN [expires_at EXCEPT ![adm[a].id] = Given(adm[a].until, adm[a].until_was)]
                   ELSE expires_at
  /\ \/ adm[a].kind # "node" /\ Go(a, "link")
     \/ (adm[a].kind = "node" \/ (adm[a].kind = "collection" /\ adm[a].links = Unset))
        /\ Go(a, "done")
  /\ NotTables /\ UNCHANGED <<links, secret>>

UpdateMissing(a) ==
  /\ At(a, "write")
  /\ ~Present(adm[a].id)
  /\ Go(a, "failed")
  /\ NotTables /\ UNCHANGED tables

\* SetTokenCollections, SetCollectionNodes: one transaction that replaces the
\* links, rolled back if a foreign key fails.
SetLinks(a) ==
  /\ At(a, "link")
  /\ IF adm[a].had = {} \/ (Present(adm[a].id) /\ \A y \in adm[a].had : Present(y))
       THEN links' = [links EXCEPT ![adm[a].id] = adm[a].had] /\ Go(a, "done")
       ELSE UNCHANGED links /\ Go(a, "failed")
  /\ NotTables /\ UNCHANGED <<row, secret, max_uses, expires_at>>

\* Mutant: the last master may be deleted.
Mut_CountAllowsLast(a) ==
  /\ At(a, "count")
  /\ IF adm[a].kind = "master" /\ Cardinality(Masters) < 1
       THEN Go(a, "failed")
       ELSE adm' = [adm EXCEPT ![a].pc = "delete", ![a].counted = Masters]
  /\ NotTables /\ UNCHANGED tables

\* DeleteToken counts first; only the count of masters matters.  counted is the set
\* that was counted, of which the code keeps the size.
CountTokens(a) ==
  /\ At(a, "count")
  /\ IF adm[a].kind = "master" /\ Cardinality(Masters) <= 1
       THEN Go(a, "failed")
       ELSE adm' = [adm EXCEPT ![a].pc = "delete", ![a].counted = Masters]
  /\ NotTables /\ UNCHANGED tables

\* Mutant: foreign keys are off, so nothing cascades to the rows that refer to x.
Mut_CascadeOwn(x) == [links EXCEPT ![x] = {}]

\* ON DELETE CASCADE, on both sides of an association.
Cascade(x) == [o \in Owners |-> IF o = x THEN {} ELSE links[o] \ {x}]

\* DELETE: DeleteToken, DeleteCollection, DeleteNode (and BulkNodes).
Delete(a) ==
  /\ At(a, "delete")
  /\ IF Present(adm[a].id)
       THEN /\ row' = [row EXCEPT ![adm[a].id] = "gone"]
            /\ links' = Cascade(adm[a].id)
            /\ Go(a, "done")
       ELSE UNCHANGED <<row, links>> /\ Go(a, "failed")
  /\ NotTables /\ UNCHANGED <<secret, max_uses, expires_at>>

RegenerateToken(a) ==
  /\ At(a, "rotate")
  /\ IF Present(adm[a].id)
       THEN /\ secret[adm[a].id] < MaxRotations
            /\ secret' = [secret EXCEPT ![adm[a].id] = @ + 1]
            /\ Go(a, "done")
       ELSE UNCHANGED secret /\ Go(a, "failed")
  /\ NotTables /\ UNCHANGED <<row, links, max_uses, expires_at>>

\* The client goes away: its context is cancelled and the next statement fails.
AdminCancel(a) ==
  /\ server = "up"
  /\ adm[a].pc \notin AdmEnded \cup {"idle"}
  /\ Go(a, "failed")
  /\ NotTables /\ UNCHANGED tables

AdminStep(a) ==
  \/ AdminArrive(a) \/ Insert(a) \/ InsertRefused(a) \/ ReadRow(a) \/ ReadLinks(a)
  \/ Update(a) \/ UpdateMissing(a) \/ SetLinks(a) \/ CountTokens(a) \/ Delete(a)
  \/ RegenerateToken(a) \/ AdminCancel(a)

-----------------------------------------------------------------------------
(* Time, and the process.                                                  *)

Tick ==
  /\ now < Horizon
  /\ now' = now + 1
  /\ UNCHANGED <<server, tables, use_count, adm>>

CrashAdmins ==
  adm' = [a \in Admins |-> IF adm[a].pc \in AdmEnded \cup {"idle"} THEN adm[a]
                           ELSE [adm[a] EXCEPT !.pc = "lost"]]

\* Mutant: only a database without any master, past or present, is seeded.
Mut_SeedFirstTimeOnly ==
  /\ \E m \in MasterIds : row[m] # "unborn"
  /\ UNCHANGED row

\* OpenDB's seed: a database without a master gets the one of MASTER_TOKEN.
Seed ==
  IF Masters # {} THEN UNCHANGED row
  ELSE \E m \in SeedIds : row[m] = "unborn" /\ row' = [row EXCEPT ![m] = "on"]

Boot ==
  /\ server = "down"
  /\ server' = "up"
  /\ Seed
  /\ UNCHANGED <<now, links, secret, max_uses, expires_at, use_count, adm>>

-----------------------------------------------------------------------------
(* Properties of the store.                                                *)

AdmSteps == {"idle", "insert", "read", "readlinks", "write", "link", "count", "delete", "rotate"}
            \cup AdmEnded
AdmType ==
  [pc : AdmSteps,
   call : Calls, kind : Kinds, id : Ids \cup {None},
   enabled : BOOLEAN \cup {Unset}, links : {Unset} \cup SUBSET Ids,
   limit : Limits \cup {Unset}, until : Expiries \cup {Unset},
   was : BOOLEAN, had : SUBSET Ids, limit_was : Limits, until_was : Expiries,
   counted : SUBSET MasterIds]

StoreTypeOK ==
  /\ server \in {"up", "down"}
  /\ row \in [Ids -> {"unborn", "on", "off", "gone"}]
  /\ links \in [Owners -> SUBSET Ids]
  /\ secret \in [TokenIds -> 0 .. MaxRotations]
  /\ max_uses \in [ChildIds -> Limits]
  /\ expires_at \in [ChildIds -> Expiries]
  /\ now \in 0 .. Horizon
  /\ use_count \in [ChildIds -> Nat]
  /\ adm \in [Admins -> AdmType]

\* The association tables never name a row that is gone, although links are
\* computed from rows read several statements earlier: a request that lost such a
\* race is rolled back, and a delete takes the links of both sides with it.
ForeignKeys ==
  \A k \in Kinds : \A x \in Table(k) \cap Owners :
    links[x] \subseteq {y \in LinkTable(k) : Present(x) /\ Present(y)}

\* subhub_test.go expects an update that does not mention max_uses to preserve it.
\* The row is read and written in two statements, so such an update can put an old
\* limit back, but only over that of another update which it has crossed.
LimitIsAskedFor ==
  \A c \in ChildIds :
    max_uses'[c] # max_uses[c] =>
      \E a \in Admins :
        \/ adm[a].pc = "insert" /\ adm'[a].id = c
        \/ /\ adm[a].pc = "write" /\ adm[a].id = c
           /\ adm[a].limit = Unset =>
                \E b \in Admins : /\ adm[b].call = "update" /\ adm[b].id = c
                                   /\ adm[b].limit # Unset
                                   /\ adm[b].pc \notin {"idle", "read", "readlinks", "write"}
LimitKeptUnlessCrossed == [][LimitIsAskedFor]_storeVars

\* A master without collections may use all of them (auth.go).  One that is confined
\* to some loses its confinement only if a request sets it to none, if its only
\* collection is deleted, or if an update that leaves the collections alone puts back
\* the empty list that it had read before another request confined the master.
ConfinementIsLifted ==
  \A m \in MasterIds :
    links[m] # {} /\ links'[m] = {} /\ row'[m] # "gone"
    => \E a \in Admins :
         \/ /\ adm[a].pc = "delete" /\ adm[a].kind = "collection"
            /\ links[m] = {adm[a].id}
         \/ /\ adm[a].pc = "link" /\ adm[a].id = m
            /\ adm[a].links = Unset =>
                 \E b \in Admins : adm[b].id = m /\ adm[b].had # {} /\ adm[b].pc = "done"
ConfinementKept == [][ConfinementIsLifted]_storeVars

\* A step that takes the last master had counted a master that is deleted since.
LastMasterIsRaced ==
  Masters # {} /\ Masters' = {}
  => \E a, b \in Admins :
       /\ adm[a].pc = "delete" /\ adm'[a].pc = "done"
       /\ adm[b].pc = "done" /\ adm[b].call = "delete" /\ adm[b].id \in adm[a].counted

\* "At least one master token must remain": counting and deleting are two
\* statements, so a request can take the last master, but only if another delete
\* took one of those that it had counted in between.
LastMasterNeedsARace == [][LastMasterIsRaced]_storeVars
=======================================================
