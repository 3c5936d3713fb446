-------------------------- MODULE SubHubSubscription --------------------------
(***************************************************************************)
(* Subscription requests of sub-hub against the store and its administrators *)
(* (server.go, auth.go, subscription.go, and the queries of db_tokens.go,    *)
(* db_collections.go and db_misc.go that they make, one step each).          *)
(***************************************************************************)
EXTENDS SubHubStore, Sequences

CONSTANTS
  Subs,         \* subscription requests, each used once (bounds the load)
  Asks,         \* what clients ask for: a token, collections ({} is no filter), a target
  LegacyNodes,  \* what NODES and NODES_FILE hold
  LogMax        \* LoggerMaxRecords

ASSUME SubscriptionAssumption ==
  /\ Asks \subseteq [tok : TokenIds, want : SUBSET CollectionIds, convert : BOOLEAN]
  /\ LegacyNodes \cap NodeIds = {}
  /\ LogMax \in Nat \ {0}

VARIABLES
  sub,   \* the subscription requests
  logs   \* access_logs, oldest first: the request that each entry is about

subVars == <<sub, logs>>
vars == <<storeVars, subVars>>

NoSub == [pc |-> "idle", tok |-> None, secret |-> 0, want |-> {}, convert |-> FALSE,
          cols |-> {}, ids |-> {}, uris |-> {}, charged |-> FALSE, status |-> 0]
SubEnded == {"done", "rejected", "lost"}

SInit == Init /\ sub = [s \in Subs |-> NoSub] /\ logs = <<>>

SubAt(s, pc) == server = "up" /\ sub[s].pc = pc
Answer(s, status) == sub' = [sub EXCEPT ![s] = [@ EXCEPT !.pc = "log", !.status = status]]
NotStore == UNCHANGED storeVars

\* /sub and /s/: a token that some client holds, current or rotated away, the
\* collections it names and whether it gives a target.
SubArrive(s) ==
  /\ SubAt(s, "idle")
  /\ \E ask \in Asks : \E g \in 0 .. secret[ask.tok] :
       sub' = [sub EXCEPT ![s] = [NoSub EXCEPT !.pc = "auth", !.tok = ask.tok, !.secret = g,
                                               !.want = ask.want, !.convert = ask.convert]]
  /\ NotStore /\ UNCHANGED logs

WithinLimit(c) == max_uses[c] = 0 \/ use_count[c] < max_uses[c]

\* The clock has seconds.  Within the second of expires_at either may be found to be
\* the later one: the charge compares RFC3339Nano texts, whose fraction loses its
\* trailing zeros, so that ".5Z" is greater than ".51Z".
Usable(c, later) ==
  /\ row[c] = "on" /\ WithinLimit(c)
  /\ expires_at[c] > now \/ (expires_at[c] = now /\ later)

\* Authenticate: the row of the token's hash, and validateSubscriptionUse.
Authenticate(s) ==
  /\ SubAt(s, "auth")
  /\ \E later \in BOOLEAN :
     LET t == sub[s].tok
         accepted == /\ row[t] = "on" /\ secret[t] = sub[s].secret
                     /\ t \in ChildIds => Usable(t, later)
     IN sub' = [sub EXCEPT ![s].pc = IF accepted THEN "grants" ELSE "rejected"]
  /\ NotStore /\ UNCHANGED logs

\* tokenCollectionIDs, a query of its own.
ReadGrants(s) ==
  /\ SubAt(s, "grants")
  /\ sub' = [sub EXCEPT ![s].cols = links[sub[s].tok], ![s].pc = "resolve"]
  /\ NotStore /\ UNCHANGED logs

\* collectionAllowed: a master without collections may use all of them.
Allowed(s, k) == k \in sub[s].cols \/ (sub[s].tok \in MasterIds /\ sub[s].cols = {})

\* ResolveCollectionIDs: of the enabled collections that are allowed, the wanted
\* ones; wanting nothing in particular is wanting all, and finding none is fine.
ResolveCollectionIDs(s) ==
  /\ SubAt(s, "resolve")
  /\ LET accessible == {k \in CollectionIds : row[k] = "on" /\ Allowed(s, k)}
         ids == IF sub[s].want = {} THEN accessible ELSE accessible \cap sub[s].want
     IN IF ids = {} /\ sub[s].want # {}
          THEN Answer(s, 403)
          ELSE sub' = [sub EXCEPT ![s].ids = ids, ![s].pc = "nodes"]
  /\ NotStore /\ UNCHANGED logs

\* NodeURIsForCollections: no ids at all means every enabled node.
NodeURIs(ids) ==
  {n \in NodeIds : row[n] = "on" /\ (ids = {} \/ \E k \in ids : n \in links[k])}

\* The nodes; a master falls back on the legacy ones.  No nodes: 404.
ReadNodes(s) ==
  /\ SubAt(s, "nodes")
  /\ LET found == NodeURIs(sub[s].ids)
         uris == IF found = {} /\ sub[s].tok \in MasterIds THEN LegacyNodes ELSE found
     IN IF uris = {}
          THEN Answer(s, 404)
          ELSE sub' = [sub EXCEPT ![s].uris = uris,
                                  ![s].pc = IF sub[s].tok \in ChildIds THEN "consume" ELSE "write"]
  /\ NotStore /\ UNCHANGED logs

\* Mutants: the limit that Authenticate checked is not checked again; the
\* standing of the token is not.
Mut_ConsumeUnchecked(s) ==
  /\ SubAt(s, "consume")
  /\ LET c == sub[s].tok IN
     IF row[c] = "on" /\ expires_at[c] > now
       THEN /\ use_count' = [use_count EXCEPT ![c] = @ + 1]
            /\ sub' = [sub EXCEPT ![s].charged = TRUE, ![s].pc = "write"]
       ELSE UNCHANGED use_count /\ Answer(s, 403)
  /\ UNCHANGED <<server, now, tables, adm, logs>>

Mut_ConsumeAnyRow(s) ==
  /\ SubAt(s, "consume")
  /\ LET c == sub[s].tok IN
     IF Present(c) /\ WithinLimit(c)
       THEN /\ use_count' = [use_count EXCEPT ![c] = @ + 1]
            /\ sub' = [sub EXCEPT ![s].charged = TRUE, ![s].pc = "write"]
       ELSE UNCHANGED use_count /\ Answer(s, 403)
  /\ UNCHANGED <<server, now, tables, adm, logs>>

\* ConsumeChildUse: one conditional UPDATE.
ConsumeChildUse(s) ==
  /\ SubAt(s, "consume")
  /\ \E later \in BOOLEAN : LET c == sub[s].tok IN
     IF Usable(c, later)
       THEN /\ use_count' = [use_count EXCEPT ![c] = @ + 1]
            /\ sub' = [sub EXCEPT ![s].charged = TRUE, ![s].pc = "write"]
       ELSE UNCHANGED use_count /\ Answer(s, 403)
  /\ UNCHANGED <<server, now, tables, adm, logs>>

\* No target: the nodes that were read are the answer.
WriteRaw(s) ==
  /\ SubAt(s, "write") /\ ~sub[s].convert
  /\ Answer(s, 200)
  /\ NotStore /\ UNCHANGED logs

\* A target: subconverter fetches /internal/nodes, which queries once more, and
\* converts what it gets; it refuses an empty list.
WriteConverted(s) ==
  /\ SubAt(s, "write") /\ sub[s].convert
  /\ LET uris == NodeURIs(sub[s].ids) IN
     IF uris = {} THEN Answer(s, 400)
     ELSE sub' = [sub EXCEPT ![s].uris = uris, ![s].status = 200, ![s].pc = "log"]
  /\ NotStore /\ UNCHANGED logs

\* Subconverter is down, fails, or takes longer than forty seconds.
ConverterFails(s) ==
  /\ SubAt(s, "write") /\ sub[s].convert
  /\ Answer(s, 502)
  /\ NotStore /\ UNCHANGED logs

\* LogAccess, once the answer is out: insert, then prune to the newest entries.
LogAccess(s) ==
  /\ SubAt(s, "log")
  /\ logs' = Append(logs, s)
  /\ sub' = [sub EXCEPT ![s].pc = "prune"]
  /\ NotStore

\* Mutant: LIMIT one too many.
Mut_PruneOneMore(s) ==
  /\ SubAt(s, "prune")
  /\ logs' = IF Len(logs) <= LogMax + 1 THEN logs
             ELSE SubSeq(logs, Len(logs) - LogMax, Len(logs))
  /\ sub' = [sub EXCEPT ![s].pc = "done"]
  /\ NotStore

PruneLogs(s) ==
  /\ SubAt(s, "prune")
  /\ logs' = IF Len(logs) <= LogMax THEN logs
             ELSE SubSeq(logs, Len(logs) - LogMax + 1, Len(logs))
  /\ sub' = [sub EXCEPT ![s].pc = "done"]
  /\ NotStore

\* The three seconds of logSubscription are over: the error is ignored.
LogTimesOut(s) ==
  /\ server = "up" /\ sub[s].pc \in {"log", "prune"}
  /\ sub' = [sub EXCEPT ![s].pc = "lost"]
  /\ NotStore /\ UNCHANGED logs

\* The client goes away: the next query fails, and is logged unless it belongs to
\* the authentication.
SubCancel(s) ==
  /\ server = "up"
  /\ \/ /\ sub[s].pc \in {"auth", "grants"}
        /\ sub' = [sub EXCEPT ![s].pc = "rejected"]
     \/ /\ sub[s].pc \in {"resolve", "consume"}
        /\ Answer(s, 403)
     \/ /\ sub[s].pc = "nodes"
        /\ Answer(s, 500)
  /\ NotStore /\ UNCHANGED logs

SubStep(s) ==
  \/ SubArrive(s) \/ Authenticate(s) \/ ReadGrants(s) \/ ResolveCollectionIDs(s)
  \/ ReadNodes(s) \/ ConsumeChildUse(s) \/ WriteRaw(s) \/ WriteConverted(s)
  \/ ConverterFails(s) \/ LogAccess(s) \/ PruneLogs(s) \/ LogTimesOut(s) \/ SubCancel(s)

ClearLogs == server = "up" /\ logs' = <<>> /\ UNCHANGED <<storeVars, sub>>

\* The process dies between two statements.
Crash ==
  /\ server = "up"
  /\ server' = "down"
  /\ CrashAdmins
  /\ sub' = [s \in Subs |-> IF sub[s].pc \in SubEnded \cup {"idle"} THEN sub[s]
                            ELSE [sub[s] EXCEPT !.pc = "lost"]]
  /\ UNCHANGED <<now, tables, use_count, logs>>

Next ==
  \/ (Tick \/ Boot \/ \E a \in Admins : AdminStep(a)) /\ UNCHANGED subVars
  \/ (\E s \in Subs : SubStep(s)) \/ ClearLogs \/ Crash

Spec == SInit /\ [][Next]_vars
-----------------------------------------------------------------------------
(* Properties.                                                             *)

SubSteps == {"idle", "auth", "grants", "resolve", "nodes", "consume", "write", "log", "prune"}
            \cup SubEnded
Statuses == {0, 200, 400, 403, 404, 500, 502}
SubType ==
  [pc : SubSteps,
   tok : TokenIds \cup {None}, secret : 0 .. MaxRotations, want : SUBSET CollectionIds,
   convert : BOOLEAN, cols : SUBSET Ids, ids : SUBSET CollectionIds,
   uris : SUBSET (NodeIds \cup LegacyNodes), charged : BOOLEAN,
   status : Statuses]

TypeOK ==
  /\ StoreTypeOK
  /\ sub \in [Subs -> SubType]
  /\ logs \in Seq(Subs)

\* Subscriptions handed out to clients of child token c.
Delivered(c) == {s \in Subs : sub[s].tok = c /\ sub[s].status = 200}

\* However many requests pass validateSubscriptionUse together while one use is
\* left, a child token whose limit nobody edits yields no more subscriptions than
\* max_uses.
QuotaKept ==
  \A c \in ChildIds :
    /\ max_uses[c] # 0
    /\ \A a \in Admins : adm[a].id = c => adm[a].call # "update"
    => Cardinality(Delivered(c)) <= max_uses[c]

\* The whole service implements the quota, limits that are edited, crashes and
\* abandoned requests included.  A child is in good standing while its row is enabled
\* and the second of its expires_at is not over.
Quota ==
  INSTANCE UsageQuota WITH
    Children <- ChildIds, Requests <- Subs,
    limit <- max_uses, used <- use_count,
    standing <- {c \in ChildIds : row[c] = "on" /\ now <= expires_at[c]},
    passes <- {<<sub[s].tok, s>> : s \in {r \in Subs : sub[r].charged}}
QuotaSpec == Quota!Spec

\* access_logs outgrows LogMax only by requests that have yet to prune, or that
\* were cut off before they could.
LogBounded ==
  Len(logs) <= LogMax + Cardinality({s \in Subs : sub[s].pc \in {"prune", "lost"}})

\* A restart lets the administrator back in when no master token is left.
RestartRevives == [][server = "down" /\ server' = "up" => Masters' # {}]_vars

\* README: "a child token can only access its authorised collections".  Stated of
\* a database at rest.  The code breaks this: a child whose collections are all
\* disabled, or deleted, resolves to no id, and no id means every node.
ChildConfined ==
  \A s \in Subs :
    sub[s].tok \in ChildIds /\ sub[s].status = 200
    => sub[s].uris \subseteq UNION {links[k] : k \in sub[s].cols}
=============================================================================
