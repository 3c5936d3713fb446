------------------------------- MODULE Settings -------------------------------
(***************************************************************************)
(* The settings of tgstate-rust, column by column, and who may change them: *)
(* the row of app_settings, the handlers that read it, change it in memory  *)
(* and write all of it back (routes/api_settings.rs, routes/api_auth.rs),   *)
(* the session that the row holds (auth.rs) and the check of every request  *)
(* against it (middleware/auth.rs, config.rs).  What applying the settings  *)
(* does to the bot is BotLifecycle's concern.                               *)
(*                                                                         *)
(* A password stands for its hash; a session token is the number of the     *)
(* token in the order of drawing, 0 is none.                                *)
(***************************************************************************)
EXTENDS Naturals, Sequences, FiniteSets

CONSTANTS
  Browsers,     \* clients, each with a cookie jar
  Requests,     \* requests for settings, each used once (bounds the load)
  Passwords, Keys, Confs,   \* values of PASS_WORD, of PICGO_API_KEY, of the columns
                            \* that validate_config looks at
  BadConfs,     \* those that it rejects
  None,         \* NULL, or not set
  Absent,       \* a field that a request does not have
  Payloads,     \* bodies of requests: [pass, key, conf]
  Environments, \* what the process may be started with: [pass, key, conf]
  DbMayFail     \* whether a database call may fail

ASSUME SettingsConstants ==
  /\ Browsers # {} /\ BadConfs \subseteq Confs /\ None \notin Passwords \cup Keys \cup Confs
  /\ Absent \notin Passwords \cup Keys \cup Confs \cup {None}
  /\ Payloads \subseteq [pass: Passwords \cup {None, Absent}, key: Keys \cup {None, Absent},
                         conf: Confs \cup {None, Absent}]
  /\ Environments \subseteq [pass: Passwords \cup {None}, key: Keys \cup {None},
                             conf: Confs \cup {None}]
  /\ DbMayFail \in BOOLEAN

VARIABLES
  env,      \* Settings::from_env
  row,      \* the row of app_settings: [pass, session, key, conf]
  backup,   \* the row in the backup that a client has got last
  issued,   \* history: for each token the password it was drawn for, and whether the
            \* request that drew it was crossed by another or could not read
  req,      \* each request: what it has read, what it will write; crossed, late, blind
            \* are history: overtaken before it wrote, after it read; a failed read
  jar       \* the session cookie of each browser, or 0

settingsVars == <<env, row, backup, issued, req, jar>>

Empty == [pass |-> None, session |-> 0, key |-> None, conf |-> None]
Waiting == [pc |-> "idle", op |-> "none", by |-> CHOOSE c \in Browsers : TRUE, new |-> Empty,
            body |-> [pass |-> Absent, key |-> Absent, conf |-> Absent], token |-> 0,
            seen |-> 0, ok |-> FALSE, crossed |-> FALSE, late |-> FALSE, blind |-> FALSE]

SettingsInit ==
  /\ env \in Environments
  /\ row = Empty /\ backup = Empty /\ issued = <<>>
  /\ req = [r \in Requests |-> Waiting]
  /\ jar = [c \in Browsers |-> 0]

-----------------------------------------------------------------------------
(* Reading the settings: read says whether the database answers.           *)

Reads == IF DbMayFail THEN BOOLEAN ELSE {TRUE}

\* get_active_password: the database first, then the environment.
ActivePassword(read) == IF read /\ row.pass # None THEN row.pass ELSE env.pass

\* get_app_settings: a column that is NULL hides the environment's value and there is
\* always a row, so the environment counts only when the database fails.
AppSettings(read) ==
  IF read THEN row
  ELSE [pass |-> env.pass, session |-> 0, key |-> env.key, conf |-> env.conf]

\* check_session.
CheckSession(cookie, read) ==
  /\ ActivePassword(read) # None
  /\ AppSettings(read).session # 0 /\ cookie = AppSettings(read).session

\* auth_middleware, beyond the paths that are always public.  Before a password is
\* set every path passes: one of the onboarding paths is "/", the prefix of them all.
Passes(cookie, read) == ActivePassword(read) = None \/ CheckSession(cookie, read)

\* Mutant: without a password there is nothing to check.
Mut_EnsurePasswordOnly(cookie, key, read) ==
  LET s == AppSettings(read)
      session == cookie # 0 /\ cookie = s.session
  IN s.pass = None \/ session \/ (s.key # None /\ key = s.key)

\* ensure_upload_auth.
EnsureUploadAuth(cookie, key, read) ==
  LET s == AppSettings(read)
      session == cookie # 0 /\ cookie = s.session
  IN \/ s.pass = None /\ s.key = None
     \/ s.pass # None /\ session
     \/ s.key # None /\ key = s.key

-----------------------------------------------------------------------------
(* A request: the middleware, then the handler's reading, writing, answer.  *)

ReadsFirst == {"login", "password", "save", "apply"}
Ops == ReadsFirst \cup {"reset", "import", "export", "logout"}

At(r, pc) == req[r].pc = pc
Become(r, q) == req' = [req EXCEPT ![r] = q]

\* login: it verifies the password, then draws a token.
Login(r, c, body) ==
  \E read \in Reads :
    /\ IF ActivePassword(read) # None /\ body.pass = ActivePassword(read)
       THEN /\ issued' = Append(issued, [pass |-> body.pass, raced |-> ~ read])
            /\ Become(r, [Waiting EXCEPT !.pc = "read", !.op = "login", !.by = c,
                                         !.token = Len(issued) + 1])
       ELSE /\ Become(r, [Waiting EXCEPT !.pc = "refused", !.op = "login", !.by = c])
            /\ UNCHANGED issued
    /\ UNCHANGED <<env, row, backup, jar>>

\* logout: it only clears the cookie.
Logout(r, c) ==
  /\ Become(r, [Waiting EXCEPT !.pc = "answer", !.op = "logout", !.by = c, !.ok = TRUE])
  /\ UNCHANGED <<env, row, backup, issued, jar>>

\* The other handlers are behind the session.  seen is the token that the middleware
\* will issue again with the answer.
Call(r, c, op, body) ==
  \E read \in Reads :
    /\ Become(r, [Waiting EXCEPT
         !.pc = IF ~ Passes(jar[c], read) THEN "refused"
                ELSE IF op \in ReadsFirst THEN "read" ELSE "write",
         !.op = op, !.by = c, !.body = body,
         !.seen = IF CheckSession(jar[c], read) THEN jar[c] ELSE 0])
    /\ UNCHANGED <<env, row, backup, issued, jar>>

\* set_opt!: a field that is there replaces the column, an empty one clears it.
Put(old, field) == IF field = Absent THEN old ELSE field

\* Mutant: a key that the request does not have is dropped.
Mut_MergeDropsKey(base, body, token) ==
  [pass    |-> Put(base.pass, body.pass), key |-> Put(None, body.key),
   conf    |-> Put(base.conf, body.conf),
   session |-> IF body.pass = Absent THEN base.session
               ELSE IF body.pass = None THEN 0 ELSE token]

\* merge_config: a password comes with a new session, no password with none.
MergeConfig(base, body, token) ==
  [pass    |-> Put(base.pass, body.pass), key |-> Put(base.key, body.key),
   conf    |-> Put(base.conf, body.conf),
   session |-> IF body.pass = Absent THEN base.session
               ELSE IF body.pass = None THEN 0 ELSE token]

\* Mutant: set_password keeps the session that there is.
Mut_PasswordKeepsSession(q, base, token) ==
  CASE q.op = "login"    -> [base EXCEPT !.session = q.token]
    [] q.op = "password" -> [base EXCEPT !.pass = q.body.pass]
    [] OTHER             -> MergeConfig(base, q.body, token)

\* Mutant: a login keeps the session that there is.
Mut_LoginKeepsSession(q, base, token) ==
  CASE q.op = "login"    -> IF base.session # 0 THEN base ELSE [base EXCEPT !.session = q.token]
    [] q.op = "password" -> [base EXCEPT !.pass = q.body.pass, !.session = token]
    [] OTHER             -> MergeConfig(base, q.body, token)

\* The row that a handler is going to write, from what it has read.
NewRow(q, base, token) ==
  CASE q.op = "login"    -> [base EXCEPT !.session = q.token]
    [] q.op = "password" -> [base EXCEPT !.pass = q.body.pass, !.session = token]
    [] OTHER             -> MergeConfig(base, q.body, token)

Draws(q) == q.op \in {"password", "save", "apply"} /\ q.body.pass \notin {None, Absent}

\* get_app_settings_from_db, unwrap_or_default: a failed read counts as an empty row.
\* save_config_only and save_and_apply then validate the merged columns.
Read(r) ==
  /\ At(r, "read")
  /\ \E read \in Reads :
       LET q == req[r]
           new == NewRow(q, IF read THEN row ELSE Empty, Len(issued) + 1)
       IN /\ IF q.op \in {"save", "apply"} /\ new.conf \in BadConfs
             THEN Become(r, [q EXCEPT !.pc = "answer"])
             ELSE Become(r, [q EXCEPT !.pc = "write", !.new = new, !.blind = ~ read])
          /\ issued' = IF Draws(q) THEN Append(issued, [pass |-> q.body.pass, raced |-> FALSE])
                       ELSE issued
  /\ UNCHANGED <<env, row, backup, jar>>

\* Requests, after r has written the row: what the others have read is old now.
Overtaken(r, q) ==
  [u \in Requests |->
     IF u = r THEN q
     ELSE [req[u] EXCEPT !.crossed = @ \/ req[u].pc \in {"read", "write"},
                         !.late    = @ \/ req[u].pc \in {"write", "answer", "done"}]]

\* save_app_settings_to_db, reset_app_settings_in_db, or restore over the database.
Write(r) ==
  /\ At(r, "write") /\ req[r].op # "export"
  /\ LET q == req[r] IN
     \/ /\ row' = CASE q.op = "reset" -> Empty [] q.op = "import" -> backup [] OTHER -> q.new
        /\ req' = Overtaken(r, [q EXCEPT !.pc = "answer", !.ok = TRUE])
        /\ issued' = IF q.op = "login"
                     THEN [issued EXCEPT ![q.token].raced = @ \/ q.crossed \/ q.blind]
                     ELSE issued
     \/ /\ DbMayFail
        /\ Become(r, [q EXCEPT !.pc = "answer", !.ok = (q.op = "reset")])
        /\ UNCHANGED <<row, issued>>
  /\ UNCHANGED <<env, backup, jar>>

\* copy_live_database_to_backup, and the answer with the file.  If it fails the client
\* has what it had; the copy of the server, which is gone by then, is not read again.
Export(r) ==
  /\ At(r, "write") /\ req[r].op = "export"
  /\ \/ backup' = row /\ Become(r, [req[r] EXCEPT !.pc = "answer", !.ok = TRUE])
     \/ DbMayFail /\ Become(r, [req[r] EXCEPT !.pc = "answer"]) /\ UNCHANGED backup
  /\ UNCHANGED <<env, row, issued, jar>>

\* The cookie that the handler's answer sets, or leaves.
Given(q) ==
  CASE ~ q.ok                        -> jar[q.by]
    [] q.op = "login"                -> q.token
    [] q.op = "apply"                -> IF q.new.pass # None THEN q.new.session ELSE 0
    [] q.op \in {"reset", "logout"}  -> 0
    [] OTHER                         -> jar[q.by]

\* The answer, to which the middleware appends the token it has seen: a browser keeps
\* the last of two cookies of one name.
Answer(r) ==
  /\ At(r, "answer")
  /\ LET q == req[r] IN
     /\ jar' = [jar EXCEPT ![q.by] = IF q.seen # 0 THEN q.seen ELSE Given(q)]
     /\ req' = [u \in Requests |->
                  IF u = r THEN [q EXCEPT !.pc = "done", !.new = Empty, !.token = 0,
                                          !.body = Waiting.body]
                  ELSE [req[u] EXCEPT !.late = @ \/ (req[u].pc = "done" /\ req[u].by = q.by)]]
  /\ UNCHANGED <<env, row, backup, issued>>

-----------------------------------------------------------------------------
(* Properties.                                                             *)

SettingsTypeOK ==
  /\ \A x \in {row, backup} :
       /\ x.pass \in Passwords \cup {None} /\ x.key \in Keys \cup {None}
       /\ x.conf \in Confs \cup {None} /\ x.session \in 0..Len(issued)
  /\ \A c \in Browsers : jar[c] \in 0..Len(issued)
  /\ \A r \in Requests : req[r].token \in 0..Len(issued) /\ req[r].by \in Browsers

\* The columns that a request is about.
Named(q) ==
  (IF q.op = "login" THEN {"session"} ELSE {})
  \cup (IF q.op = "password" THEN {"pass", "session"} ELSE {})
  \cup {f \in {"pass", "key", "conf"} : q.body[f] # Absent}
  \cup (IF q.body.pass # Absent THEN {"session"} ELSE {})

\* A column changes only through a request that is about it, or through a reset or an
\* import of all of them, unless the request that changed it could not read the row or
\* another one has written since it did: nothing else loses a setting.
ColumnsKept ==
  [][\A f \in DOMAIN row : row'[f] # row[f] =>
       \E r \in Requests : LET q == req[r] IN
         /\ q.pc = "write" /\ req'[r].pc = "answer"
         /\ q.op \in {"reset", "import"} \/ f \in Named(q) \/ q.late \/ q.blind]_settingsVars

\* "rotating the password (or re-logging in) invalidates prior sessions": the session in
\* force was drawn for the password in force, whatever was saved, reset or imported in
\* between, unless a login was crossed by another request or could not read.
SessionOfPassword ==
  row.session # 0 =>
    issued[row.session].raced \/ issued[row.session].pass = ActivePassword(TRUE)

\* A visitor without session and key gets through middleware and handler.
UploadsOpen == Passes(0, TRUE) /\ EnsureUploadAuth(0, None, TRUE)

\* Uploads that are closed to visitors, by a password in the row or the environment or
\* by a key in the row, are opened only by a reset, an import, or a save that clears
\* whichever of the two the row has, and by none of these under a password of the
\* environment; or by a request that was overtaken after its read or could not read.
\* (A key that only the environment has closes nothing: the NULL column hides it.)
UploadsStayClosed ==
  [][~ UploadsOpen /\ UploadsOpen' =>
       /\ env.pass = None
       /\ \E r \in Requests : LET q == req[r] IN
            /\ q.pc = "write" /\ req'[r].pc = "answer"
            /\ \/ q.op \in {"reset", "import"} \/ q.late \/ q.blind
               \/ \A f \in {"pass", "key"} : row[f] # None => q.body[f] = None
    ]_settingsVars

\* Who has logged in is signed in until the row is written again or the browser gets
\* another answer.
LoginSignsIn ==
  \A r \in Requests : LET q == req[r] IN
    q.pc = "done" /\ q.op = "login" /\ q.ok /\ ~ q.late /\ ~ q.blind => jar[q.by] = row.session

\* "so active users stay logged in indefinitely": who applies settings while signed in
\* is signed in afterwards.
ApplyStaysSignedIn ==
  \A r \in Requests : LET q == req[r] IN
    q.pc = "done" /\ q.op = "apply" /\ q.ok /\ q.seen # 0 /\ ~ q.late /\ row.pass # None =>
      jar[q.by] = row.session
=============================================================================
