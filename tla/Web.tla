--------------------------------- MODULE Web ---------------------------------
(***************************************************************************)
(* A request to tgstate-rust on its way in (main.rs): the rate limiter, the *)
(* session check, the handler.                                             *)
(***************************************************************************)
EXTENDS RateLimit, Settings

CONSTANTS
  Loads   \* what clients may do: [ops, ticks, attempts], the last two are bounds

ASSUME WebConstants ==
  /\ Browsers \subseteq Clients /\ Buckets = {"login", "api"}
  /\ \A l \in Loads : l.ops \subseteq Ops /\ l.ticks \in Nat /\ l.attempts \in Nat

VARIABLE load

vars == <<limiterVars, settingsVars, load>>

Init == RateInit /\ SettingsInit /\ load \in Loads

Bucket(op) == IF op = "login" THEN "login" ELSE "api"

\* A settings request of browser c arrives.
Arrive(r, c, op, body) ==
  /\ At(r, "idle") /\ op \in load.ops
  /\ op \in {"login", "password"} => body.pass \in Passwords
  /\ \/ /\ Checked(Bucket(op), c, TRUE)
        /\ CASE op = "login"  -> Login(r, c, body)
             [] op = "logout" -> Logout(r, c)
             [] OTHER         -> Call(r, c, op, body)
     \/ /\ Checked(Bucket(op), c, FALSE)
        /\ Become(r, [Waiting EXCEPT !.pc = "refused", !.op = op, !.by = c])
        /\ UNCHANGED <<env, row, backup, issued, jar>>
  /\ UNCHANGED load

\* An attempt to log in with some wrong password: it is counted and leads nowhere.
Attempt(c) ==
  /\ load.attempts > 0
  /\ load' = [load EXCEPT !.attempts = @ - 1]
  /\ \E ok \in BOOLEAN : Checked("login", c, ok)
  /\ UNCHANGED settingsVars

Pass ==
  /\ load.ticks > 0
  /\ load' = [load EXCEPT !.ticks = @ - 1]
  /\ Tick
  /\ UNCHANGED settingsVars

\* The body of each operation: a password for login and set_password, fields for save.
BodiesOf(op) ==
  CASE op \in {"save", "apply"}     -> Payloads
    [] op \in {"login", "password"} -> {b \in Payloads : b.pass \in Passwords
                                                         /\ b.key = Absent /\ b.conf = Absent}
    [] OTHER                        -> {Waiting.body}

Next ==
  \/ \E r \in Requests, c \in Browsers, op \in Ops : \E body \in BodiesOf(op) :
       Arrive(r, c, op, body)
  \/ \E r \in Requests :
       (Read(r) \/ Write(r) \/ Export(r) \/ Answer(r)) /\ UNCHANGED <<limiterVars, load>>
  \/ \E c \in Clients : Attempt(c)
  \/ Pass
  \/ \E b \in Buckets : Clean(b) /\ UNCHANGED <<settingsVars, load>>

Spec == Init /\ [][Next]_vars

\* The variables hold what they are for.
TypeOK == RateTypeOK /\ SettingsTypeOK
=============================================================================
