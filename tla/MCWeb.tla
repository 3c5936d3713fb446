-------------------------------- MODULE MCWeb --------------------------------
(***************************************************************************)
(* Small instances of Web.                                                 *)
(***************************************************************************)
EXTENDS Web, TLC

CONSTANTS b1, b2, b3, r1, r2, r3, p1, p2, k1, good, bad

Body(p, k, f) == [pass |-> p, key |-> k, conf |-> f]
SomePayloads == {Body(p1, Absent, Absent), Body(p2, Absent, Absent),
                 Body(None, Absent, bad), Body(None, k1, Absent),
                 Body(Absent, k1, Absent)}
PasswordOnly == {Body(p1, Absent, Absent), Body(p2, Absent, Absent)}

\* An upload key alone, which protects nothing, or everything.
Started == {Body(None, k1, None), Body(p1, k1, good)}
Bare == {Body(None, None, None)}

SmallMax == [b \in Buckets |-> IF b = "login" THEN 2 ELSE 9]
\* Requests for settings at one moment, or attempts to log in over time.
SomeLoads == {[ops |-> {"login", "password", "save", "logout"}, ticks |-> 0, attempts |-> 0],
              [ops |-> {"login", "apply", "reset", "import", "export"}, ticks |-> 0,
               attempts |-> 0],
              [ops |-> {}, ticks |-> 4, attempts |-> 7]}
RequestSymmetry == Permutations(Requests)
OneApply == {[ops |-> {"password", "login", "apply"}, ticks |-> 0, attempts |-> 0]}
=============================================================================
