------------------------------- MODULE MCSubHub -------------------------------
(***************************************************************************)
(* Small instances of SubHubSubscription.                                  *)
(***************************************************************************)
EXTENDS SubHubSubscription, TLC

CONSTANTS m1, m2, m3, m4, c1, c2, k1, k2, n1, n2, s1, s2, s3, a1, a2, a3

NoCalls == {}
NoAsks == {}
ChildAsks == [tok : ChildIds, want : {{}}, convert : {FALSE}]
ChildAndMaster == ChildAsks \cup [tok : MasterIds, want : {CollectionIds}, convert : {TRUE}]

\* What one administrator does to tokens, and to what they refer to.
ChildCalls == {<<"update", "child">>, <<"delete", "child">>}
MasterCalls == {<<"create", "master">>, <<"delete", "master">>}
LinkCalls == {<<"update", "master">>, <<"create", "child">>, <<"update", "child">>,
              <<"delete", "child">>, <<"delete", "collection">>, <<"create", "collection">>,
              <<"update", "collection">>, <<"create", "node">>, <<"update", "node">>,
              <<"delete", "node">>, <<"rotate", "child">>}
StoreCalls == MasterCalls \cup LinkCalls

\* Bound: requests of masters, who share nothing with children but the log, come alone.
MastersAlone ==
  \A s, u \in Subs : s # u /\ sub[s].tok \in MasterIds => sub[u].pc = "idle"

SubSymmetry == Permutations(Subs)
AdminSymmetry == Permutations(Admins)
=============================================================================
