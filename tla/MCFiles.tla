-------------------------------- MODULE MCFiles --------------------------------
(***************************************************************************)
(* Small instances of WebDav: databases to start from, and paths.          *)
(***************************************************************************)
EXTENDS WebDav, TLC

CONSTANTS a, b, c, f1, f2, f3, f4, f5, f6, r1, r2

AllFolders == {<<>>, <<a>>, <<b>>, <<a, b>>, <<b, b>>}
AllPaths == {<<a>>, <<b>>, <<c>>, <<a, b>>, <<b, b>>, <<b, a>>}

Private == [p \in AllFolders \ {<<>>} |-> IF p = <<a>> THEN "private" ELSE "none"]
Nested == [p \in AllFolders \ {<<>>} |->
             CASE p = <<a>> -> "private" [] p = <<a, b>> -> "public" [] OTHER -> "none"]
NoSetting == [p \in AllFolders \ {<<>>} |-> "none"]

Holding(R) == [f \in Files |-> IF f \in DOMAIN R THEN R[f] ELSE NoRow]
Kept(p, n, v) == [folder |-> p, name |-> n, vis |-> v]

\* A file in a private folder and one in its subfolder or in the root.
SomeTables ==
  {[row |-> Holding(f1 :> Kept(<<a>>, b, "private") @@ f2 :> Kept(<<a, b>>, b, "public")),
    setting |-> Nested],
   [row |-> Holding(f1 :> Kept(<<a>>, b, "private") @@ f2 :> Kept(<<>>, b, "public")),
    setting |-> Private],
   [row |-> Holding(f1 :> Kept(<<b>>, a, "private") @@ f2 :> Kept(<<b>>, a, "public")),
    setting |-> NoSetting]}

OneFile == {[row |-> Holding(f1 :> Kept(<<a>>, b, "private")), setting |-> Private]}
\* The short_id of an old file is a name that nothing has at first, that of an uploaded
\* one is the name of others.
SomeIds == [f \in Files |-> CASE f = f1 -> {c} [] f = f3 -> {a} [] OTHER -> {}]
NoIds == [f \in Files |-> {}]
\* The name a has an underscore where b has a letter.
LikeA == {<<a, b>>}

RequestSymmetry == Permutations(Requests)
=============================================================================
