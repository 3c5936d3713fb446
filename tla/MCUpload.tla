------------------------------- MODULE MCUpload -------------------------------
(***************************************************************************)
(* Small instances of Upload.                                              *)
(***************************************************************************)
EXTENDS Upload, TLC

CONSTANTS t1, t2

SomeForms == {<<"file">>, <<"good", "file">>, <<"file", "good">>, <<"bad", "file">>,
              <<"good", "file", "bad">>, <<"file", "bad", "good">>,
              <<"good", "file", "file">>}
OneFile == {<<"file">>}
\* Two completions of the session, or one request of another kind.
SomeLoads == {t1 :> "chunks" @@ t2 :> "chunks", t1 :> "form" @@ t2 :> "none",
              t1 :> "body" @@ t2 :> "none"}
ByForm == {t1 :> "form" @@ t2 :> "none"}
=============================================================================
