------------------------------ MODULE FileStore ------------------------------
(***************************************************************************)
(* The tables files and folder_settings of tgstate-rust, the Telegram       *)
(* messages behind the rows, and the requests of the file API and of the    *)
(* bot that change them (database.rs, routes/api_files.rs,                  *)
(* telegram/bot_polling.rs).                                                *)
(*                                                                         *)
(* Every handler takes its connection from a pool and runs its statements   *)
(* outside a transaction, so each statement is a step and requests are      *)
(* interleaved between them; a call to Telegram is a step of its own.  A    *)
(* file stands for its file_id (and short_id, which is as unique); the      *)
(* parts behind it are in Upload.  A folder is a sequence of segments,    *)
(* <<>> the root.                                                           *)
(***************************************************************************)
EXTENDS SequencesExt, FiniteSets

CONSTANTS
  Requests,     \* requests, each used once (bounds the load)
  Files,        \* files that exist at first or may be stored
  Posted,       \* those that people post to the channel
  Skipped,      \* of these the ones of 20 MB and more, and those named .manifest
  Names,        \* names of files
  Folders,      \* folders, the root among them (bounds the moves)
  Tables,       \* the databases the program may start from
  Wide,         \* segments longer in bytes than in characters
  Alike,        \* pairs of different segments that LIKE takes for one
  NoFile, NoRow

Visibilities == {"public", "private"}
Rows == [folder : Folders, name : Names, vis : Visibilities]

\* What the program may hold: a row per file, a visibility per folder.
Databases == [row : [Files -> Rows \cup {NoRow}],
              setting : [Folders \ {<<>>} -> Visibilities \cup {"none"}]]

ASSUME FileConstants ==
  /\ Posted \subseteq Files /\ Skipped \subseteq Posted /\ NoFile \notin Files /\ NoRow \notin Rows
  /\ Names # {}
  /\ Folders \subseteq Seq(Names) /\ <<>> \in Folders
  /\ \A p \in Folders : \A i \in 0..Len(p) : SubSeq(p, 1, i) \in Folders
  /\ Tables \subseteq Databases

VARIABLES
  row,       \* row[f]: the row of f
  setting,   \* setting[p]: link_visibility of p in folder_settings, or "none"
  msg,       \* files whose message is in the channel
  sent,      \* files whose message ever was
  told,      \* history: posts that the bot was told of and has not passed over
  req,       \* req[r]: what request r is doing and what it has read
  stale,     \* history: requests whose reading another has overwritten
  faults     \* history: files for which Telegram, a statement, a client or a crash
             \* broke the tie between message and row

storeVars == <<row, setting, msg, sent, told, req, stale, faults>>

Steps == {"idle", "pending", "send", "inherit", "write", "upsert", "spread", "purge",
          "forget", "shift", "settings", "notice", "done"}
Ops == {"none", "upload", "bot", "move", "rename", "link", "folder", "delete",
        "notice", "put", "davdelete", "rmdir", "davmove", "davfolder", "mkcol"}

\* found is history: the files that a request set out to remove.
Blank == [op |-> "none", pc |-> "idle", file |-> NoFile, to |-> <<>>, at |-> <<>>,
          name |-> CHOOSE n \in Names : TRUE, vis |-> "public", kids |-> FALSE,
          from |-> <<>>, found |-> {}, files |-> {}, rows |-> {}, next |-> "done",
          strict |-> FALSE, failed |-> FALSE]

Init ==
  /\ \E t \in Tables : row = t.row /\ setting = t.setting
  /\ msg = {f \in Files : row[f] # NoRow}
  /\ sent = msg
  /\ told = msg \cap Posted
  /\ req = [r \in Requests |-> Blank]
  /\ stale = {} /\ faults = {}

-----------------------------------------------------------------------------
(* The two ways a path is taken to lie below a folder: by the prefix, and   *)
(* by folder_path = p OR folder_path LIKE 'p/%' of the statements, where    *)
(* LIKE is blind to case and reads _ as any character.                      *)

Below(p, q) == IsPrefix(p, q)

SqlBelow(p, q) ==
  \/ q = p
  \/ /\ Len(q) > Len(p)
     /\ \A i \in DOMAIN p : q[i] = p[i] \/ <<p[i], q[i]>> \in Alike

Stored == {f \in Files : row[f] # NoRow}

\* The visibility of the nearest folder that has one.
Nearest(p) ==
  LET set == {i \in 1..Len(p) : setting[SubSeq(p, 1, i)] # "none"}
  IN IF set = {} THEN "public"
     ELSE setting[SubSeq(p, 1, CHOOSE i \in set : \A j \in set : j <= i)]

-----------------------------------------------------------------------------
(* Bookkeeping of the requests.                                            *)

At(r, pc) == req[r].pc = pc
Become(r, q) == req' = [req EXCEPT ![r] = q]
Goto(r, pc) == Become(r, [req[r] EXCEPT !.pc = pc])
Leave(r) == Goto(r, "done")

\* Requests that are using what they read of the settings of the folders S.
Crossed(r, S) == {q \in Requests \ {r} : /\ req[q].pc \in {"inherit", "write"}
                                         /\ \E p \in S : Below(p, req[q].to)}
\* Requests that are going to write back the folder they read of the files F, or
\* to remove some of F for the path they had.
Overtaken(r, F) ==
  {q \in Requests \ {r} :
     \/ req[q].pc \in {"inherit", "write"} /\ req[q].op = "rename" /\ req[q].file \in F
     \/ (req[q].files \cup req[q].rows) \cap F # {}}

\* A request of kind op about file f that goes on to inherit from folder p.
Inheriting(op, f, p, n) ==
  [Blank EXCEPT !.op = op, !.pc = "inherit", !.file = f, !.to = p, !.at = p, !.name = n]

-----------------------------------------------------------------------------
(* The requests of the file API arrive.                                    *)

\* upload_file and complete_chunk_upload, from the point where all bytes are here.
Upload(r) ==
  /\ At(r, "idle")
  /\ \E f \in Files \ (sent \cup Posted), p \in Folders, n \in Names :
       /\ \A q \in Requests : req[q].file # f
       /\ Become(r, [Inheriting("upload", f, p, n) EXCEPT !.pc = "send"])
  /\ UNCHANGED <<row, setting, msg, sent, told, stale, faults>>

\* move_file: the existence of the file is left to the UPDATE.
Move(r) ==
  /\ At(r, "idle")
  /\ \E f \in Stored, p \in Folders : Become(r, Inheriting("move", f, p, row[f].name))
  /\ UNCHANGED <<row, setting, msg, sent, told, stale, faults>>

\* Mutant: a new name without a folder puts the file into the root.
Mut_RenameToRoot(r) ==
  /\ At(r, "idle")
  /\ \E f \in Stored, n \in Names : Become(r, Inheriting("rename", f, <<>>, n))
  /\ UNCHANGED <<row, setting, msg, sent, told, stale, faults>>

\* rename_file: the folder is read first and written back with the new name.
Rename(r) ==
  /\ At(r, "idle")
  /\ \E f \in Stored, n \in Names : Become(r, Inheriting("rename", f, row[f].folder, n))
  /\ UNCHANGED <<row, setting, msg, sent, told, stale, faults>>

\* update_link_settings: one statement.
Link(r) ==
  /\ At(r, "idle")
  /\ \E f \in Stored, v \in Visibilities :
       /\ row' = [row EXCEPT ![f].vis = v]
       /\ Become(r, [Blank EXCEPT !.op = "link", !.pc = "done", !.file = f, !.vis = v])
  /\ UNCHANGED <<setting, msg, sent, told, stale, faults>>

\* update_folder_settings.
Folder(r) ==
  /\ At(r, "idle")
  /\ \E p \in Folders \ {<<>>}, v \in Visibilities, kids \in BOOLEAN :
       Become(r, [Blank EXCEPT !.op = "folder", !.pc = "upsert", !.to = p, !.vis = v,
                               !.kids = kids])
  /\ UNCHANGED <<row, setting, msg, sent, told, stale, faults>>

\* delete_file, and batch_delete_files with several.
Delete(r) ==
  /\ At(r, "idle")
  /\ \E F \in (SUBSET Stored) \ {{}} :
       Become(r, [Blank EXCEPT !.op = "delete", !.pc = "purge", !.files = F])
  /\ UNCHANGED <<row, setting, msg, sent, told, stale, faults>>

-----------------------------------------------------------------------------
(* What the bot is told.  An update waits at Telegram until it is told, and *)
(* waits again when the poller has stopped before it confirmed it.          *)

\* Somebody posts a file, or the update of one waits again.
Post(r) ==
  /\ At(r, "idle")
  /\ \E f \in Posted :
       /\ \A q \in Requests : req[q].op = "bot" /\ req[q].file = f => At(q, "done")
       /\ msg' = IF f \in sent THEN msg ELSE msg \cup {f}
       /\ sent' = sent \cup {f}
       /\ Become(r, [Inheriting("bot", f, <<>>, Blank.name) EXCEPT !.pc = "pending"])
  /\ UNCHANGED <<row, setting, told, stale, faults>>

\* process_update and handle_new_file: what is not passed over goes into the root,
\* without a look at the settings.
Tell(r) ==
  /\ At(r, "pending")
  /\ IF req[r].file \in Skipped
     THEN Leave(r) /\ UNCHANGED told
     ELSE Goto(r, "write") /\ told' = told \cup {req[r].file}
  /\ UNCHANGED <<row, setting, msg, sent, stale, faults>>

\* run_bot_polling drops the updates that wait when it starts, unless the getUpdates
\* that does it fails.
BotStarts ==
  /\ \E r \in Requests : At(r, "pending")
  /\ req' = [r \in Requests |-> IF At(r, "pending") THEN [req[r] EXCEPT !.pc = "done"]
                                ELSE req[r]]
  /\ UNCHANGED <<row, setting, msg, sent, told, stale, faults>>

\* handle_deleted_message: an edit that left neither text nor file is taken for
\* a deletion; delete_file_by_message_id has two statements.
Notice(r) ==
  /\ At(r, "idle")
  /\ \E f \in Stored :
       Become(r, [Blank EXCEPT !.op = "notice", !.pc = "notice", !.file = f])
  /\ UNCHANGED <<row, setting, msg, sent, told, stale, faults>>

RemoveNoticed(r) ==
  /\ At(r, "notice")
  /\ row' = [row EXCEPT ![req[r].file] = NoRow]
  /\ faults' = faults \cup {req[r].file}
  /\ Leave(r)
  /\ UNCHANGED <<setting, msg, sent, told, stale>>

-----------------------------------------------------------------------------
(* The steps of the requests.                                              *)

\* sendDocument: the answer comes, or it fails or the client goes away, and then
\* the message may be there without a row for ever.
Send(r) ==
  /\ At(r, "send")
  /\ LET f == req[r].file IN
     \/ /\ msg' = msg \cup {f} /\ sent' = sent \cup {f}
        /\ Goto(r, "inherit") /\ UNCHANGED faults
     \/ /\ \/ UNCHANGED <<msg, sent, faults>>
           \/ msg' = msg \cup {f} /\ sent' = sent \cup {f} /\ faults' = faults \cup {f}
        /\ Leave(r)
  /\ UNCHANGED <<row, setting, told, stale>>

\* Mutant: only the folder itself is asked, not those above it.
Mut_InheritOwn(r) ==
  /\ At(r, "inherit")
  /\ LET p == req[r].at IN
     Become(r, [req[r] EXCEPT !.pc = "write",
                  !.vis = IF p = <<>> \/ setting[p] = "none" THEN "public" ELSE setting[p]])
  /\ UNCHANGED <<row, setting, msg, sent, told, stale, faults>>

\* Mutant: what the column holds is taken as it is, "none" too.
Mut_InheritRaw(r) ==
  /\ At(r, "inherit")
  /\ LET p == req[r].at IN
     Become(r, [req[r] EXCEPT !.pc = "write",
                  !.vis = IF p = <<>> THEN "public" ELSE setting[p]])
  /\ UNCHANGED <<row, setting, msg, sent, told, stale, faults>>

\* inherited_folder_visibility_from_conn: a SELECT per folder on the way up, and one
\* that fails finds no setting.
Inherit(r) ==
  /\ At(r, "inherit")
  /\ LET p == req[r].at IN
     IF p = <<>> THEN Become(r, [req[r] EXCEPT !.vis = "public", !.pc = "write"])
     ELSE IF setting[p] # "none"
          THEN \/ Become(r, [req[r] EXCEPT !.vis = setting[p], !.pc = "write"])
               \/ Become(r, [req[r] EXCEPT !.at = Front(p), !.failed = TRUE])
          ELSE Become(r, [req[r] EXCEPT !.at = Front(p)])
  /\ UNCHANGED <<row, setting, msg, sent, told, stale, faults>>

\* INSERT INTO files; a file that is there already keeps its row.  A PUT then
\* purges the file it replaces.
Insert(r) ==
  /\ At(r, "write") /\ req[r].op \in {"upload", "put", "bot"}
  /\ LET q == req[r] IN
       IF row[q.file] # NoRow THEN UNCHANGED <<row, stale>>
       ELSE /\ row' = [row EXCEPT ![q.file] =
                         [folder |-> q.to, name |-> q.name, vis |-> q.vis]]
            /\ stale' = stale \cup Overtaken(r, {q.file})
  /\ faults' = faults \cup ({req[r].file} \ msg)
  /\ Goto(r, IF req[r].files = {} THEN "done" ELSE "purge")
  /\ UNCHANGED <<setting, msg, sent, told>>

\* update_file_folder and rename_file: one UPDATE, of no row when it is gone.
Update(r) ==
  /\ At(r, "write") /\ req[r].op \in {"move", "rename", "davmove"}
  /\ LET q == req[r]
         name == IF q.op = "move" THEN row[q.file].name ELSE q.name
     IN IF row[q.file] = NoRow THEN UNCHANGED <<row, stale>>
        ELSE /\ row' = [row EXCEPT ![q.file] = [folder |-> q.to, name |-> name, vis |-> q.vis]]
             /\ stale' = stale \cup Overtaken(r, {q.file})
  /\ Leave(r)
  /\ UNCHANGED <<setting, msg, sent, told, faults>>

\* set_folder_visibility: the folder, then in another statement its files.
Upsert(r) ==
  /\ At(r, "upsert")
  /\ setting' = [setting EXCEPT ![req[r].to] = req[r].vis]
  /\ stale' = stale \cup Crossed(r, {req[r].to})
  /\ Goto(r, "spread")
  /\ UNCHANGED <<row, msg, sent, told, faults>>

Covered(q) == {f \in Stored : IF q.kids THEN SqlBelow(q.to, row[f].folder)
                                        ELSE row[f].folder = q.to}

Spread(r) ==
  /\ At(r, "spread")
  /\ row' = [f \in Files |-> IF f \in Covered(req[r]) THEN [row[f] EXCEPT !.vis = req[r].vis]
                                                      ELSE row[f]]
  /\ Leave(r)
  /\ UNCHANGED <<setting, msg, sent, told, stale, faults>>

-----------------------------------------------------------------------------
(* Removing files: the message first, then the row.                         *)

\* Mutant: the answers of Telegram are waited for, the statements are not.
Mut_SettledEarly(q) ==
  IF q.files # {} THEN q ELSE [q EXCEPT !.pc = IF q.strict /\ q.failed THEN "done" ELSE q.next]

\* Mutant: failures are not looked at.
Mut_SettledAnyway(q) ==
  IF q.files \cup q.rows # {} THEN q ELSE [q EXCEPT !.pc = q.next]

\* A purge that has nothing left goes on, one that needs success only with it.
Settled(q) ==
  IF q.files \cup q.rows # {} THEN q
  ELSE [q EXCEPT !.pc = IF q.strict /\ q.failed THEN "done" ELSE q.next]

\* delete_message: the message goes or was gone; Telegram refuses; or the
\* exchange breaks, with the message gone or not.  The file API removes the row
\* whatever was answered, WebDAV keeps it in the last case; a client that goes
\* away takes the rest of its request with it.
Unmessage(r) ==
  /\ At(r, "purge")
  /\ \E f \in req[r].files :
       LET q == [req[r] EXCEPT !.files = @ \ {f}]
           answered == [q EXCEPT !.rows = @ \cup {f}]
       IN /\ q.op = "delete" => q.rows = {} /\ row[f] # NoRow
          /\ \/ msg' = msg \ {f} /\ Become(r, answered) /\ UNCHANGED faults
             \/ /\ f \in msg /\ UNCHANGED msg
                /\ Become(r, answered) /\ faults' = faults \cup {f}
             \/ /\ msg' \in {msg, msg \ {f}} /\ faults' = faults \cup {f}
                /\ IF q.op = "delete" THEN Become(r, answered) \/ Leave(r)
                   ELSE Become(r, Settled([q EXCEPT !.failed = TRUE]))
  /\ UNCHANGED <<row, setting, sent, told, stale>>

\* A file of the batch that get_file_by_id does not find (any more).
Missing(r) ==
  /\ At(r, "purge") /\ req[r].op = "delete" /\ req[r].rows = {}
  /\ \E f \in req[r].files \ Stored :
       Become(r, Settled([req[r] EXCEPT !.files = @ \ {f}]))
  /\ UNCHANGED <<row, setting, msg, sent, told, stale, faults>>

\* delete_file_metadata; a row that is not there any more is a failure to WebDAV, as
\* is a DELETE that fails, which leaves the row without its message.
DropRow(r) ==
  /\ At(r, "purge")
  /\ \E f \in req[r].rows :
       LET q == [req[r] EXCEPT !.rows = @ \ {f}] IN
       \/ /\ row' = [row EXCEPT ![f] = NoRow]
          /\ Become(r, Settled([q EXCEPT !.failed = @ \/ row[f] = NoRow]))
          /\ UNCHANGED faults
       \/ /\ Become(r, Settled([q EXCEPT !.failed = TRUE]))
          /\ faults' = faults \cup {f}
          /\ UNCHANGED row
  /\ UNCHANGED <<setting, msg, sent, told, stale>>

-----------------------------------------------------------------------------
\* Files that request r has taken out of step with the channel.
Between(r) ==
  CASE At(r, "purge") -> req[r].rows
    [] req[r].pc \in {"inherit", "write"} /\ req[r].op \in {"upload", "put", "bot"}
         -> {req[r].file}
    [] OTHER -> {}

\* Any other statement fails, and the request ends with its error.
StatementFails(r) ==
  /\ req[r].pc \in {"write", "upsert", "spread", "forget", "shift", "settings", "notice"}
  /\ faults' = faults \cup Between(r)
  /\ Leave(r)
  /\ UNCHANGED <<row, setting, msg, sent, told, stale>>

\* The process stops between two steps, and comes up with nobody's request; updates
\* wait at Telegram.
Crash ==
  /\ \E r \in Requests : req[r].pc \notin {"idle", "pending", "done"}
  /\ faults' = faults \cup UNION {Between(r) : r \in Requests}
  /\ req' = [r \in Requests |-> IF req[r].pc \in {"idle", "pending"} THEN req[r]
                                ELSE [req[r] EXCEPT !.pc = "done"]]
  /\ UNCHANGED <<row, setting, msg, sent, told, stale>>

FileStep(r) ==
  \/ Upload(r) \/ Move(r) \/ Rename(r) \/ Link(r) \/ Folder(r) \/ Delete(r)
  \/ Post(r) \/ Tell(r) \/ Notice(r) \/ RemoveNoticed(r)
  \/ Send(r) \/ Inherit(r) \/ Insert(r) \/ Update(r) \/ Upsert(r) \/ Spread(r)
  \/ Unmessage(r) \/ Missing(r) \/ DropRow(r) \/ StatementFails(r)

=============================================================================
