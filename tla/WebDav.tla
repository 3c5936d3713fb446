-------------------------------- MODULE WebDav --------------------------------
(***************************************************************************)
(* The WebDAV requests that change the file store (routes/api_webdav.rs),   *)
(* on top of the steps of FileStore.  They name paths, which lookup_file    *)
(* turns into files when the request arrives; the purge of the files, the   *)
(* upload and the statements come later, each a step of its own.            *)
(*                                                                         *)
(* The reads by which one request makes up its mind are one step, and       *)
(* which file a path names when several have it is left open.  WebDAV being *)
(* enabled, writable and its password right is assumed (Settings).          *)
(***************************************************************************)
EXTENDS FileStore

CONSTANTS
  Paths,   \* paths that clients name (bounds the requests)
  Ids      \* the names that the short_id or file_id of a file is equal to

ASSUME DavConstants ==
  /\ Paths \subseteq Seq(Names) \ {<<>>} /\ \A p \in Paths : Front(p) \in Folders
  /\ Ids \in [Files -> SUBSET Names]

PathOf(f) == Append(row[f].folder, row[f].name)

\* get_file_by_webdav_path.
ByPath(p) == {f \in Stored : PathOf(f) = p}

\* get_file_by_id: wherever the file is, whatever its name.
ById(p) == {f \in Stored : Len(p) = 1 /\ p[1] \in Ids[f]}

\* Mutant: the fallback to the bare name for paths with folders, too.
Mut_LookupByName(p) ==
  CASE ById(p) # {}   -> ById(p)
    [] ByPath(p) # {} -> ByPath(p)
    [] OTHER          -> {f \in Stored : row[f].name = Last(p)}

\* lookup_file: the file with that id, or else the one at that path, or else any file
\* of that name.
Lookup(p) ==
  IF ById(p) # {} THEN ById(p)
  ELSE IF ByPath(p) # {} \/ Len(p) > 1 THEN ByPath(p)
  ELSE {f \in Stored : row[f].name = p[1]}

\* list_folder_paths: folders that files lie right in, and those with a setting.
FolderPaths == ({row[f].folder : f \in Stored} \ {<<>>})
               \cup {p \in DOMAIN setting : setting[p] # "none"}

FolderExists(p) == p = <<>> \/ p \in FolderPaths

\* list_folder_entries is not empty.
HasEntries(p) ==
  \/ \E f \in Stored : Below(p, row[f].folder)
  \/ \E q \in FolderPaths \ {p} : Below(p, q)

-----------------------------------------------------------------------------
(* The requests arrive.                                                    *)

\* put_file: what the path named on arrival is removed after the upload.
Put(r) ==
  /\ At(r, "idle")
  /\ \E p \in Paths, f \in Files \ (sent \cup Posted) :
       /\ \A q \in Requests : req[q].file # f
       /\ \E old \in IF Lookup(p) = {} THEN {{}} ELSE {{g} : g \in Lookup(p)} :
            Become(r, [Inheriting("put", f, Front(p), Last(p)) EXCEPT
                         !.pc = "send", !.from = p, !.files = old])
  /\ UNCHANGED <<row, setting, msg, sent, told, stale, faults>>

\* DELETE of a file.
DavDelete(r) ==
  /\ At(r, "idle")
  /\ \E p \in Paths : \E f \in Lookup(p) :
       Become(r, [Blank EXCEPT !.op = "davdelete", !.pc = "purge", !.from = p,
                               !.files = {f}, !.strict = TRUE])
  /\ UNCHANGED <<row, setting, msg, sent, told, stale, faults>>

\* DELETE of a folder: the files below it at this moment, then its settings.
DavDeleteFolder(r) ==
  /\ At(r, "idle")
  /\ \E p \in Paths :
       /\ Lookup(p) = {}
       /\ LET F == {f \in Stored : Below(p, row[f].folder)} IN
            Become(r, [Blank EXCEPT !.op = "rmdir", !.to = p, !.files = F, !.found = F,
                         !.pc = IF F = {} THEN "forget" ELSE "purge",
                         !.next = "forget", !.strict = TRUE])
  /\ UNCHANGED <<row, setting, msg, sent, told, stale, faults>>

\* delete_folder_path.
Forget(r) ==
  /\ At(r, "forget")
  /\ LET S == {p \in Folders \ {<<>>} : SqlBelow(req[r].to, p)} IN
       /\ setting' = [p \in DOMAIN setting |-> IF p \in S THEN "none" ELSE setting[p]]
       /\ stale' = stale \cup Crossed(r, S)
  /\ Leave(r)
  /\ UNCHANGED <<row, msg, sent, told, faults>>

\* MOVE of a file: the target is purged before the row of the source is changed.
DavMove(r) ==
  /\ At(r, "idle")
  /\ \E p, d \in Paths, overwrite \in BOOLEAN : \E f \in Lookup(p) :
       LET q == [Inheriting("davmove", f, Front(d), Last(d)) EXCEPT !.from = p]
       IN /\ p # d
          /\ \/ Lookup(d) = {} /\ Become(r, q)
             \/ overwrite /\ \E g \in Lookup(d) :
                  Become(r, [q EXCEPT !.pc = "purge", !.files = {g},
                                      !.next = "inherit", !.strict = TRUE])
  /\ UNCHANGED <<row, setting, msg, sent, told, stale, faults>>

\* The folder that a row or a setting in folder q has after p became d: substr
\* counts characters and is given bytes, so that behind a wide p a (short) rest
\* of the path is lost.
Moved(p, d, q) ==
  d \o IF \E i \in DOMAIN p : p[i] \in Wide THEN <<>> ELSE SubSeq(q, Len(p) + 1, Len(q))

\* MOVE of a folder; the last conjunct keeps it within Folders.
DavMoveFolder(r) ==
  /\ At(r, "idle")
  /\ \E p, d \in Paths, overwrite \in BOOLEAN :
       /\ p # d /\ Lookup(p) = {}
       /\ HasEntries(p) \/ FolderExists(p)
       /\ ~ Below(p, d)
       /\ FolderExists(d) => overwrite
       /\ {d} \cup {Moved(p, d, q) : q \in {q \in Folders : SqlBelow(p, q)}} \subseteq Folders
       /\ Become(r, [Blank EXCEPT !.op = "davfolder", !.pc = "shift", !.from = p, !.to = d])
  /\ UNCHANGED <<row, setting, msg, sent, told, stale, faults>>

\* rename_folder_path, first statement: the files.
ShiftFiles(r) ==
  /\ At(r, "shift")
  /\ LET F == {f \in Stored : SqlBelow(req[r].from, row[f].folder)} IN
       /\ row' = [f \in Files |->
                    IF f \in F
                    THEN [row[f] EXCEPT !.folder = Moved(req[r].from, req[r].to, @)]
                    ELSE row[f]]
       /\ stale' = stale \cup Overtaken(r, F)
  /\ Goto(r, "settings")
  /\ UNCHANGED <<setting, msg, sent, told, faults>>

\* Second statement: the settings, which fails whole if a new path is taken.
ShiftSettings(r) ==
  /\ At(r, "settings")
  /\ LET p == req[r].from
         d == req[r].to
         S == {q \in DOMAIN setting : setting[q] # "none" /\ SqlBelow(p, q)}
         target(q) == Moved(p, d, q)
         free == /\ \A q \in S : setting[target(q)] = "none" \/ target(q) \in S
                 /\ \A x, y \in S : target(x) = target(y) => x = y
     IN IF free
        THEN /\ setting' = [q \in DOMAIN setting |->
                  IF \E x \in S : target(x) = q
                  THEN setting[CHOOSE x \in S : target(x) = q]
                  ELSE IF q \in S THEN "none" ELSE setting[q]]
             /\ stale' = stale \cup Crossed(r, S \cup {target(q) : q \in S})
             /\ Leave(r)
        ELSE /\ Become(r, [req[r] EXCEPT !.pc = "done", !.failed = TRUE])
             /\ UNCHANGED <<setting, stale>>
  /\ UNCHANGED <<row, msg, sent, told, faults>>

\* MKCOL: ensure_folder_path with what the folder inherits, then private.
Mkcol(r) ==
  /\ At(r, "idle")
  /\ \E p \in Paths \cap Folders :
       /\ Lookup(p) = {} /\ ~ FolderExists(p)
       /\ Become(r, Inheriting("mkcol", NoFile, p, Blank.name))
  /\ UNCHANGED <<row, setting, msg, sent, told, stale, faults>>

\* INSERT ... ON CONFLICT DO NOTHING.
Ensure(r) ==
  /\ At(r, "write") /\ req[r].op = "mkcol"
  /\ IF setting[req[r].to] = "none"
     THEN /\ setting' = [setting EXCEPT ![req[r].to] = req[r].vis]
          /\ stale' = stale \cup Crossed(r, {req[r].to})
          /\ Become(r, [req[r] EXCEPT !.vis = "private", !.pc = "upsert"])
     ELSE Leave(r) /\ UNCHANGED <<setting, stale>>
  /\ UNCHANGED <<row, msg, sent, told, faults>>

DavStep(r) ==
  \/ Put(r) \/ DavDelete(r) \/ DavDeleteFolder(r) \/ Forget(r)
  \/ DavMove(r) \/ DavMoveFolder(r) \/ ShiftFiles(r) \/ ShiftSettings(r)
  \/ Mkcol(r) \/ Ensure(r)

Next == Crash \/ BotStarts \/ \E r \in Requests : FileStep(r) \/ DavStep(r)
Spec == Init /\ [][Next]_storeVars

-----------------------------------------------------------------------------
(* Properties.                                                             *)

\* The variables hold what the tables, the channel and a request can hold.
TypeOK ==
  /\ [row |-> row, setting |-> setting] \in Databases
  /\ msg \subseteq sent /\ sent \subseteq Files /\ told \subseteq Posted
  /\ \A r \in Requests :
       /\ req[r].op \in Ops /\ req[r].pc \in Steps
       /\ req[r].file \in Files \cup {NoFile}
       /\ req[r].to \in Seq(Names) /\ req[r].at \in Folders /\ req[r].from \in Seq(Names)
       /\ req[r].name \in Names /\ req[r].vis \in Visibilities
       /\ req[r].files \subseteq Files /\ req[r].rows \subseteq Files
  /\ stale \subseteq Requests /\ faults \subseteq Files

\* What the bot was never told of (dropped at a start, or too late), and what it
\* passes over, needs no row.
Consistent(f) ==
  /\ row[f] # NoRow => f \in msg
  /\ f \in msg /\ (f \in Posted => f \in told) => row[f] # NoRow

\* A row has its message in the channel, and a message that the program has sent or
\* was told of its row, except while a request is between the two and after Telegram
\* refused, the exchange broke, a statement failed, the client went away or the
\* process stopped in between, or the bot was told of a deletion or a second time of
\* a file: concurrent uploads, posts, overwrites, moves and deletions alone never lose
\* a message under a row or leave one behind (serve_file would fail for ever, or the
\* channel fill with what nobody can delete).
StoreMatchesChannel ==
  \A f \in Files \ faults : Consistent(f) \/ \E r \in Requests : f \in Between(r)

\* A file that is stored or made public or private has the visibility that the
\* request names, for that file or a folder that takes it in (in the sense of the
\* statement), or that of the nearest folder with one; only a request whose folder
\* was changed while it read its way up, or that could not read, may write another.
VisibilityIsAskedFor ==
  [][\A f \in Files :
       (row'[f] # NoRow /\ (row[f] = NoRow \/ row'[f].vis # row[f].vis)) =>
       \E r \in Requests :
         /\ req'[r] # req[r]
         /\ \/ /\ req[r].pc = "write" /\ req[r].file = f
               /\ row'[f].vis # Nearest(row'[f].folder) => r \in stale \/ req[r].failed
            \/ /\ req'[r].op = "link" /\ req'[r].file = f /\ row'[f].vis = req'[r].vis
            \/ /\ req[r].pc = "spread" /\ row'[f].vis = req[r].vis
               /\ req[r].to # row[f].folder =>
                    req[r].kids /\ SqlBelow(req[r].to, row[f].folder)]_storeVars

\* What the statements take for below p and is not: below a folder whose name LIKE
\* takes for that of p.  "Move/rename a folder (and everything under it)" does not hold
\* of these.
LikeOnly(p, q) == SqlBelow(p, q) /\ ~ Below(p, q)

\* A file changes its folder only because it or a folder above it is moved, and then
\* goes where the request says, or by a rename that was overtaken by such a move, or by
\* a new row of a file that was deleted, and puts the file back.  The exception: a
\* folder takes along what lies below a folder of a name like its own.
MovedOnlyOnRequest ==
  [][\A f \in Files :
       (row[f] # NoRow /\ row'[f] # NoRow /\ row'[f].folder # row[f].folder) =>
       \E r \in Requests :
         /\ req'[r] # req[r]
         /\ \/ /\ req[r].op \in {"move", "davmove"} /\ req[r].file = f
               /\ row'[f].folder = req[r].to
            \/ /\ req[r].op = "davfolder"
               /\ Below(req[r].from, row[f].folder) \/ LikeOnly(req[r].from, row[f].folder)
               /\ row'[f].folder = Moved(req[r].from, req[r].to, row[f].folder)
            \/ /\ req[r].op = "rename" /\ req[r].file = f /\ r \in stale
               /\ row'[f].folder = req[r].to]_storeVars

\* A row that WebDAV removes is at the path that the request named, or has the single
\* name that it gave as its name or as an id ("lookup_file resolves by short_id, by
\* file_id, by full webdav path, or by bare filename"); a file that has been moved away
\* (or deleted and told of again) is removed only if that happened while the request
\* was at work (a PUT looks before it uploads).
RemovedUnderItsName ==
  [][\A f \in Files, r \in Requests :
       (f \in req[r].rows /\ row[f] # NoRow /\ row'[f] = NoRow) =>
       LET named == IF req[r].op = "davmove" THEN Append(req[r].to, req[r].name)
                                             ELSE req[r].from
       IN \/ req[r].op = "delete"
          \/ req[r].op = "rmdir" /\ Below(req[r].to, row[f].folder)
          \/ PathOf(f) = named
          \/ Len(named) = 1 /\ (row[f].name = named[1] \/ named[1] \in Ids[f])
          \/ r \in stale]_storeVars

\* The setting of a folder is dropped only by a move of the folder or one above it, or
\* by a deletion of such a folder that removed every file it had found there: if one
\* could not be deleted the settings stay, and with them the visibility of what is
\* uploaded until the client tries again.  The exception is that of LIKE.  What has
\* come into the folder since it was listed does not count, nor what people have
\* posted, which is stored again when the bot is told of it again.
FolderForgottenOnlyWhenEmptied ==
  [][\A p \in DOMAIN setting :
       (setting[p] # "none" /\ setting'[p] = "none") =>
       \E r \in Requests :
         \/ /\ req[r].pc = "settings"
            /\ Below(req[r].from, p) \/ LikeOnly(req[r].from, p)
         \/ /\ req[r].pc = "forget"
            /\ Below(req[r].to, p) \/ LikeOnly(req[r].to, p)
            /\ req[r].found \cap Stored \subseteq Posted]_storeVars

\* rename_file "Does not touch the underlying Telegram message": a MOVE leaves
\* the message of the file it moves in the channel.
MoveKeepsSource ==
  [][\A r \in Requests :
       (req[r].op = "davmove" /\ req[r].pc = "purge" /\ req'[r] # req[r]) =>
       (req[r].file \in msg => req[r].file \in msg')]_storeVars
=============================================================================
