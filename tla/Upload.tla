-------------------------------- MODULE Upload --------------------------------
(***************************************************************************)
(* How the bytes of a file get into Telegram messages and back: the three   *)
(* ways to upload (a multipart form, the body of a WebDAV PUT, the chunks   *)
(* of a session on disk), the download that follows the manifest, and the   *)
(* removal of all messages of a file (routes/api_upload.rs,                 *)
(* routes/api_files.rs, telegram/service.rs).                               *)
(*                                                                         *)
(* The content of an upload of n units is <<1, ..., n>>; a message holds    *)
(* Part units (TELEGRAM_CHUNK_SIZE), a chunk of the session one.  Where the *)
(* row goes and who may see it is FileStore's concern.                      *)
(***************************************************************************)
EXTENDS Naturals, SequencesExt, FiniteSets

CONSTANTS
  Transfers,    \* upload requests, each used once (bounds the load)
  Loads,        \* for each transfer how it comes: "form", "body", "chunks", or "none"
  Sizes, Part,  \* lengths of bodies; units per message
  Limit,        \* MAX_UPLOAD_BODY_SIZE
  Chunks,       \* total_chunks of the session
  MaxWrites,    \* bound on the chunks that are sent
  Forms         \* sequences of "file", "good" and "bad" (a key), the fields of forms

ASSUME UploadConstants ==
  /\ Part \in Nat \ {0} /\ Limit \in Nat /\ Chunks \in Nat \ {0} /\ MaxWrites \in Nat
  /\ Sizes \subseteq Nat /\ Forms \subseteq Seq({"file", "good", "bad"})
  /\ Loads \subseteq [Transfers -> {"form", "body", "chunks", "none"}]

VARIABLES
  channel,  \* channel[i]: what message i holds, [units, parts]
  gone,     \* messages that have been deleted
  rows,     \* the rows: main message, size, and history: the transfer
  x,        \* x[t]: the state of transfer t; stored, cut, mixed, shown are history
  disk,     \* the session: its directory, chunk files, assembled.bin
  writes,   \* chunks sent so far
  down,     \* a download: the parts it still has to fetch, what it delivered
  del,      \* a deletion: the messages it still has to delete
  orphans   \* history: messages that a failure left without a row

vars == <<channel, gone, rows, x, disk, writes, down, del, orphans>>

None == [main |-> 0, size |-> 0, by |-> "none"]
Whole(n) == [i \in 1..n |-> i]

Idle == [kind |-> "none", pc |-> "idle", size |-> 0, pos |-> 0, buf |-> <<>>, parts |-> <<>>,
         fields |-> <<>>, verified |-> FALSE, checked |-> FALSE, key |-> "none",
         pending |-> FALSE, result |-> "none", main |-> 0, off |-> 0, next |-> 0,
         cut |-> FALSE, mixed |-> FALSE, shown |-> {}, stored |-> FALSE]

Init ==
  /\ channel = <<>> /\ gone = {} /\ rows = {} /\ orphans = {}
  /\ \E L \in Loads : x = [t \in Transfers |-> [Idle EXCEPT !.kind = L[t]]]
  /\ disk = [dir |-> FALSE, chunk |-> [i \in 1..Chunks |-> "none"], asm |-> <<>>]
  /\ writes = 0
  /\ down = [pc |-> "idle", row |-> None, todo |-> <<>>, got |-> <<>>]
  /\ del = [pc |-> "idle", row |-> None, todo |-> {}]

\* The content that a reader of message m puts together.
Content(m) ==
  IF channel[m].parts = <<>> THEN channel[m].units
  ELSE FoldLeft(LAMBDA s, i : s \o channel[i].units, <<>>, channel[m].parts)

Messages(m) == {m} \cup Range(channel[m].parts)

At(t, pc) == x[t].pc = pc
Become(t, q) == x' = [x EXCEPT ![t] = q]
Goto(t, pc) == Become(t, [x[t] EXCEPT !.pc = pc])

\* A request that ends drops what it was working on.
Closed(q, pc) == [q EXCEPT !.pc = pc, !.pos = 0, !.buf = <<>>, !.parts = <<>>, !.main = 0,
                           !.fields = <<>>, !.off = 0, !.next = 0]
Close(t, pc) == Become(t, Closed(x[t], pc))

\* An upload that fails ends its request, but a form goes on with its fields:
\* upload_result is then an error.
Broken(q) ==
  IF q.kind = "form" THEN [Closed(q, "fields") EXCEPT !.fields = q.fields, !.result = "err"]
  ELSE Closed(q, "failed")

Held(t) == Range(x[t].parts) \cup ({x[t].main} \ {0})

-----------------------------------------------------------------------------
(* The requests arrive.                                                    *)

\* upload_file: prechecked_auth is a session or a key in the headers; without
\* either the fields decide, in the order in which they come.
StartForm(t) ==
  /\ At(t, "idle") /\ x[t].kind = "form"
  /\ \E n \in Sizes, F \in Forms, ok \in BOOLEAN :
       Become(t, [x[t] EXCEPT !.pc = "fields", !.size = n, !.fields = F,
                              !.verified = ok, !.checked = ok])
  /\ UNCHANGED <<channel, gone, rows, disk, writes, down, del, orphans>>

\* upload_body_to_telegram.
StartBody(t) ==
  /\ At(t, "idle") /\ x[t].kind = "body"
  /\ \E n \in Sizes : Become(t, [x[t] EXCEPT !.pc = "recv", !.size = n])
  /\ UNCHANGED <<channel, gone, rows, disk, writes, down, del, orphans>>

\* complete_chunk_upload: the metadata must be there.
StartComplete(t) ==
  /\ At(t, "idle") /\ x[t].kind = "chunks" /\ disk.dir
  /\ Become(t, [x[t] EXCEPT !.pc = "create", !.size = Chunks])
  /\ UNCHANGED <<channel, gone, rows, disk, writes, down, del, orphans>>

\* init_chunk_upload: the directory and its metadata, once for this session.
InitSession ==
  /\ ~ disk.dir /\ writes = 0
  /\ disk' = [disk EXCEPT !.dir = TRUE]
  /\ UNCHANGED <<channel, gone, rows, x, writes, down, del, orphans>>

\* upload_chunk: fs::write truncates and then writes, while others read or write; the
\* file is torn until one has written it all, which one that fails never does.
StartChunk(i) ==
  /\ disk.dir /\ writes < MaxWrites
  /\ writes' = writes + 1
  /\ disk' = [disk EXCEPT !.chunk[i] = "torn"]
  /\ UNCHANGED <<channel, gone, rows, x, down, del, orphans>>

EndChunk(i) ==
  /\ disk.chunk[i] = "torn"
  /\ disk' = [disk EXCEPT !.chunk[i] = "full"]
  /\ UNCHANGED <<channel, gone, rows, x, writes, down, del, orphans>>

-----------------------------------------------------------------------------
(* The fields of a form.                                                   *)

\* advance_upload_auth_state, and the check of a key before it.
KeyField(t) ==
  /\ At(t, "fields") /\ x[t].fields # <<>>
  /\ LET k == Head(x[t].fields)
         q == [x[t] EXCEPT !.fields = Tail(@), !.key = k, !.shown = @ \cup {k}]
     IN /\ k # "file"
        /\ Become(t, IF ~ x[t].verified /\ k = "bad" THEN Closed(q, "refused")
                     ELSE [q EXCEPT !.verified = TRUE])
  /\ UNCHANGED <<channel, gone, rows, disk, writes, down, del, orphans>>

\* A file that comes before any key is read into memory first.
FileField(t) ==
  /\ At(t, "fields") /\ x[t].fields # <<>> /\ Head(x[t].fields) = "file"
  /\ LET q == [x[t] EXCEPT !.fields = Tail(@)] IN
     IF q.verified
     THEN Become(t, [q EXCEPT !.pc = "recv", !.pos = 0, !.buf = <<>>, !.parts = <<>>,
                              !.main = 0])
     ELSE \/ q.size <= Limit /\ Become(t, [q EXCEPT !.pending = TRUE])
          \/ Become(t, [q EXCEPT !.result = "err"])
  /\ UNCHANGED <<channel, gone, rows, disk, writes, down, del, orphans>>

\* Mutant: without any key there is nothing to decide.
Mut_EndFormLenient(t) ==
  /\ At(t, "fields") /\ x[t].fields = <<>>
  /\ Become(t, IF ~ x[t].checked /\ x[t].key = "bad" THEN Closed(x[t], "refused")
               ELSE IF ~ x[t].pending \/ x[t].result # "none" THEN Closed(x[t], "done")
               ELSE [x[t] EXCEPT !.kind = "bytes", !.pc = "recv"])
  /\ UNCHANGED <<channel, gone, rows, disk, writes, down, del, orphans>>

\* The fields are through: the last key decides again, also about a file that has
\* been stored; then what was put aside is uploaded (upload_bytes_to_telegram).
EndForm(t) ==
  /\ At(t, "fields") /\ x[t].fields = <<>>
  /\ LET q == x[t] IN
     Become(t, IF ~ q.checked /\ q.key # "good" THEN Closed(q, "refused")
               ELSE IF ~ q.pending \/ q.result # "none"
                    THEN Closed(q, IF q.result = "ok" THEN "done" ELSE "failed")
               ELSE IF q.size \in 1..Part
                    THEN [q EXCEPT !.kind = "bytes", !.pc = "single", !.buf = Whole(q.size),
                                   !.pos = q.size]
                    ELSE [q EXCEPT !.kind = "bytes", !.pc = "recv"])
  /\ UNCHANGED <<channel, gone, rows, disk, writes, down, del, orphans>>

-----------------------------------------------------------------------------
(* The session: every completion truncates assembled.bin, writes the chunks *)
(* at its own offset, and then opens it again to read.                      *)

\* Completions that have assembled.bin open.
Open(t) == x[t].kind = "chunks" /\ x[t].pc \in {"copy", "recv", "part"}

Create(t) ==
  /\ At(t, "create")
  /\ IF disk.dir
     THEN /\ disk' = [disk EXCEPT !.asm = <<>>]
          /\ x' = [u \in Transfers |->
                     IF u = t THEN [x[t] EXCEPT !.pc = "copy", !.next = 1,
                                                !.mixed = \E v \in Transfers : Open(v)]
                     ELSE [x[u] EXCEPT !.mixed = @ \/ Open(u)]]
     ELSE Close(t, "failed") /\ UNCHANGED disk
  /\ UNCHANGED <<channel, gone, rows, writes, down, del, orphans>>

\* asm with unit u at the offset o, after a hole of zeros if need be.
WriteAt(asm, o, u) ==
  [k \in 1..(IF Len(asm) > o THEN Len(asm) ELSE o + 1) |->
     IF k = o + 1 THEN u ELSE IF k <= Len(asm) THEN asm[k] ELSE 0]

\* A torn chunk may be copied as nothing.
Copy(t) ==
  /\ At(t, "copy") /\ x[t].next <= Chunks
  /\ LET i == x[t].next
         q == [x[t] EXCEPT !.next = i + 1]
     IN \/ /\ disk.dir /\ disk.chunk[i] # "none"
           /\ disk' = [disk EXCEPT !.asm = WriteAt(@, x[t].off, i)]
           /\ Become(t, [q EXCEPT !.off = @ + 1])
        \/ /\ disk.dir /\ disk.chunk[i] = "torn"
           /\ Become(t, [q EXCEPT !.mixed = TRUE]) /\ UNCHANGED disk
        \/ /\ ~ disk.dir \/ disk.chunk[i] = "none"
           /\ Close(t, "failed") /\ UNCHANGED disk
  /\ UNCHANGED <<channel, gone, rows, writes, down, del, orphans>>

Reopen(t) ==
  /\ At(t, "copy") /\ x[t].next > Chunks
  /\ Goto(t, IF disk.dir THEN "recv" ELSE "failed")
  /\ UNCHANGED <<channel, gone, rows, disk, writes, down, del, orphans>>

-----------------------------------------------------------------------------
(* Streaming to Telegram: stream_upload_to_telegram for forms,              *)
(* upload_stream_to_telegram for the others.                                *)

\* Mutant: after the first message the rest of the buffer is forgotten.
Mut_EndingForgetsRest(q) ==
  IF q.buf = <<>> /\ q.parts = <<>> THEN "failed"
  ELSE IF q.parts = <<>> THEN "single" ELSE "manifest"

\* What comes next at the end of the stream.
Ending(q) ==
  IF q.buf = <<>> /\ q.parts = <<>> THEN "failed"
  ELSE IF q.parts = <<>> THEN "single"
  ELSE IF q.buf # <<>> THEN "last" ELSE "manifest"

Ended(q) == IF Ending(q) = "failed" THEN Broken(q) ELSE [q EXCEPT !.pc = Ending(q)]

\* Mutant: a full buffer is taken for one that is not full yet.
Mut_TakenLate(q, u) ==
  LET n == [q EXCEPT !.pos = @ + 1, !.buf = Append(@, u)]
  IN [n EXCEPT !.pc = IF Len(n.buf) > Part THEN "part" ELSE "recv"]

\* Units that have arrived are sent as soon as they fill a message.
Taken(q, u) ==
  LET n == [q EXCEPT !.pos = @ + 1, !.buf = Append(@, u)]
  IN [n EXCEPT !.pc = IF Len(n.buf) = Part THEN "part" ELSE "recv"]

\* A multipart field: "while let Ok(Some(bytes))", so that an error, the body limit
\* too, is the end of the file.
RecvForm(t) ==
  /\ At(t, "recv") /\ x[t].kind = "form"
  /\ \/ x[t].pos < x[t].size /\ x[t].pos < Limit /\ Become(t, Taken(x[t], x[t].pos + 1))
     \/ x[t].pos < x[t].size /\ Become(t, Ended([x[t] EXCEPT !.cut = TRUE]))
     \/ x[t].pos = x[t].size /\ Become(t, Ended(x[t]))
  /\ UNCHANGED <<channel, gone, rows, disk, writes, down, del, orphans>>

\* A body, or bytes in memory: an error or too many bytes end the upload.
RecvBody(t) ==
  /\ At(t, "recv") /\ x[t].kind \in {"body", "bytes"}
  /\ IF x[t].pos = x[t].size THEN Become(t, Ended(x[t]))
     ELSE x[t].pos < Limit /\ Become(t, Taken(x[t], x[t].pos + 1))
  /\ UNCHANGED <<channel, gone, rows, disk, writes, down, del, orphans>>

\* assembled.bin as it is at this moment, to its end.
RecvChunks(t) ==
  /\ At(t, "recv") /\ x[t].kind = "chunks"
  /\ IF x[t].pos < Len(disk.asm) THEN Become(t, Taken(x[t], disk.asm[x[t].pos + 1]))
     ELSE Become(t, Ended(x[t]))
  /\ UNCHANGED <<channel, gone, rows, disk, writes, down, del, orphans>>

\* sendDocument with the message m, then on as q; or it fails or the answer is lost.
Sends(t, m, q) ==
  /\ \/ channel' = Append(channel, m) /\ Become(t, q) /\ UNCHANGED orphans
     \/ /\ Become(t, Broken(x[t]))
        /\ \/ orphans' = orphans \cup Held(t) /\ UNCHANGED channel
           \/ /\ channel' = Append(channel, m)
              /\ orphans' = orphans \cup Held(t) \cup {Len(channel) + 1}
  /\ UNCHANGED <<gone, rows, disk, writes, down, del>>

SendPart(t) ==
  /\ x[t].pc \in {"part", "last"}
  /\ Sends(t, [units |-> x[t].buf, parts |-> <<>>],
           [x[t] EXCEPT !.parts = Append(@, Len(channel) + 1), !.buf = <<>>,
                        !.pc = IF @ = "part" THEN "recv" ELSE "manifest"])

SendSingle(t) ==
  /\ At(t, "single")
  /\ Sends(t, [units |-> x[t].buf, parts |-> <<>>],
           [x[t] EXCEPT !.main = Len(channel) + 1, !.pc = "record"])

SendManifest(t) ==
  /\ At(t, "manifest")
  /\ Sends(t, [units |-> <<>>, parts |-> x[t].parts],
           [x[t] EXCEPT !.main = Len(channel) + 1, !.pc = "record"])

\* add_file_metadata_in_folder; a form goes on with its fields.
Record(t) ==
  /\ At(t, "record")
  /\ rows' = rows \cup {[main |-> x[t].main, size |-> x[t].pos, by |-> t]}
  /\ LET q == [x[t] EXCEPT !.stored = TRUE]
     IN Become(t, CASE q.kind = "form" -> [q EXCEPT !.pc = "fields", !.result = "ok"]
                    [] q.kind = "chunks" -> [q EXCEPT !.pc = "cleanup"]
                    [] OTHER -> Closed(q, "done"))
  /\ UNCHANGED <<channel, gone, disk, writes, down, del, orphans>>

\* remove_dir_all of the session.
Cleanup(t) ==
  /\ At(t, "cleanup")
  /\ disk' = [disk EXCEPT !.dir = FALSE, !.chunk = [i \in 1..Chunks |-> "none"]]
  /\ Close(t, "done")
  /\ UNCHANGED <<channel, gone, rows, writes, down, del, orphans>>

\* Mutant: a failure clears the session away, too.
Mut_FailClears(t) ==
  /\ x[t].pc \notin {"idle", "done", "failed", "refused", "fields"}
  /\ orphans' = orphans \cup Held(t) /\ disk' = [disk EXCEPT !.dir = FALSE]
  /\ Close(t, "failed")
  /\ UNCHANGED <<channel, gone, rows, writes, down, del>>

\* The source breaks, a statement fails, or the client is gone and its request with
\* it: what was sent stays in the channel, the session stays on disk.
Fail(t) ==
  /\ x[t].pc \notin {"idle", "done", "failed", "refused", "fields"}
  /\ orphans' = orphans \cup (IF At(t, "cleanup") THEN {} ELSE Held(t))
  /\ Close(t, "failed") \/ Become(t, Broken(x[t]))
  /\ UNCHANGED <<channel, gone, rows, disk, writes, down, del>>

-----------------------------------------------------------------------------
(* serve_telegram_file, for a file with a manifest.  A stored file is       *)
(* either downloaded or deleted: a download that meets a deletion is one    *)
(* whose requests to Telegram fail.                                         *)

\* The manifest is read and the address of every part asked for, before the answer.
StartDownload ==
  /\ down.pc = "idle" /\ del.pc = "idle"
  /\ \E r \in rows :
       /\ channel[r.main].parts # <<>>
       /\ down' = [pc |-> "stream", row |-> r, todo |-> channel[r.main].parts, got |-> <<>>]
  /\ UNCHANGED <<channel, gone, rows, x, disk, writes, del, orphans>>

\* Mutant: a part that cannot be fetched is left out.
Mut_FetchOrSkip ==
  /\ down.pc = "stream" /\ down.todo # <<>>
  /\ \/ down' = [down EXCEPT !.todo = Tail(@), !.got = @ \o channel[Head(down.todo)].units]
     \/ down' = [down EXCEPT !.todo = Tail(@)]
  /\ UNCHANGED <<channel, gone, rows, x, disk, writes, del, orphans>>

\* The next part, at once or at the second attempt; a stream that breaks in the
\* middle has delivered some of it and ends the answer with an error.
FetchPart ==
  /\ down.pc = "stream" /\ down.todo # <<>>
  /\ \/ down' = [down EXCEPT !.todo = Tail(@), !.got = @ \o channel[Head(down.todo)].units]
     \/ \E n \in 0..(Len(channel[Head(down.todo)].units) - 1) :
          down' = [down EXCEPT !.pc = "broken",
                               !.got = @ \o SubSeq(channel[Head(down.todo)].units, 1, n)]
  /\ UNCHANGED <<channel, gone, rows, x, disk, writes, del, orphans>>

EndDownload ==
  /\ down.pc = "stream" /\ down.todo = <<>>
  /\ down' = [down EXCEPT !.pc = "ended"]
  /\ UNCHANGED <<channel, gone, rows, x, disk, writes, del, orphans>>

-----------------------------------------------------------------------------
(* delete_file_with_chunks, and the row after it.                          *)

\* Mutant: only the main message is deleted.
Mut_DeleteMainOnly ==
  /\ del.pc = "idle" /\ down.pc = "idle"
  /\ \E r \in rows : del' = [pc |-> "parts", row |-> r, todo |-> {}]
  /\ UNCHANGED <<channel, gone, rows, x, disk, writes, down, orphans>>

\* Without the manifest the main message is all that is known of the file.
StartDelete ==
  /\ del.pc = "idle" /\ down.pc = "idle"
  /\ \E r \in rows :
       \/ del' = [pc |-> "parts", row |-> r, todo |-> Range(channel[r.main].parts)]
          /\ UNCHANGED orphans
       \/ del' = [pc |-> "parts", row |-> r, todo |-> {}]
          /\ orphans' = orphans \cup Range(channel[r.main].parts)
  /\ UNCHANGED <<channel, gone, rows, x, disk, writes, down>>

\* The parts, ten at a time and in any order; failures are only reported.
DeletePart ==
  /\ del.pc = "parts"
  /\ \E m \in del.todo :
       /\ del' = [del EXCEPT !.todo = @ \ {m}]
       /\ \/ gone' = gone \cup {m} /\ UNCHANGED orphans
          \/ orphans' = orphans \cup {m} /\ UNCHANGED gone
  /\ UNCHANGED <<channel, rows, x, disk, writes, down>>

DeleteMain ==
  /\ del.pc = "parts" /\ del.todo = {}
  /\ del' = [del EXCEPT !.pc = "row"]
  /\ \/ gone' = gone \cup {del.row.main} /\ UNCHANGED orphans
     \/ orphans' = orphans \cup {del.row.main} /\ UNCHANGED gone
  /\ UNCHANGED <<channel, rows, x, disk, writes, down>>

DeleteRow ==
  /\ del.pc = "row"
  /\ rows' = rows \ {del.row}
  /\ del' = [del EXCEPT !.pc = "done"]
  /\ UNCHANGED <<channel, gone, x, disk, writes, down, orphans>>

Next ==
  \/ \E t \in Transfers :
       \/ StartForm(t) \/ StartBody(t) \/ StartComplete(t)
       \/ KeyField(t) \/ FileField(t) \/ EndForm(t)
       \/ Create(t) \/ Copy(t) \/ Reopen(t)
       \/ RecvForm(t) \/ RecvBody(t) \/ RecvChunks(t)
       \/ SendPart(t) \/ SendSingle(t) \/ SendManifest(t)
       \/ Record(t) \/ Cleanup(t) \/ Fail(t)
  \/ InitSession
  \/ \E i \in 1..Chunks : StartChunk(i) \/ EndChunk(i)
  \/ StartDownload \/ FetchPart \/ EndDownload
  \/ StartDelete \/ DeletePart \/ DeleteMain \/ DeleteRow

Spec == Init /\ [][Next]_vars

-----------------------------------------------------------------------------
(* Properties.                                                             *)

\* The variables hold what they are for; ids refer to messages that exist.
TypeOK ==
  /\ \A i \in DOMAIN channel :
       channel[i].units \in Seq(Nat) /\ Range(channel[i].parts) \subseteq 1..(i - 1)
  /\ gone \cup orphans \subseteq DOMAIN channel
  /\ \A r \in rows : r.main \in DOMAIN channel /\ r.size \in Nat /\ r.by \in Transfers
  /\ \A t \in Transfers : Len(x[t].buf) <= Part /\ Held(t) \subseteq DOMAIN channel
  /\ disk.dir \in BOOLEAN /\ disk.asm \in Seq(0..Chunks)

\* What is recorded can be read back as a whole: the messages behind the row hold
\* the bytes that the client sent, all of them, in order and once, and are there
\* until the file is deleted.  Two things spoil it: a form whose body broke or
\* exceeded the limit, and a session whose completion met another completion or a
\* chunk file that was being written or that a failed write had left torn.
RecordedWhole ==
  \A r \in rows :
    LET q == x[r.by] IN
    /\ del.row # r => Messages(r.main) \cap gone = {}
    /\ ~ (q.cut \/ q.mixed) => Content(r.main) = Whole(q.size) /\ r.size = q.size

\* "Maximum single request body size for direct uploads": a body beyond it is not
\* recorded.
LimitRefuses == \A r \in rows : x[r.by].size <= Limit \/ x[r.by].kind = "chunks"

\* The chunks on disk go only when a file was recorded from them: a completion that
\* fails, at Telegram, at the database or because its client is gone, can be asked
\* for again without sending the chunks again.
SessionKeptUntilRecorded ==
  [][(disk.dir /\ ~ disk'.dir) =>
       \E t \in Transfers : x[t].kind = "chunks" /\ x[t].stored]_vars

\* A form stores a file only with a session or a key in its headers, or with the
\* right key among its fields, whatever other keys it has and in whatever order.
FormNeedsKey ==
  \A r \in rows : LET q == x[r.by] IN
    q.kind \in {"form", "bytes"} => q.checked \/ "good" \in q.shown

\* A download that ends without an error has delivered the parts of the file in
\* order, each once and to its end: a part that cannot be fetched again, or breaks
\* off, is never passed over.
DownloadWhole == down.pc = "ended" => down.got = Content(down.row.main)

\* Every message in the channel can be found from a row, is being worked on, or was
\* left by a failure: uploads and deletions that succeed leave nothing behind.
NoSilentOrphan ==
  \A m \in DOMAIN channel \ (gone \cup orphans) :
    \/ \E r \in rows : m \in Messages(r.main)
    \/ \E t \in Transfers : m \in Held(t) /\ x[t].pc \notin {"done", "failed", "refused"}

=============================================================================
