--------------------------- MODULE EvidenceVault ----------------------------
(***************************************************************************)
(* The evidence of ONE case: the rows of table evidence_files and the      *)
(* objects of the bucket they point to, which no transaction ties together.*)
(* Uploads and package imports create both; the recycle bin (delete and    *)
(* restore) changes the row and moves the object, in two steps each.       *)
(*                                                                         *)
(* A row is named by its content (the SHA-256 is unique in a case, deleted *)
(* rows included).  An object key is the request that stored the content   *)
(* (every key holds a fresh uuid), the content, and the number of recycle/ *)
(* prefixes in front of it.  Every action is the code between two awaits,  *)
(* or one request to the object store.                                     *)
(***************************************************************************)
EXTENDS Integers, FiniteSets

CONSTANTS
  Content,     \* file contents, told apart by their SHA-256
  Uploader,    \* requests of the upload route, one file each
  Importer,    \* requests of the import route, one package each
  Keeper,      \* sessions of the delete and restore routes
  Nobody,      \* the owner of a row that does not exist
  MaxDepth,    \* bound: nested recycle/ prefixes
  Serial,      \* do users wait for one delete or restore before the next?
  Faults,      \* the kinds of fault that happen
  MaxFaults    \* bound: how many of them

ASSUME VaultConstants ==
  /\ Uploader \cap Importer = {}
  /\ Nobody \notin Uploader \cup Importer
  /\ MaxDepth \in Nat \ {0}
  /\ Serial \in BOOLEAN
  /\ Faults \subseteq {"restart", "store_failure", "bin_failure",
                      "upload_answer", "lost_answer"}
  /\ MaxFaults \in Nat

VARIABLES
  row,      \* the committed row of each content
  objects,  \* the keys that exist in the bucket
  up,       \* the upload requests
  imp,      \* the import requests
  bin,      \* the sessions of the recycle bin
  faults    \* how many faults have happened

vars == <<row, objects, up, imp, bin, faults>>

-----------------------------------------------------------------------------

Depth == 0..MaxDepth
Owner == Uploader \cup Importer

Row == [ owner : Owner \cup {Nobody}, depth : Depth, deleted : BOOLEAN ]
NoRow == [ owner |-> Nobody, depth |-> 0, deleted |-> FALSE ]
NewRow(o) == [ owner |-> o, depth |-> 0, deleted |-> FALSE ]
Exists(c) == row[c] # NoRow

UploadState == [ pc : {"idle", "put", "insert", "commit", "cleanup",
                       "done", "failed", "leaked", "lost"},
                 file : SUBSET Content ]

(* A package: the files whose replay check passed, whose object is stored, *)
(* and whose INSERT is flushed.                                            *)
ImportState == [ pc : {"idle", "check", "store", "done", "refused", "failed", "lost"},
                 package : SUBSET Content, checked : SUBSET Content,
                 stored : SUBSET Content, inserted : SUBSET Content ]

(* A delete or a restore: the move from one depth to another, both taken   *)
(* from the session's copy of the row (from = to: metadata only).          *)
BinState == [ pc : {"idle", "probe", "copy", "remove", "flush", "commit"},
              kind : {"delete", "restore"}, file : SUBSET Content,
              from : Depth, to : Depth ]
Rest == [ pc |-> "idle", kind |-> "delete", file |-> {}, from |-> 0, to |-> 0 ]

TypeOK ==
  /\ row \in [Content -> Row]
  /\ objects \subseteq Owner \X Content \X Depth
  /\ up \in [Uploader -> UploadState]
  /\ imp \in [Importer -> ImportState]
  /\ bin \in [Keeper -> BinState]
  /\ faults \in 0..MaxFaults

Init ==
  /\ row = [c \in Content |-> NoRow]
  /\ objects = {}
  /\ up = [u \in Uploader |-> [pc |-> "idle", file |-> {}]]
  /\ imp = [i \in Importer |-> [pc |-> "idle", package |-> {}, checked |-> {},
                                stored |-> {}, inserted |-> {}]]
  /\ bin = [k \in Keeper |-> Rest]
  /\ faults = 0

Fault(kind) ==
  /\ kind \in Faults
  /\ faults < MaxFaults
  /\ faults' = faults + 1

-----------------------------------------------------------------------------
(* The unique constraint on (case_id, sha256): an INSERT waits while       *)
(* another transaction holds the key uncommitted.                          *)

KeyHeld(c, me) ==
  \/ \E u \in Uploader \ {me} : up[u].pc = "commit" /\ c \in up[u].file
  \/ \E i \in Importer \ {me} : imp[i].pc = "store" /\ c \in imp[i].inserted

-----------------------------------------------------------------------------
(* upload_evidence.                                                        *)

SetUp(u, pc) == up' = [up EXCEPT ![u].pc = pc]

(* The duplicate check; a content that has a row is answered 409.          *)
UploadCheck(u, c) ==
  /\ up[u].pc = "idle"
  /\ ~Exists(c)
  /\ up' = [up EXCEPT ![u] = [pc |-> "put", file |-> {c}]]
  /\ UNCHANGED <<row, objects, imp, bin, faults>>

UploadPut(u) ==
  /\ up[u].pc = "put"
  /\ objects' = objects \cup {<<u, c, 0>> : c \in up[u].file}
  /\ SetUp(u, "insert")
  /\ UNCHANGED <<row, imp, bin, faults>>

(* The flush of the INSERT; a row committed since the check makes it fail. *)
UploadInsert(u) ==
  /\ up[u].pc = "insert"
  /\ \E c \in up[u].file :
       /\ ~KeyHeld(c, u)
       /\ SetUp(u, IF Exists(c) THEN "cleanup" ELSE "commit")
  /\ UNCHANGED <<row, objects, imp, bin, faults>>

Published(o, files) == [c \in Content |-> IF c \in files THEN NewRow(o) ELSE row[c]]

UploadCommit(u) ==
  /\ up[u].pc = "commit"
  /\ row' = Published(u, up[u].file)
  /\ SetUp(u, "done")
  /\ UNCHANGED <<objects, imp, bin, faults>>

(* The except branch deletes the object it stored, whatever went wrong.    *)
UploadCleanup_keeps(u) ==
  /\ up[u].pc = "cleanup"
  /\ SetUp(u, "failed")
  /\ UNCHANGED <<row, objects, imp, bin, faults>>
UploadCleanup(u) ==
  /\ up[u].pc = "cleanup"
  /\ objects' = objects \ {<<u, c, 0>> : c \in up[u].file}
  /\ SetUp(u, "failed")
  /\ UNCHANGED <<row, imp, bin, faults>>

(* The store or the database fails: before the object is stored, at the    *)
(* INSERT or the COMMIT, or while the object is being cleaned up.          *)
UploadFails(u) ==
  /\ \/ up[u].pc = "put" /\ SetUp(u, "failed")
     \/ up[u].pc \in {"insert", "commit"} /\ SetUp(u, "cleanup")
     \/ up[u].pc = "cleanup" /\ SetUp(u, "leaked")
  /\ Fault("store_failure")
  /\ UNCHANGED <<row, objects, imp, bin>>

(* The PUT or the COMMIT succeeds and its answer is lost.  The PUT is      *)
(* outside the try block, so nothing cleans up after it.                   *)
UploadAnswerLost(u) ==
  /\ \/ /\ up[u].pc = "put"
        /\ objects' = objects \cup {<<u, c, 0>> : c \in up[u].file}
        /\ SetUp(u, "leaked")
        /\ UNCHANGED row
     \/ /\ up[u].pc = "commit"
        /\ row' = Published(u, up[u].file)
        /\ SetUp(u, "cleanup")
        /\ UNCHANGED objects
  /\ Fault("upload_answer")
  /\ UNCHANGED <<imp, bin>>

Upload(u) ==
  \/ \E c \in Content : UploadCheck(u, c)
  \/ UploadPut(u) \/ UploadInsert(u) \/ UploadCommit(u) \/ UploadCleanup(u)

-----------------------------------------------------------------------------
(* import_package: every file is checked before the first one is stored;   *)
(* all rows belong to one transaction.                                     *)

SetImp(i, r) == imp' = [imp EXCEPT ![i] = r]

ImportStart(i) ==
  /\ imp[i].pc = "idle"
  /\ \E files \in (SUBSET Content) \ {{}} :
       SetImp(i, [imp[i] EXCEPT !.pc = "check", !.package = files])
  /\ UNCHANGED <<row, objects, up, bin, faults>>

(* Phase 1: a content that has a row refuses the whole package.            *)
ImportCheck(i) ==
  /\ imp[i].pc = "check"
  /\ \E c \in imp[i].package \ imp[i].checked :
       LET checked == imp[i].checked \cup {c} IN
       IF Exists(c)
       THEN SetImp(i, [imp[i] EXCEPT !.pc = "refused"])
       ELSE SetImp(i, [imp[i] EXCEPT
                         !.checked = checked,
                         !.pc = IF checked = imp[i].package THEN "store" ELSE "check"])
  /\ UNCHANGED <<row, objects, up, bin, faults>>

(* Phase 2, file by file: the object, then the flush of its row.           *)
ImportPut(i) ==
  /\ imp[i].pc = "store"
  /\ imp[i].stored = imp[i].inserted
  /\ \E c \in imp[i].package \ imp[i].stored :
       /\ objects' = objects \cup {<<i, c, 0>>}
       /\ SetImp(i, [imp[i] EXCEPT !.stored = @ \cup {c}])
  /\ UNCHANGED <<row, up, bin, faults>>

(* An IntegrityError propagates: the transaction is rolled back, and the   *)
(* objects stored so far stay where they are.                              *)
ImportInsert(i) ==
  /\ imp[i].pc = "store"
  /\ \E c \in imp[i].stored \ imp[i].inserted :
       /\ ~KeyHeld(c, i)
       /\ SetImp(i, IF Exists(c) THEN [imp[i] EXCEPT !.pc = "failed"]
                    ELSE [imp[i] EXCEPT !.inserted = @ \cup {c}])
  /\ UNCHANGED <<row, objects, up, bin, faults>>

ImportCommit_perFile(i) ==
  /\ imp[i].pc = "store"
  /\ imp[i].inserted # {}
  /\ row' = Published(i, imp[i].inserted)
  /\ SetImp(i, IF imp[i].inserted = imp[i].package
               THEN [imp[i] EXCEPT !.pc = "done"] ELSE imp[i])
  /\ UNCHANGED <<objects, up, bin, faults>>
ImportCommit(i) ==
  /\ imp[i].pc = "store"
  /\ imp[i].inserted = imp[i].package
  /\ row' = Published(i, imp[i].inserted)
  /\ SetImp(i, [imp[i] EXCEPT !.pc = "done"])
  /\ UNCHANGED <<objects, up, bin, faults>>

(* Imports that wait for each other's keys: Postgres aborts one of them.   *)
WaitsFor(i, j) == \E c \in imp[i].stored \ imp[i].inserted :
  imp[i].pc = "store" /\ imp[j].pc = "store" /\ c \in imp[j].inserted
InCircle_unseen(i) == FALSE
InCircle(i) ==
  \E S \in SUBSET Importer :
    i \in S /\ \A j \in S : \E a, b \in S : WaitsFor(j, a) /\ WaitsFor(b, j)
DeadlockVictim(i) ==
  /\ InCircle(i)
  /\ SetImp(i, [imp[i] EXCEPT !.pc = "failed"])
  /\ UNCHANGED <<row, objects, up, bin, faults>>

ImportFails(i) ==
  /\ imp[i].pc \in {"check", "store"}
  /\ SetImp(i, [imp[i] EXCEPT !.pc = "failed"])
  /\ Fault("store_failure")
  /\ UNCHANGED <<row, objects, up, bin>>

ImportAnswerLost(i) ==
  /\ imp[i].pc = "store"
  /\ \/ /\ imp[i].stored = imp[i].inserted
        /\ \E c \in imp[i].package \ imp[i].stored :
             objects' = objects \cup {<<i, c, 0>>}
        /\ UNCHANGED row
     \/ /\ imp[i].inserted = imp[i].package
        /\ row' = Published(i, imp[i].inserted)
        /\ UNCHANGED objects
  /\ SetImp(i, [imp[i] EXCEPT !.pc = "failed"])
  /\ Fault("lost_answer")
  /\ UNCHANGED <<up, bin>>

Import(i) ==
  \/ ImportStart(i) \/ ImportCheck(i) \/ ImportPut(i) \/ ImportInsert(i)
  \/ ImportCommit(i) \/ DeadlockVictim(i)

-----------------------------------------------------------------------------
(* The recycle bin.  A delete commits the row and then moves the object; a *)
(* restore moves the object and then commits the row.                      *)

SetBin(k, r) == bin' = [bin EXCEPT ![k] = r]

(* Under Serial no other session is at work on the same file.              *)
Undisturbed(k, c) ==
  Serial => \A j \in Keeper \ {k} : c \notin bin[j].file

(* A flushed UPDATE holds the row until its session commits.               *)
Locked(c, me) == \E k \in Keeper \ {me} : bin[k].pc = "commit" /\ c \in bin[k].file

(* A deleted file is answered 404.  Bound MaxDepth.                        *)
DeleteRead(k, c) ==
  /\ bin[k].pc = "idle"
  /\ Undisturbed(k, c)
  /\ Exists(c) /\ ~row[c].deleted
  /\ row[c].depth < MaxDepth
  /\ SetBin(k, [pc |-> "flush", kind |-> "delete", file |-> {c},
                from |-> row[c].depth, to |-> row[c].depth + 1])
  /\ UNCHANGED <<row, objects, up, imp, faults>>

(* A live file is answered 409.                                            *)
RestoreRead(k, c) ==
  /\ bin[k].pc = "idle"
  /\ Undisturbed(k, c)
  /\ row[c].deleted
  /\ SetBin(k, [pc |-> "probe", kind |-> "restore", file |-> {c},
                from |-> row[c].depth, to |-> row[c].depth])
  /\ UNCHANGED <<row, objects, up, imp, faults>>

(* The object under the key the copy holds, one prefix more or less.       *)
ObjectAt(c, d) == <<row[c].owner, c, d>>

(* Only a recycled key whose object is there is moved back.                *)
RestoreProbe_always(k) ==
  /\ bin[k].pc = "probe"
  /\ SetBin(k, [bin[k] EXCEPT !.pc = "flush", !.to = @ - 1])
  /\ UNCHANGED <<row, objects, up, imp, faults>>
RestoreProbe(k) ==
  /\ bin[k].pc = "probe"
  /\ \E c \in bin[k].file :
       IF bin[k].from > 0 /\ ObjectAt(c, bin[k].from) \in objects
       THEN SetBin(k, [bin[k] EXCEPT !.pc = "copy", !.to = @ - 1])
       ELSE SetBin(k, [bin[k] EXCEPT !.pc = "flush"])
  /\ UNCHANGED <<row, objects, up, imp, faults>>

(* Storage.move: a copy, which raises when its source is missing, and then *)
(* the removal of the source.                                              *)
MoveCopy_removesFirst(k) ==
  /\ bin[k].pc = "copy"
  /\ objects' = objects \ {ObjectAt(c, bin[k].from) : c \in bin[k].file}
  /\ SetBin(k, [bin[k] EXCEPT !.pc = "remove"])
  /\ UNCHANGED <<row, up, imp, faults>>
MoveCopy(k) ==
  /\ bin[k].pc = "copy"
  /\ \E c \in bin[k].file :
       IF ObjectAt(c, bin[k].from) \in objects
       THEN /\ objects' = objects \cup {ObjectAt(c, bin[k].to)}
            /\ SetBin(k, [bin[k] EXCEPT !.pc = "remove"])
       ELSE SetBin(k, Rest) /\ UNCHANGED objects
  /\ UNCHANGED <<row, up, imp, faults>>

MoveRemove(k) ==
  /\ bin[k].pc = "remove"
  /\ objects' = objects \ {ObjectAt(c, bin[k].from) : c \in bin[k].file}
  /\ SetBin(k, IF bin[k].kind = "delete" THEN Rest ELSE [bin[k] EXCEPT !.pc = "flush"])
  /\ UNCHANGED <<row, up, imp, faults>>

BinFlush(k) ==
  /\ bin[k].pc = "flush"
  /\ \A c \in bin[k].file : ~Locked(c, k)
  /\ SetBin(k, [bin[k] EXCEPT !.pc = "commit"])
  /\ UNCHANGED <<row, objects, up, imp, faults>>

(* The columns the session changed: deleted_at always, stored_key when the *)
(* key of its copy changed.                                                *)
Written(k, c) ==
  [ row[c] EXCEPT !.deleted = (bin[k].kind = "delete"),
                  !.depth = IF bin[k].to # bin[k].from THEN bin[k].to ELSE @ ]
WriteRow(k) ==
  row' = [c \in Content |-> IF c \in bin[k].file THEN Written(k, c) ELSE row[c]]

BinCommit(k) ==
  /\ bin[k].pc = "commit"
  /\ WriteRow(k)
  /\ SetBin(k, IF bin[k].kind = "delete" THEN [bin[k] EXCEPT !.pc = "copy"] ELSE Rest)
  /\ UNCHANGED <<objects, up, imp, faults>>

BinFails(k) ==
  /\ bin[k].pc # "idle"
  /\ SetBin(k, Rest)
  /\ Fault("bin_failure")
  /\ UNCHANGED <<row, objects, up, imp>>

BinAnswerLost(k) ==
  /\ bin[k].pc = "commit"
  /\ WriteRow(k)
  /\ SetBin(k, Rest)
  /\ Fault("lost_answer")
  /\ UNCHANGED <<objects, up, imp>>

BinWork(k) ==
  RestoreProbe(k) \/ MoveCopy(k) \/ MoveRemove(k) \/ BinFlush(k) \/ BinCommit(k)
Bin(k) ==
  \/ \E c \in Content : DeleteRead(k, c) \/ RestoreRead(k, c)
  \/ BinWork(k)

-----------------------------------------------------------------------------

Restart ==
  /\ up' = [u \in Uploader |->
              IF up[u].pc \in {"put", "insert", "commit", "cleanup"}
              THEN [up[u] EXCEPT !.pc = "lost"] ELSE up[u]]
  /\ imp' = [i \in Importer |->
               IF imp[i].pc \in {"check", "store"}
               THEN [imp[i] EXCEPT !.pc = "lost"] ELSE imp[i]]
  /\ bin' = [k \in Keeper |-> Rest]
  /\ Fault("restart")
  /\ UNCHANGED <<row, objects>>

Next ==
  \/ \E u \in Uploader : Upload(u) \/ UploadFails(u) \/ UploadAnswerLost(u)
  \/ \E i \in Importer : Import(i) \/ ImportFails(i) \/ ImportAnswerLost(i)
  \/ \E k \in Keeper : Bin(k) \/ BinFails(k) \/ BinAnswerLost(k)
  \/ Restart

Spec == Init /\ [][Next]_vars

-----------------------------------------------------------------------------

(* The bytes of every evidence row exist somewhere in the bucket under a   *)
(* key of that row.  Holds through restarts and failures at every step     *)
(* when deletes and restores of a file do not overlap and no upload loses  *)
(* the answer to its COMMIT (copy before delete in Storage.move, put       *)
(* before insert in the upload).                                           *)
ContentNeverLost ==
  \A c \in Content : Exists(c) => \E d \in Depth : ObjectAt(c, d) \in objects

(* A row that is not deleted points to an object that is there, at every   *)
(* moment a reader may look: put before commit, the delete's commit before *)
(* its move, the restore's move before its commit.  Holds when deletes and *)
(* restores do not overlap and are not interrupted.                        *)
LiveRowReadable ==
  \A c \in Content :
    Exists(c) /\ ~row[c].deleted => ObjectAt(c, row[c].depth) \in objects

(* The same with every fault: only an upload that reported an error may    *)
(* leave a row without bytes, when its COMMIT took effect and the answer   *)
(* was lost.                                                               *)
Refused(o) == o \in Uploader /\ up[o].pc \in {"cleanup", "failed", "leaked"}
AcceptedContentNeverLost ==
  \A c \in Content : Exists(c) /\ ~Refused(row[c].owner) =>
    \E d \in Depth : ObjectAt(c, d) \in objects

(* And until the first fault a reader finds the bytes of every live row.   *)
ReadableUntilAFault == faults = 0 => LiveRowReadable

(* "any upload failure leaves no object behind" (upload_evidence): every   *)
(* uploaded object belongs to the row of its content, or its request is at *)
(* work, or a restart or a failing cleanup cut that request short - two    *)
(* uploads that race for one content included.                             *)
UploadsLeaveNoOrphan ==
  \A u \in Uploader, c \in Content :
    (\E d \in Depth : <<u, c, d>> \in objects)
      => \/ row[c].owner = u
         \/ up[u].pc \in {"insert", "commit", "cleanup", "leaked", "lost"}

(* A package is imported as a whole or not at all, whatever fails and      *)
(* whoever stores one of its files meanwhile (one transaction).            *)
ImportIsAllOrNothing ==
  \A i \in Importer :
    LET mine == {c \in Content : row[c].owner = i}
    IN mine = {} \/ mine = imp[i].package

(* What a request that stores evidence does next, or is done to, as the    *)
(* guards of Upload and Import have it.                                    *)
UploadMayGoOn(u) ==
  \/ up[u].pc \in {"put", "commit", "cleanup"}
  \/ up[u].pc = "insert" /\ \E c \in up[u].file : ~KeyHeld(c, u)
ImportMayGoOn(i) ==
  \/ imp[i].pc = "check" /\ imp[i].package \ imp[i].checked # {}
  \/ /\ imp[i].pc = "store"
     /\ \/ imp[i].stored = imp[i].inserted /\ imp[i].package \ imp[i].stored # {}
        \/ \E c \in imp[i].stored \ imp[i].inserted : ~KeyHeld(c, i)
        \/ imp[i].inserted = imp[i].package
  \/ InCircle(i)

AtWork ==
  \/ \E u \in Uploader : up[u].pc \in {"put", "insert", "commit", "cleanup"}
  \/ \E i \in Importer : imp[i].pc \in {"check", "store"}

(* Uploads and the imports of several devices hold unique keys and wait    *)
(* for those of others: at no moment do all the requests at work wait.     *)
RequestsNeverDeadlock ==
  AtWork => \/ \E u \in Uploader : UploadMayGoOn(u)
            \/ \E i \in Importer : ImportMayGoOn(i)

=============================================================================
