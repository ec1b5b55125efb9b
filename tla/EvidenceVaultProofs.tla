------------------------ MODULE EvidenceVaultProofs -------------------------
(***************************************************************************)
(* Proofs about EvidenceVault for every set of contents and requests:      *)
(* first the types, then what rows, keys and objects say of the requests   *)
(* that made them, then the recycle bin when its requests do not overlap,  *)
(* then why requests that wait for keys do not all wait.                   *)
(***************************************************************************)
EXTENDS EvidenceVault, Functions, FiniteSetTheorems, TLAPS

-----------------------------------------------------------------------------
(* Type correctness.  A restore moves the object one prefix down only from *)
(* a depth above 0, and its probe starts with to = from.                   *)

ProbesStay == \A k \in Keeper : bin[k].pc = "probe" => bin[k].to = bin[k].from

TInv == TypeOK /\ ProbesStay

LEMMA RowTypes ==
  /\ NoRow \in Row
  /\ \A o \in Owner : NewRow(o) \in Row /\ NewRow(o) # NoRow
  /\ Rest \in BinState
  /\ Nobody \notin Owner
BY VaultConstants DEF NoRow, NewRow, Row, Depth, Owner, Rest, BinState

LEMMA InitTInv == Init => TInv
BY RowTypes, VaultConstants
   DEF Init, TInv, TypeOK, ProbesStay, UploadState, ImportState, Rest

LEMMA FaultTypes == ASSUME TypeOK, NEW kind, Fault(kind) PROVE faults' \in 0..MaxFaults
BY VaultConstants DEF TypeOK, Fault

LEMMA PublishedTypes ==
  ASSUME TypeOK, NEW o \in Owner, NEW files
  PROVE  Published(o, files) \in [Content -> Row]
BY RowTypes DEF TypeOK, Published

LEMMA WrittenTypes ==
  ASSUME TypeOK, NEW k \in Keeper, WriteRow(k)
  PROVE  row' \in [Content -> Row]
BY DEF TypeOK, WriteRow, Written, Row, BinState

LEMMA UploadTypes ==
  ASSUME TypeOK, NEW u \in Uploader, Upload(u) \/ UploadFails(u) \/ UploadAnswerLost(u)
  PROVE  TypeOK'
<1>1. ASSUME NEW c \in Content, UploadCheck(u, c) PROVE TypeOK'
  BY <1>1 DEF UploadCheck, TypeOK, UploadState
<1>2. CASE UploadPut(u)
  BY <1>2, VaultConstants DEF UploadPut, SetUp, TypeOK, UploadState, Owner, Depth
<1>3. CASE UploadInsert(u)
  BY <1>3 DEF UploadInsert, SetUp, TypeOK, UploadState
<1>4. CASE UploadCommit(u)
  BY <1>4, PublishedTypes DEF UploadCommit, SetUp, TypeOK, UploadState, Owner
<1>5. CASE UploadCleanup(u)
  BY <1>5 DEF UploadCleanup, SetUp, TypeOK, UploadState
<1>6. CASE UploadFails(u)
  BY <1>6, FaultTypes DEF UploadFails, SetUp, TypeOK, UploadState
<1>7. CASE UploadAnswerLost(u)
  <2>1. faults' \in 0..MaxFaults
    BY <1>7, FaultTypes DEF UploadAnswerLost
  <2>2. CASE up[u].pc = "put"
    <3>1. /\ objects' = objects \cup {<<u, c, 0>> : c \in up[u].file}
          /\ SetUp(u, "leaked")
          /\ UNCHANGED <<row, imp, bin>>
      BY <1>7, <2>2 DEF UploadAnswerLost
    <3>2. objects' \subseteq Owner \X Content \X Depth
      BY <3>1, VaultConstants DEF TypeOK, UploadState, Owner, Depth
    <3>3. up' \in [Uploader -> UploadState]
      BY <3>1 DEF SetUp, TypeOK, UploadState
    <3>. QED
      BY <2>1, <3>1, <3>2, <3>3 DEF TypeOK
  <2>3. CASE up[u].pc = "commit"
    BY <1>7, <2>1, <2>3, PublishedTypes
       DEF UploadAnswerLost, SetUp, TypeOK, UploadState, Owner
  <2>. QED
    BY <1>7, <2>2, <2>3 DEF UploadAnswerLost
<1>. QED
  BY <1>1, <1>2, <1>3, <1>4, <1>5, <1>6, <1>7 DEF Upload

LEMMA ImportTypes ==
  ASSUME TypeOK, NEW i \in Importer, Import(i) \/ ImportFails(i) \/ ImportAnswerLost(i)
  PROVE  TypeOK'
<1>1. CASE ImportStart(i)
  <2>1. PICK files \in SUBSET Content :
          SetImp(i, [imp[i] EXCEPT !.pc = "check", !.package = files])
    BY <1>1 DEF ImportStart
  <2>2. imp' \in [Importer -> ImportState]
    BY <2>1 DEF SetImp, TypeOK, ImportState
  <2>. QED
    BY <1>1, <2>2 DEF ImportStart, TypeOK
<1>2. CASE ImportCheck(i)
  <2>1. PICK c \in imp[i].package :
          \/ SetImp(i, [imp[i] EXCEPT !.pc = "refused"])
          \/ SetImp(i, [imp[i] EXCEPT !.checked = imp[i].checked \cup {c}, !.pc = "store"])
          \/ SetImp(i, [imp[i] EXCEPT !.checked = imp[i].checked \cup {c}, !.pc = "check"])
    BY <1>2, Zenon DEF ImportCheck
  <2>2. /\ [imp[i] EXCEPT !.pc = "refused"] \in ImportState
        /\ [imp[i] EXCEPT !.checked = imp[i].checked \cup {c}, !.pc = "store"] \in ImportState
        /\ [imp[i] EXCEPT !.checked = imp[i].checked \cup {c}, !.pc = "check"] \in ImportState
    <3>1. imp[i] \in ImportState /\ c \in Content
      BY DEF TypeOK, ImportState
    <3>. QED
      BY <3>1 DEF ImportState
  <2>3. imp' \in [Importer -> ImportState]
    BY <2>1, <2>2 DEF SetImp, TypeOK
  <2>. QED
    BY <1>2, <2>3 DEF ImportCheck, TypeOK
<1>3. CASE ImportPut(i)
  BY <1>3, VaultConstants DEF ImportPut, SetImp, TypeOK, ImportState, Owner, Depth
<1>4. CASE ImportInsert(i)
  BY <1>4 DEF ImportInsert, SetImp, TypeOK, ImportState
<1>5. CASE ImportCommit(i)
  BY <1>5, PublishedTypes DEF ImportCommit, SetImp, TypeOK, ImportState, Owner
<1>6. CASE DeadlockVictim(i)
  BY <1>6 DEF DeadlockVictim, SetImp, TypeOK, ImportState
<1>7. CASE ImportFails(i)
  BY <1>7, FaultTypes DEF ImportFails, SetImp, TypeOK, ImportState
<1>8. CASE ImportAnswerLost(i)
  <2>1. faults' \in 0..MaxFaults
    BY <1>8, FaultTypes DEF ImportAnswerLost
  <2>2. row' \in [Content -> Row]
    BY <1>8, PublishedTypes DEF ImportAnswerLost, TypeOK, Owner
  <2>3. objects' \subseteq Owner \X Content \X Depth
    BY <1>8, VaultConstants DEF ImportAnswerLost, TypeOK, ImportState, Owner, Depth
  <2>4. imp' \in [Importer -> ImportState]
    BY <1>8 DEF ImportAnswerLost, SetImp, TypeOK, ImportState
  <2>. QED
    BY <1>8, <2>1, <2>2, <2>3, <2>4 DEF ImportAnswerLost, TypeOK
<1>. QED
  BY <1>1, <1>2, <1>3, <1>4, <1>5, <1>6, <1>7, <1>8 DEF Import

LEMMA BinTypes ==
  ASSUME TInv, NEW k \in Keeper, Bin(k) \/ BinFails(k) \/ BinAnswerLost(k)
  PROVE  TInv'
<1>. USE DEF TInv
<1>1. ASSUME NEW c \in Content, DeleteRead(k, c) PROVE TInv'
  <2>1. row[c].depth + 1 \in Depth /\ row[c].depth \in Depth
    BY <1>1, VaultConstants DEF DeleteRead, TypeOK, Row, Depth
  <2>. QED
    BY <1>1, <2>1 DEF DeleteRead, SetBin, TypeOK, BinState, ProbesStay
<1>2. ASSUME NEW c \in Content, RestoreRead(k, c) PROVE TInv'
  <2>1. row[c].depth \in Depth
    BY DEF TypeOK, Row
  <2>. QED
    BY <1>2, <2>1 DEF RestoreRead, SetBin, TypeOK, BinState, ProbesStay
<1>3. CASE RestoreProbe(k)
  <2>1. bin[k].from > 0 => bin[k].to - 1 \in Depth
    BY <1>3, VaultConstants DEF RestoreProbe, TypeOK, BinState, ProbesStay, Depth
  <2>. QED
    <3>1. CASE SetBin(k, [bin[k] EXCEPT !.pc = "flush"])
      BY <1>3, <3>1 DEF RestoreProbe, SetBin, TypeOK, BinState, ProbesStay
    <3>2. CASE bin[k].from > 0 /\ SetBin(k, [bin[k] EXCEPT !.pc = "copy", !.to = @ - 1])
      BY <1>3, <2>1, <3>2 DEF RestoreProbe, SetBin, TypeOK, BinState, ProbesStay
    <3>. QED
      BY <1>3, <3>1, <3>2 DEF RestoreProbe
<1>4. CASE MoveCopy(k)
  <2>1. PICK c \in bin[k].file :
          IF ObjectAt(c, bin[k].from) \in objects
          THEN /\ objects' = objects \cup {ObjectAt(c, bin[k].to)}
               /\ SetBin(k, [bin[k] EXCEPT !.pc = "remove"])
          ELSE SetBin(k, Rest) /\ UNCHANGED objects
    BY <1>4 DEF MoveCopy
  <2>2. bin' \in [Keeper -> BinState] /\ ProbesStay'
    BY <2>1, RowTypes DEF SetBin, TypeOK, BinState, ProbesStay, Rest
  <2>3. objects' \subseteq Owner \X Content \X Depth
    BY <2>1 DEF ObjectAt, TypeOK, BinState
  <2>. QED
    BY <1>4, <2>2, <2>3 DEF MoveCopy, TypeOK
<1>5. CASE MoveRemove(k)
  BY <1>5, RowTypes DEF MoveRemove, SetBin, TypeOK, BinState, ProbesStay, Rest
<1>6. CASE BinFlush(k)
  BY <1>6 DEF BinFlush, SetBin, TypeOK, BinState, ProbesStay
<1>7. CASE BinCommit(k)
  BY <1>7, WrittenTypes, RowTypes DEF BinCommit, SetBin, TypeOK, BinState, ProbesStay, Rest
<1>8. CASE BinFails(k)
  BY <1>8, RowTypes, FaultTypes DEF BinFails, SetBin, TypeOK, ProbesStay, Rest
<1>9. CASE BinAnswerLost(k)
  BY <1>9, WrittenTypes, RowTypes, FaultTypes DEF BinAnswerLost, SetBin, TypeOK, ProbesStay, Rest
<1>. QED
  BY <1>1, <1>2, <1>3, <1>4, <1>5, <1>6, <1>7, <1>8, <1>9 DEF Bin, BinWork

LEMMA RestartTypes == TInv /\ Restart => TInv'
<1>. SUFFICES ASSUME TInv, Restart PROVE TInv'
  OBVIOUS
<1>1. up' \in [Uploader -> UploadState]
  BY DEF TInv, Restart, TypeOK, UploadState
<1>2. imp' \in [Importer -> ImportState]
  BY DEF TInv, Restart, TypeOK, ImportState
<1>3. bin' \in [Keeper -> BinState] /\ ProbesStay'
  BY RowTypes DEF Restart, ProbesStay, Rest
<1>4. faults' \in 0..MaxFaults
  BY FaultTypes DEF TInv, Restart
<1>. QED
  BY <1>1, <1>2, <1>3, <1>4 DEF TInv, Restart, TypeOK

LEMMA TInvStep == TInv /\ [Next]_vars => TInv'
<1>. SUFFICES ASSUME TInv, [Next]_vars PROVE TInv'
  OBVIOUS
<1>1. ASSUME NEW u \in Uploader, Upload(u) \/ UploadFails(u) \/ UploadAnswerLost(u)
      PROVE  TInv'
  <2>1. bin' = bin
    BY <1>1 DEF Upload, UploadCheck, UploadPut, UploadInsert, UploadCommit,
                UploadCleanup, UploadFails, UploadAnswerLost
  <2>. QED
    BY <1>1, <2>1, UploadTypes DEF TInv, ProbesStay
<1>2. ASSUME NEW i \in Importer, Import(i) \/ ImportFails(i) \/ ImportAnswerLost(i)
      PROVE  TInv'
  <2>1. bin' = bin
    BY <1>2 DEF Import, ImportStart, ImportCheck, ImportPut, ImportInsert, ImportCommit,
                DeadlockVictim, ImportFails, ImportAnswerLost
  <2>. QED
    BY <1>2, <2>1, ImportTypes DEF TInv, ProbesStay
<1>3. ASSUME NEW k \in Keeper, Bin(k) \/ BinFails(k) \/ BinAnswerLost(k) PROVE TInv'
  BY <1>3, BinTypes
<1>4. CASE Restart
  BY <1>4, RestartTypes
<1>5. CASE UNCHANGED vars
  BY <1>5 DEF vars, TInv, TypeOK, ProbesStay
<1>. QED
  BY <1>1, <1>2, <1>3, <1>4, <1>5 DEF Next

(* Every variable of the vault keeps its type.                             *)
THEOREM VaultTypeCorrect == Spec => []TypeOK
<1>1. Spec => []TInv
  BY InitTInv, TInvStep, PTL DEF Spec
<1>2. TInv => TypeOK
  BY DEF TInv
<1>. QED
  BY <1>1, <1>2, PTL

-----------------------------------------------------------------------------
(* Rows and keys.  A flushed INSERT holds its key alone and its content    *)
(* has no row yet; a row has an owner, its owner is past its COMMIT, and   *)
(* the recycle bin works on rows only.                                     *)

UploadStep(u) == Upload(u) \/ UploadFails(u) \/ UploadAnswerLost(u)
ImportStep(i) == Import(i) \/ ImportFails(i) \/ ImportAnswerLost(i)
BinStep(k) == Bin(k) \/ BinFails(k) \/ BinAnswerLost(k)

Owned(c) == row[c].owner # Nobody
Holds(x, c) ==
  \/ x \in Uploader /\ up[x].pc = "commit" /\ c \in up[x].file
  \/ x \in Importer /\ imp[x].pc = "store" /\ c \in imp[x].inserted

RowsOwned == \A c \in Content : row[c] = NoRow \/ Owned(c)
OneFile == \A u \in Uploader : up[u].pc # "idle" => \E c \in Content : up[u].file = {c}
NoneInserted == \A i \in Importer :
  imp[i].pc \in {"idle", "check"} => imp[i].inserted = {}
BinOwned == \A k \in Keeper : \A c \in bin[k].file : Owned(c)
KeysApart == \A x \in Owner, c \in Content :
  Holds(x, c) => ~Owned(c) /\ \A y \in Owner : Holds(y, c) => y = x
Whole == \A i \in Importer : \A c \in Content :
  row[c].owner = i =>
    /\ imp[i].pc \in {"done", "failed"}
    /\ \A d \in Content : row[d].owner = i <=> d \in imp[i].package
UploadsPast == \A u \in Uploader, c \in Content :
  row[c].owner = u => /\ c \in up[u].file
                      /\ up[u].pc \in {"done", "failed", "cleanup", "leaked", "lost"}

RInv == RowsOwned /\ OneFile /\ NoneInserted /\ BinOwned /\ KeysApart /\ Whole /\ UploadsPast

LEMMA ExistsOwned ==
  ASSUME TypeOK, RowsOwned, NEW c \in Content
  PROVE  (Exists(c) <=> Owned(c)) /\ NoRow.owner = Nobody
BY DEF TypeOK, RowsOwned, Exists, Owned, NoRow, Row

LEMMA HeldKeys ==
  ASSUME NEW x \in Owner, NEW c
  PROVE  KeyHeld(c, x) <=> \E y \in Owner : Holds(y, c) /\ y # x
BY VaultConstants DEF KeyHeld, Holds, Owner

(* A commit: the rows of the files have their new owner, no other changes. *)
LEMMA Publishing ==
  ASSUME TypeOK, RowsOwned, NEW x \in Owner, NEW files,
         row' = Published(x, files)
  PROVE  /\ RowsOwned'
         /\ \A c \in files \cap Content : row'[c] = NewRow(x) /\ row'[c].owner = x
         /\ \A c \in Content \ files : row'[c] = row[c]
         /\ \A c \in Content : Owned(c)' <=> Owned(c) \/ c \in files
BY RowTypes DEF Published, RowsOwned, Owned, NewRow, TypeOK, Row

(* The recycle bin keeps the owner of every row.                           *)
LEMMA Writing ==
  ASSUME TypeOK, RowsOwned, BinOwned, NEW k \in Keeper, WriteRow(k)
  PROVE  /\ \A c \in Content : row'[c].owner = row[c].owner
         /\ RowsOwned'
         /\ \A c \in Content : Owned(c)' <=> Owned(c)
<1>1. \A c \in Content : row'[c].owner = row[c].owner
  BY DEF WriteRow, Written, TypeOK, Row
<1>2. \A c \in Content \ bin[k].file : row'[c] = row[c]
  BY DEF WriteRow
<1>. QED
  BY <1>1, <1>2 DEF RowsOwned, BinOwned, Owned

(* Keys stay apart when no request gains a key, and a row appears only     *)
(* where the request that held the key gives it up.                        *)
LEMMA KeysKept ==
  ASSUME KeysApart,
         \A x \in Owner, c \in Content : Holds(x, c)' => Holds(x, c),
         \A c \in Content : Owned(c)' =>
            Owned(c) \/ \E x \in Owner : Holds(x, c) /\ ~Holds(x, c)'
  PROVE  KeysApart'
<1>. SUFFICES ASSUME NEW x \in Owner, NEW c \in Content, Holds(x, c)'
              PROVE  ~Owned(c)' /\ \A y \in Owner : Holds(y, c)' => y = x
  BY Zenon DEF KeysApart
<1>1. Holds(x, c) /\ ~Owned(c) /\ \A y \in Owner : Holds(y, c) => y = x
  BY Zenon DEF KeysApart
<1>. QED
  BY <1>1, Zenon

(* A request gains one key, which it found free and without a row.         *)
LEMMA KeyGained ==
  ASSUME TypeOK, RowsOwned, KeysApart, row' = row, NEW z \in Owner, NEW d \in Content,
         ~KeyHeld(d, z), ~Exists(d),
         \A x \in Owner, c \in Content : Holds(x, c)' => Holds(x, c) \/ (x = z /\ c = d)
  PROVE  KeysApart'
<1>1. ~Owned(d) /\ \A y \in Owner : Holds(y, d) => y = z
  BY ExistsOwned, HeldKeys
<1>2. \A c \in Content : Owned(c)' <=> Owned(c)
  BY DEF Owned
<1>. SUFFICES ASSUME NEW x \in Owner, NEW c \in Content, Holds(x, c)'
              PROVE  ~Owned(c)' /\ \A y \in Owner : Holds(y, c)' => y = x
  BY Zenon DEF KeysApart
<1>3. CASE c = d
  BY <1>1, <1>2, <1>3
<1>4. CASE c # d
  BY <1>2, <1>4, Zenon DEF KeysApart
<1>. QED
  BY <1>3, <1>4

-----------------------------------------------------------------------------
(* What a step of an upload does to its record and to the rows.            *)

UploadAhead(u) ==
  \/ up[u].pc = "put" /\ up'[u].pc \in {"insert", "failed", "leaked"}
  \/ up[u].pc \in {"insert", "commit"} /\ up'[u].pc = "cleanup"
  \/ up[u].pc = "cleanup" /\ up'[u].pc \in {"failed", "leaked"}

UploadEffect(u) ==
  \/ /\ row' = row /\ up[u].pc = "idle" /\ up'[u].pc = "put"
     /\ \E c \in Content : up'[u].file = {c}
  \/ /\ row' = row /\ up'[u].file = up[u].file /\ UploadAhead(u)
  \/ /\ row' = row /\ up'[u].file = up[u].file
     /\ up[u].pc = "insert" /\ up'[u].pc = "commit"
     /\ \E c \in Content : up[u].file = {c} /\ ~KeyHeld(c, u) /\ ~Exists(c)
  \/ /\ row' = Published(u, up[u].file) /\ up'[u].file = up[u].file
     /\ up[u].pc = "commit" /\ up'[u].pc \in {"done", "cleanup"}

LEMMA UploadEffects ==
  ASSUME TypeOK, OneFile, NEW u \in Uploader, UploadStep(u)
  PROVE  /\ UNCHANGED <<imp, bin>>
         /\ \A v \in Uploader \ {u} : up'[v] = up[v]
         /\ UploadEffect(u)
<1>. up[u] \in UploadState
  BY DEF TypeOK
<1>0. ASSUME NEW pc, SetUp(u, pc)
      PROVE  /\ \A v \in Uploader \ {u} : up'[v] = up[v]
             /\ up'[u].pc = pc /\ up'[u].file = up[u].file
  BY <1>0 DEF SetUp, TypeOK, UploadState
<1>1. ASSUME NEW c \in Content, UploadCheck(u, c)
      PROVE  /\ \A v \in Uploader \ {u} : up'[v] = up[v]
             /\ UploadEffect(u)
  BY <1>1 DEF UploadCheck, UploadEffect, TypeOK
<1>2. CASE UploadPut(u)
  BY <1>0, <1>2 DEF UploadPut, UploadEffect, UploadAhead
<1>3. CASE UploadInsert(u)
  <2>1. PICK c \in up[u].file :
          ~KeyHeld(c, u) /\ SetUp(u, IF Exists(c) THEN "cleanup" ELSE "commit")
    BY <1>3 DEF UploadInsert
  <2>2. up[u].pc = "insert" /\ row' = row /\ UNCHANGED <<imp, bin>>
    BY <1>3 DEF UploadInsert
  <2>3. c \in Content /\ up[u].file = {c}
    BY <2>2 DEF OneFile
  <2>4. CASE Exists(c)
    BY <1>0, <2>1, <2>2, <2>4 DEF UploadEffect, UploadAhead
  <2>5. CASE ~Exists(c)
    BY <1>0, <2>1, <2>2, <2>3, <2>5 DEF UploadEffect
  <2>. QED
    BY <2>4, <2>5
<1>4. CASE UploadCommit(u)
  BY <1>0, <1>4 DEF UploadCommit, UploadEffect
<1>5. CASE UploadCleanup(u)
  BY <1>0, <1>5 DEF UploadCleanup, UploadEffect, UploadAhead
<1>6. CASE UploadFails(u)
  BY <1>0, <1>6 DEF UploadFails, UploadEffect, UploadAhead
<1>7. CASE UploadAnswerLost(u)
  BY <1>0, <1>7 DEF UploadAnswerLost, UploadEffect, UploadAhead
<1>. QED
  BY <1>1, <1>2, <1>3, <1>4, <1>5, <1>6, <1>7
     DEF UploadStep, Upload, UploadCheck, UploadPut, UploadCommit, UploadCleanup,
         UploadFails, UploadAnswerLost, UploadInsert

(* What a step of an import does to its record and to the rows.            *)
ImportAhead(i) ==
  \/ imp[i].pc = "check" /\ imp'[i].pc \in {"check", "refused", "store", "failed"}
  \/ imp[i].pc = "store" /\ imp'[i].pc \in {"store", "failed"}

ImportEffect(i) ==
  \/ /\ row' = row /\ imp'[i].inserted = imp[i].inserted
     /\ imp[i].pc = "idle" /\ imp'[i].pc = "check"
  \/ /\ row' = row /\ imp'[i].package = imp[i].package
     /\ imp'[i].inserted = imp[i].inserted /\ ImportAhead(i)
  \/ /\ row' = row /\ imp'[i].package = imp[i].package
     /\ imp[i].pc = "store" /\ imp'[i].pc = "store"
     /\ \E c \in Content : /\ imp'[i].inserted = imp[i].inserted \cup {c}
                           /\ ~KeyHeld(c, i) /\ ~Exists(c)
  \/ /\ row' = Published(i, imp[i].package) /\ imp'[i].package = imp[i].package
     /\ imp[i].inserted = imp[i].package
     /\ imp[i].pc = "store" /\ imp'[i].pc \in {"done", "failed"}

LEMMA ImportEffects ==
  ASSUME TypeOK, NEW i \in Importer, ImportStep(i)
  PROVE  /\ UNCHANGED <<up, bin>>
         /\ \A j \in Importer \ {i} : imp'[j] = imp[j]
         /\ ImportEffect(i)
<1>. imp[i] \in ImportState
  BY DEF TypeOK
<1>0. ASSUME NEW r, SetImp(i, r)
      PROVE  imp'[i] = r /\ \A j \in Importer \ {i} : imp'[j] = imp[j]
  BY <1>0 DEF SetImp, TypeOK
<1>9. UNCHANGED <<up, bin>> /\ \A j \in Importer \ {i} : imp'[j] = imp[j]
  BY <1>0 DEF ImportStep, Import, ImportStart, ImportCheck, ImportPut, ImportInsert,
              ImportCommit, DeadlockVictim, ImportFails, ImportAnswerLost
<1>. SUFFICES ImportEffect(i)
  BY <1>9
<1>1. CASE ImportStart(i)
  <2>1. PICK files \in SUBSET Content :
          SetImp(i, [imp[i] EXCEPT !.pc = "check", !.package = files])
    BY <1>1 DEF ImportStart
  <2>2. imp'[i] = [imp[i] EXCEPT !.pc = "check", !.package = files]
    BY <2>1 DEF SetImp, TypeOK
  <2>. QED
    BY <1>1, <2>2 DEF ImportStart, ImportEffect, ImportState
<1>2. CASE ImportCheck(i)
  <2>1. PICK c \in imp[i].package :
          \/ SetImp(i, [imp[i] EXCEPT !.pc = "refused"])
          \/ SetImp(i, [imp[i] EXCEPT !.checked = imp[i].checked \cup {c}, !.pc = "store"])
          \/ SetImp(i, [imp[i] EXCEPT !.checked = imp[i].checked \cup {c}, !.pc = "check"])
    BY <1>2, Zenon DEF ImportCheck
  <2>2. imp[i].pc = "check" /\ row' = row
    BY <1>2 DEF ImportCheck
  <2>3. \/ imp'[i] = [imp[i] EXCEPT !.pc = "refused"]
        \/ imp'[i] = [imp[i] EXCEPT !.checked = imp[i].checked \cup {c}, !.pc = "store"]
        \/ imp'[i] = [imp[i] EXCEPT !.checked = imp[i].checked \cup {c}, !.pc = "check"]
    BY <2>1 DEF SetImp, TypeOK
  <2>. QED
    BY <2>2, <2>3 DEF ImportEffect, ImportAhead, ImportState
<1>3. CASE ImportPut(i)
  BY <1>0, <1>3 DEF ImportPut, ImportEffect, ImportAhead, ImportState
<1>4. CASE ImportInsert(i)
  <2>1. PICK c \in Content :
          /\ ~KeyHeld(c, i)
          /\ SetImp(i, IF Exists(c) THEN [imp[i] EXCEPT !.pc = "failed"]
                       ELSE [imp[i] EXCEPT !.inserted = @ \cup {c}])
    BY <1>4 DEF ImportInsert, ImportState
  <2>2. imp[i].pc = "store" /\ row' = row
    BY <1>4 DEF ImportInsert
  <2>3. CASE Exists(c)
    <3>1. imp'[i] = [imp[i] EXCEPT !.pc = "failed"]
      BY <2>1, <2>3 DEF SetImp, TypeOK
    <3>. QED
      BY <2>2, <3>1 DEF ImportEffect, ImportAhead, ImportState
  <2>4. CASE ~Exists(c)
    <3>1. imp'[i] = [imp[i] EXCEPT !.inserted = imp[i].inserted \cup {c}]
      BY <2>1, <2>4 DEF SetImp, TypeOK
    <3>. QED
      BY <2>1, <2>2, <2>4, <3>1 DEF ImportEffect, ImportState
  <2>. QED
    BY <2>3, <2>4
<1>5. CASE ImportCommit(i)
  BY <1>0, <1>5 DEF ImportCommit, ImportEffect, ImportState
<1>6. CASE DeadlockVictim(i)
  <2>1. imp[i].pc = "store"
    BY <1>6 DEF DeadlockVictim, InCircle, WaitsFor
  <2>. QED
    BY <1>0, <1>6, <2>1 DEF DeadlockVictim, ImportEffect, ImportAhead, ImportState
<1>7. CASE ImportFails(i)
  BY <1>0, <1>7 DEF ImportFails, ImportEffect, ImportAhead, ImportState
<1>8. CASE ImportAnswerLost(i)
  <2>1. SetImp(i, [imp[i] EXCEPT !.pc = "failed"]) /\ imp[i].pc = "store"
    BY <1>8 DEF ImportAnswerLost
  <2>2. \/ row' = row
        \/ imp[i].inserted = imp[i].package /\ row' = Published(i, imp[i].inserted)
    BY <1>8 DEF ImportAnswerLost
  <2>3. imp'[i] = [imp[i] EXCEPT !.pc = "failed"]
    BY <2>1 DEF SetImp, TypeOK
  <2>. QED
    BY <2>1, <2>2, <2>3 DEF ImportEffect, ImportAhead, ImportState
<1>. QED
  BY <1>1, <1>2, <1>3, <1>4, <1>5, <1>6, <1>7, <1>8 DEF ImportStep, Import

(* The recycle bin changes its own record, no owner of a row.              *)
LEMMA BinEffects ==
  ASSUME TypeOK, RowsOwned, BinOwned, NEW k \in Keeper, BinStep(k)
  PROVE  /\ UNCHANGED <<up, imp>>
         /\ \A j \in Keeper \ {k} : bin'[j] = bin[j]
         /\ \A c \in Content : row'[c].owner = row[c].owner
         /\ RowsOwned' /\ BinOwned'
<1>0. ASSUME NEW r, SetBin(k, r)
      PROVE  bin'[k] = r /\ \A j \in Keeper \ {k} : bin'[j] = bin[j]
  BY <1>0 DEF SetBin, TypeOK
<1>1. UNCHANGED <<up, imp>> /\ \A j \in Keeper \ {k} : bin'[j] = bin[j]
  BY <1>0 DEF BinStep, Bin, BinWork, DeleteRead, RestoreRead, RestoreProbe, MoveCopy,
              MoveRemove, BinFlush, BinCommit, BinFails, BinAnswerLost
<1>2. row' = row \/ WriteRow(k)
  BY DEF BinStep, Bin, BinWork, DeleteRead, RestoreRead, RestoreProbe, MoveCopy,
         MoveRemove, BinFlush, BinCommit, BinFails, BinAnswerLost
<1>3. /\ \A c \in Content : row'[c].owner = row[c].owner
      /\ RowsOwned'
      /\ \A c \in Content : Owned(c)' <=> Owned(c)
  BY <1>2, Writing DEF RowsOwned, Owned
<1>4. \A c \in bin'[k].file : Owned(c) /\ c \in Content
  <2>1. ASSUME NEW c \in Content, DeleteRead(k, c) \/ RestoreRead(k, c)
        PROVE  bin'[k].file = {c} /\ Owned(c)
    <3>. row[c] # NoRow
      BY <2>1 DEF DeleteRead, RestoreRead, NoRow, Exists
    <3>1. Owned(c)
      BY DEF RowsOwned
    <3>2. bin'[k].file = {c}
      BY <2>1 DEF DeleteRead, RestoreRead, SetBin, TypeOK
    <3>. QED
      BY <3>1, <3>2
  <2>2. ASSUME BinWork(k) \/ BinFails(k) \/ BinAnswerLost(k)
        PROVE  bin'[k].file = bin[k].file \/ bin'[k].file = {}
    <3>1. bin[k] \in BinState
      BY DEF TypeOK
    <3>2. /\ bin' = [bin EXCEPT ![k] = bin'[k]]
          /\ \/ bin'[k] = Rest
             \/ \E pc : bin'[k] = [bin[k] EXCEPT !.pc = pc]
             \/ \E pc : bin'[k] = [bin[k] EXCEPT !.pc = pc, !.to = bin[k].to - 1]
      BY <2>2 DEF BinWork, RestoreProbe, MoveCopy, MoveRemove, BinFlush, BinCommit,
                  BinFails, BinAnswerLost, SetBin, TypeOK
    <3>3. CASE bin'[k] = Rest
      BY <3>3 DEF Rest
    <3>4. ASSUME NEW pc, bin'[k] = [bin[k] EXCEPT !.pc = pc]
          PROVE  bin'[k].file = bin[k].file
      BY <3>1, <3>4 DEF BinState
    <3>5. ASSUME NEW pc, bin'[k] = [bin[k] EXCEPT !.pc = pc, !.to = bin[k].to - 1]
          PROVE  bin'[k].file = bin[k].file
      BY <3>1, <3>5 DEF BinState
    <3>. QED
      BY <3>2, <3>3, <3>4, <3>5
  <2>. QED
    BY <2>1, <2>2 DEF BinStep, Bin, BinOwned, TypeOK, BinState
<1>5. BinOwned'
  BY <1>1, <1>3, <1>4 DEF BinOwned, TypeOK, BinState
<1>. QED
  BY <1>1, <1>3, <1>5

-----------------------------------------------------------------------------
(* Every step keeps what rows and keys say of the requests.                *)

LEMMA InitRInv == Init => RInv
BY RowTypes DEF Init, RInv, RowsOwned, OneFile, NoneInserted, BinOwned, KeysApart, Holds,
                Whole, UploadsPast, Owned, NoRow, Rest, Owner

LEMMA UploadRInv ==
  ASSUME TypeOK, RInv, NEW u \in Uploader, UploadStep(u)
  PROVE  RInv'
<1>. USE DEF RInv
<1>1. /\ UNCHANGED <<imp, bin>>
      /\ \A v \in Uploader \ {u} : up'[v] = up[v]
      /\ UploadEffect(u)
  BY UploadEffects
<1>2. u \in Owner /\ u \notin Importer /\ \A i \in Importer : i \in Owner /\ i # u
  BY VaultConstants DEF Owner
<1>3. OneFile' /\ NoneInserted'
  BY <1>1 DEF OneFile, NoneInserted, UploadEffect, UploadAhead
<1>4. \A x \in Owner \ {u}, c \in Content : Holds(x, c)' <=> Holds(x, c)
  BY <1>1 DEF Holds
<1>5. CASE row' = row
  <2>1. RowsOwned' /\ BinOwned' /\ Whole' /\ UploadsPast'
    BY <1>1, <1>5 DEF RowsOwned, BinOwned, Owned, Whole, UploadsPast, UploadEffect, UploadAhead
  <2>2. \A c \in Content : Owned(c)' <=> Owned(c)
    BY <1>5 DEF Owned
  <2>3. CASE up'[u].pc # "commit"
    <3>1. \A x \in Owner, c \in Content : Holds(x, c)' => Holds(x, c)
      BY <1>2, <1>4, <2>3 DEF Holds
    <3>. QED
      BY <1>3, <2>1, <2>2, <3>1, KeysKept
  <2>4. CASE up'[u].pc = "commit"
    <3>1. PICK d \in Content : /\ up[u].file = {d} /\ ~KeyHeld(d, u) /\ ~Exists(d)
                               /\ up'[u].file = {d}
      <4>1. ~UploadAhead(u) /\ up'[u].pc \notin {"put", "done", "cleanup"}
        BY <2>4 DEF UploadAhead
      <4>. QED
        BY <1>1, <4>1 DEF UploadEffect
    <3>2. \A x \in Owner, c \in Content : Holds(x, c)' => Holds(x, c) \/ (x = u /\ c = d)
      BY <1>2, <1>4, <3>1 DEF Holds
    <3>. QED
      BY <1>2, <1>3, <1>5, <2>1, <3>1, <3>2, KeyGained
  <2>. QED
    BY <2>3, <2>4
<1>6. CASE /\ row' = Published(u, up[u].file) /\ up'[u].file = up[u].file
           /\ up[u].pc = "commit" /\ up'[u].pc \in {"done", "cleanup"}
  <2>. DEFINE files == up[u].file
  <2>1. /\ RowsOwned'
        /\ \A c \in files \cap Content : row'[c] = NewRow(u) /\ row'[c].owner = u
        /\ \A c \in Content \ files : row'[c] = row[c]
        /\ \A c \in Content : Owned(c)' <=> Owned(c) \/ c \in files
    BY <1>2, <1>6, Publishing
  <2>2. \A c \in files : Holds(u, c) /\ ~Owned(c) /\ c \in Content
    BY <1>2, <1>6 DEF Holds, KeysApart, TypeOK, UploadState
  <2>3. \A c \in Content : ~Holds(u, c)'
    BY <1>2, <1>6 DEF Holds
  <2>4. KeysApart'
    <3>1. \A x \in Owner, c \in Content : Holds(x, c)' => Holds(x, c)
      BY <1>4, <2>3
    <3>2. \A c \in Content : Owned(c)' =>
             Owned(c) \/ \E x \in Owner : Holds(x, c) /\ ~Holds(x, c)'
      BY <1>2, <2>1, <2>2, <2>3
    <3>. QED
      BY <3>1, <3>2, KeysKept
  <2>5. BinOwned'
    BY <1>1, <2>1 DEF BinOwned, TypeOK, BinState
  <2>6. \A i \in Importer, c \in Content : row'[c].owner = i <=> row[c].owner = i
    BY <1>2, <2>1, <2>2, RowTypes DEF Owned
  <2>7. Whole'
    BY <1>1, <2>6 DEF Whole
  <2>8. UploadsPast'
    BY <1>1, <1>6, <2>1 DEF UploadsPast
  <2>. QED
    BY <1>3, <2>1, <2>4, <2>5, <2>7, <2>8
<1>. QED
  BY <1>1, <1>5, <1>6 DEF UploadEffect

LEMMA ImportRInv ==
  ASSUME TypeOK, RInv, NEW i \in Importer, ImportStep(i)
  PROVE  RInv'
<1>. USE DEF RInv
<1>1. /\ UNCHANGED <<up, bin>>
      /\ \A j \in Importer \ {i} : imp'[j] = imp[j]
      /\ ImportEffect(i)
  BY ImportEffects
<1>2. i \in Owner /\ i \notin Uploader /\ \A u \in Uploader : u \in Owner /\ i # u
  BY VaultConstants DEF Owner
<1>3. OneFile' /\ NoneInserted'
  BY <1>1 DEF OneFile, NoneInserted, ImportEffect, ImportAhead
<1>4. \A x \in Owner \ {i}, c \in Content : Holds(x, c)' <=> Holds(x, c)
  BY <1>1 DEF Holds
<1>5. CASE row' = row /\ imp[i].pc \in {"idle", "check", "store"}
  <2>1. RowsOwned' /\ BinOwned' /\ UploadsPast'
    BY <1>1, <1>5 DEF RowsOwned, BinOwned, Owned, UploadsPast
  <2>2. Whole'
    BY <1>1, <1>5 DEF Whole
  <2>3. \A c \in Content : Owned(c)' <=> Owned(c)
    BY <1>5 DEF Owned
  <2>4. CASE imp'[i].pc # "store" \/ imp'[i].inserted = imp[i].inserted
    <3>1. imp'[i].pc = "store" =>
             imp[i].pc = "store" \/ imp'[i].inserted = {}
      BY <1>1, <2>4 DEF ImportEffect, ImportAhead, NoneInserted
    <3>2. \A x \in Owner, c \in Content : Holds(x, c)' => Holds(x, c)
      BY <1>2, <1>4, <2>4, <3>1 DEF Holds
    <3>. QED
      BY <1>3, <2>1, <2>2, <2>3, <3>2, KeysKept
  <2>5. CASE ~(imp'[i].pc # "store" \/ imp'[i].inserted = imp[i].inserted)
    <3>1. PICK d \in Content : /\ imp'[i].inserted = imp[i].inserted \cup {d}
                               /\ ~KeyHeld(d, i) /\ ~Exists(d)
      BY <1>1, <2>5 DEF ImportEffect
    <3>2. imp[i].pc = "store"
      BY <1>1, <2>5 DEF ImportEffect
    <3>3. \A x \in Owner, c \in Content : Holds(x, c)' => Holds(x, c) \/ (x = i /\ c = d)
      BY <1>2, <1>4, <3>1, <3>2 DEF Holds
    <3>. QED
      BY <1>2, <1>3, <1>5, <2>1, <2>2, <3>1, <3>3, KeyGained
  <2>. QED
    BY <2>4, <2>5
<1>6. CASE /\ row' = Published(i, imp[i].package) /\ imp'[i].package = imp[i].package
           /\ imp[i].inserted = imp[i].package
           /\ imp[i].pc = "store" /\ imp'[i].pc \in {"done", "failed"}
  <2>. DEFINE files == imp[i].package
  <2>1. /\ RowsOwned'
        /\ \A c \in files \cap Content : row'[c] = NewRow(i) /\ row'[c].owner = i
        /\ \A c \in Content \ files : row'[c] = row[c]
        /\ \A c \in Content : Owned(c)' <=> Owned(c) \/ c \in files
    BY <1>2, <1>6, Publishing
  <2>2. \A c \in files : Holds(i, c) /\ ~Owned(c) /\ c \in Content
    BY <1>2, <1>6 DEF Holds, KeysApart, TypeOK, ImportState
  <2>3. \A c \in Content : ~Holds(i, c)'
    BY <1>2, <1>6 DEF Holds
  <2>4. KeysApart'
    <3>1. \A x \in Owner, c \in Content : Holds(x, c)' => Holds(x, c)
      BY <1>4, <2>3
    <3>2. \A c \in Content : Owned(c)' =>
             Owned(c) \/ \E x \in Owner : Holds(x, c) /\ ~Holds(x, c)'
      BY <1>2, <2>1, <2>2, <2>3
    <3>. QED
      BY <3>1, <3>2, KeysKept
  <2>5. BinOwned'
    BY <1>1, <2>1 DEF BinOwned, TypeOK, BinState
  <2>6. \A x \in Owner \ {i}, c \in Content : row'[c].owner = x <=> row[c].owner = x
    BY <1>2, <2>1, <2>2, RowTypes DEF Owned
  <2>7. \A c \in Content : row'[c].owner = i <=> c \in files
    BY <1>6, <2>1, <2>2 DEF Whole
  <2>8. Whole'
    BY <1>1, <1>6, <2>6, <2>7 DEF Whole, Owner
  <2>9. UploadsPast'
    BY <1>1, <1>2, <2>6 DEF UploadsPast
  <2>. QED
    BY <1>3, <2>1, <2>4, <2>5, <2>8, <2>9
<1>. QED
  BY <1>1, <1>5, <1>6 DEF ImportEffect, ImportAhead

LEMMA BinRInv ==
  ASSUME TypeOK, RInv, NEW k \in Keeper, BinStep(k)
  PROVE  RInv'
<1>. USE DEF RInv
<1>1. /\ UNCHANGED <<up, imp>>
      /\ \A c \in Content : row'[c].owner = row[c].owner
      /\ RowsOwned' /\ BinOwned'
  BY BinEffects
<1>2. /\ \A x \in Owner, c \in Content : Holds(x, c)' <=> Holds(x, c)
      /\ \A c \in Content : Owned(c)' <=> Owned(c)
  BY <1>1 DEF Holds, Owned
<1>3. KeysApart'
  BY <1>2, KeysKept
<1>4. OneFile' /\ NoneInserted' /\ Whole' /\ UploadsPast'
  BY <1>1 DEF OneFile, NoneInserted, Whole, UploadsPast
<1>. QED
  BY <1>1, <1>3, <1>4

(* A restart forgets the keys the requests held.                           *)
LEMMA RestartEffects ==
  ASSUME TypeOK, Restart
  PROVE  /\ UNCHANGED <<row, objects>>
         /\ \A u \in Uploader :
              /\ up'[u].file = up[u].file
              /\ up'[u].pc = IF up[u].pc \in {"put", "insert", "commit", "cleanup"}
                             THEN "lost" ELSE up[u].pc
         /\ \A i \in Importer :
              /\ imp'[i].package = imp[i].package /\ imp'[i].inserted = imp[i].inserted
              /\ imp'[i].stored = imp[i].stored
              /\ imp'[i].pc = IF imp[i].pc \in {"check", "store"} THEN "lost" ELSE imp[i].pc
         /\ \A k \in Keeper : bin'[k] = Rest
<1>1. \A u \in Uploader :
        /\ up'[u].file = up[u].file
        /\ up'[u].pc = IF up[u].pc \in {"put", "insert", "commit", "cleanup"}
                       THEN "lost" ELSE up[u].pc
  BY DEF Restart, TypeOK, UploadState
<1>2. \A i \in Importer :
        /\ imp'[i].package = imp[i].package /\ imp'[i].inserted = imp[i].inserted
        /\ imp'[i].stored = imp[i].stored
        /\ imp'[i].pc = IF imp[i].pc \in {"check", "store"} THEN "lost" ELSE imp[i].pc
  BY DEF Restart, TypeOK, ImportState
<1>. QED
  BY <1>1, <1>2 DEF Restart

LEMMA RestartRInv == TypeOK /\ RInv /\ Restart => RInv'
<1>. SUFFICES ASSUME TypeOK, RInv, Restart PROVE RInv'
  OBVIOUS
<1>. USE DEF RInv
<1>1. /\ \A x \in Owner, c \in Content : Holds(x, c)' => Holds(x, c)
      /\ \A c \in Content : Owned(c)' <=> Owned(c)
  BY RestartEffects DEF Holds, Owned, Owner
<1>2. KeysApart'
  BY <1>1, KeysKept
<1>3. RowsOwned' /\ OneFile' /\ NoneInserted' /\ BinOwned'
  BY RestartEffects DEF RowsOwned, Owned, OneFile, NoneInserted, BinOwned, Rest
<1>4. Whole' /\ UploadsPast'
  BY RestartEffects DEF Whole, UploadsPast
<1>. QED
  BY <1>2, <1>3, <1>4

LEMMA RInvStep == TypeOK /\ RInv /\ [Next]_vars => RInv'
<1>. SUFFICES ASSUME TypeOK, RInv, [Next]_vars PROVE RInv'
  OBVIOUS
<1>1. CASE UNCHANGED vars
  BY <1>1 DEF vars, RInv, RowsOwned, OneFile, NoneInserted, BinOwned, KeysApart, Holds,
              Whole, UploadsPast, Owned
<1>. QED
  BY <1>1, UploadRInv, ImportRInv, BinRInv, RestartRInv
     DEF Next, UploadStep, ImportStep, BinStep

LEMMA Reached == Spec => [](TInv /\ RInv)
<1>1. TInv => TypeOK
  BY DEF TInv
<1>. QED
  BY InitTInv, TInvStep, InitRInv, RInvStep, <1>1, PTL DEF Spec

(* A package is imported as a whole or not at all: the one transaction     *)
(* publishes every file of a package whose keys it holds, and no other     *)
(* request writes a row while its key is held.                             *)
THEOREM ImportsAllOrNothing == Spec => []ImportIsAllOrNothing
<1>1. TInv /\ RInv => ImportIsAllOrNothing
  BY DEF TInv, TypeOK, RInv, Whole, ImportIsAllOrNothing, ImportState
<1>. QED
  BY <1>1, Reached, PTL

-----------------------------------------------------------------------------
(* Objects.  An object of an upload belongs to its file, and to the row of *)
(* the file or to a request that is not over; only the object of a row is  *)
(* ever moved away from depth 0.                                           *)

Traced == \A u \in Uploader, c \in Content, d \in Depth :
  <<u, c, d>> \in objects =>
    /\ c \in up[u].file
    /\ row[c].owner = u \/ up[u].pc \in {"insert", "commit", "cleanup", "leaked", "lost"}
    /\ d > 0 => row[c].owner = u

(* A row never changes its owner.                                          *)
LEMMA OwnersStay ==
  ASSUME TypeOK, RInv, [Next]_vars, NEW c \in Content, Owned(c)
  PROVE  row'[c].owner = row[c].owner
<1>. USE DEF RInv
<1>1. ASSUME NEW x \in Owner, NEW files \in SUBSET Content, row' = Published(x, files),
             \A e \in files : ~Owned(e)
      PROVE  row'[c].owner = row[c].owner
  BY <1>1, Publishing
<1>2. ASSUME NEW u \in Uploader, UploadStep(u) PROVE row'[c].owner = row[c].owner
  <2>1. CASE row' = row
    BY <2>1
  <2>2. CASE row' = Published(u, up[u].file) /\ up[u].pc = "commit"
    <3>1. u \in Owner /\ up[u].file \in SUBSET Content /\ \A e \in up[u].file : ~Owned(e)
      BY <2>2 DEF KeysApart, Holds, TypeOK, UploadState, Owner
    <3>. QED
      BY <1>1, <2>2, <3>1
  <2>. QED
    BY <1>2, <2>1, <2>2, UploadEffects DEF UploadEffect
<1>3. ASSUME NEW i \in Importer, ImportStep(i) PROVE row'[c].owner = row[c].owner
  <2>1. CASE row' = row
    BY <2>1
  <2>2. CASE /\ row' = Published(i, imp[i].package)
             /\ imp[i].inserted = imp[i].package /\ imp[i].pc = "store"
    <3>1. /\ i \in Owner /\ imp[i].package \in SUBSET Content
          /\ \A e \in imp[i].package : ~Owned(e)
      BY <2>2 DEF KeysApart, Holds, TypeOK, ImportState, Owner
    <3>. QED
      BY <1>1, <2>2, <3>1
  <2>. QED
    BY <1>3, <2>1, <2>2, ImportEffects DEF ImportEffect
<1>4. ASSUME NEW k \in Keeper, BinStep(k) PROVE row'[c].owner = row[c].owner
  BY <1>4, BinEffects
<1>5. Restart \/ UNCHANGED vars => row'[c].owner = row[c].owner
  BY DEF Restart, vars
<1>. QED
  BY <1>2, <1>3, <1>4, <1>5 DEF Next, UploadStep, ImportStep, BinStep

Stored(x, files) == {<<x, c, 0>> : c \in files}

LEMMA UploadObjects ==
  ASSUME TypeOK, OneFile, NEW u \in Uploader, UploadStep(u)
  PROVE  \/ /\ objects' = objects
            /\ ~(up[u].pc = "put" /\ up'[u].pc = "insert")
            /\ ~(up[u].pc = "cleanup" /\ up'[u].pc = "failed")
         \/ /\ objects' = objects \cup Stored(u, up[u].file)
            /\ up[u].pc = "put" /\ up'[u].pc \in {"insert", "leaked"}
         \/ /\ objects' = objects \ Stored(u, up[u].file)
            /\ up[u].pc = "cleanup" /\ up'[u].pc = "failed"
<1>. up[u] \in UploadState
  BY DEF TypeOK
<1>0. ASSUME NEW pc, SetUp(u, pc) PROVE up'[u].pc = pc
  BY <1>0 DEF SetUp, TypeOK, UploadState
<1>1. ASSUME NEW c \in Content, UploadCheck(u, c)
      PROVE  objects' = objects /\ up[u].pc = "idle"
  BY <1>1 DEF UploadCheck
<1>2. CASE UploadPut(u)
  BY <1>0, <1>2 DEF UploadPut, Stored
<1>3. CASE UploadInsert(u)
  BY <1>3 DEF UploadInsert
<1>4. CASE UploadCommit(u)
  BY <1>4 DEF UploadCommit
<1>5. CASE UploadCleanup(u)
  BY <1>0, <1>5 DEF UploadCleanup, Stored
<1>6. CASE UploadFails(u)
  BY <1>0, <1>6 DEF UploadFails
<1>7. CASE UploadAnswerLost(u)
  BY <1>0, <1>7 DEF UploadAnswerLost, Stored
<1>. QED
  BY <1>1, <1>2, <1>3, <1>4, <1>5, <1>6, <1>7 DEF UploadStep, Upload

LEMMA ImportObjects ==
  ASSUME TypeOK, NEW i \in Importer, ImportStep(i)
  PROVE  \/ objects' = objects
         \/ \E c \in Content : objects' = objects \cup {<<i, c, 0>>}
BY DEF ImportStep, Import, ImportStart, ImportCheck, ImportPut, ImportInsert, ImportCommit,
       DeadlockVictim, ImportFails, ImportAnswerLost, TypeOK, ImportState

LEMMA BinObjects ==
  ASSUME TypeOK, NEW k \in Keeper, BinStep(k)
  PROVE  \/ objects' \subseteq objects
         \/ \E c \in bin[k].file : /\ ObjectAt(c, bin[k].from) \in objects
                                   /\ objects' = objects \cup {ObjectAt(c, bin[k].to)}
BY DEF BinStep, Bin, BinWork, DeleteRead, RestoreRead, RestoreProbe, MoveCopy,
       MoveRemove, BinFlush, BinCommit, BinFails, BinAnswerLost

LEMMA InitTraced == Init => Traced
BY DEF Init, Traced

LEMMA UploadTraced ==
  ASSUME TypeOK, RInv, Traced, NEW u \in Uploader, UploadStep(u)
  PROVE  Traced'
<1>. USE DEF RInv
<1>1. /\ \A v \in Uploader \ {u} : up'[v] = up[v]
      /\ UploadEffect(u)
  BY UploadEffects
<1>2. ASSUME NEW c \in Content, Owned(c) PROVE row'[c].owner = row[c].owner
  BY <1>2, OwnersStay DEF Next, UploadStep
<1>3. \A x \in Owner, c \in Content : row[c].owner = x => row'[c].owner = x
  BY <1>2, RowTypes DEF Owned
<1>4. \A v \in Uploader \ {u}, c \in Content, d \in Depth :
        <<v, c, d>> \in objects' <=> <<v, c, d>> \in objects
  BY UploadObjects DEF Stored
<1>5. ASSUME NEW v \in Uploader \ {u}, NEW c \in Content, NEW d \in Depth,
             <<v, c, d>> \in objects'
      PROVE  /\ c \in up'[v].file
             /\ \/ row'[c].owner = v
                \/ up'[v].pc \in {"insert", "commit", "cleanup", "leaked", "lost"}
             /\ d > 0 => row'[c].owner = v
  BY <1>1, <1>3, <1>4, <1>5 DEF Traced, Owner
<1>6. ASSUME NEW c \in Content, NEW d \in Depth, <<u, c, d>> \in objects'
      PROVE  /\ c \in up'[u].file
             /\ \/ row'[c].owner = u
                \/ up'[u].pc \in {"insert", "commit", "cleanup", "leaked", "lost"}
             /\ d > 0 => row'[c].owner = u
  <2>1. CASE <<u, c, d>> \notin objects
    <3>1. <<u, c, d>> \in Stored(u, up[u].file) /\ up[u].pc = "put"
          /\ up'[u].pc \in {"insert", "leaked"}
      BY <1>6, <2>1, UploadObjects
    <3>2. d = 0 /\ c \in up[u].file
      BY <3>1 DEF Stored
    <3>3. up'[u].file = up[u].file
      BY <1>1, <3>1 DEF UploadEffect
    <3>. QED
      BY <3>1, <3>2, <3>3
  <2>2. CASE <<u, c, d>> \in objects
    <3>1. /\ c \in up[u].file
          /\ \/ row[c].owner = u
             \/ up[u].pc \in {"insert", "commit", "cleanup", "leaked", "lost"}
          /\ d > 0 => row[c].owner = u
      BY <2>2 DEF Traced
    <3>2. up[u].pc # "idle"
      BY <3>1 DEF UploadsPast
    <3>3. up'[u].file = up[u].file
      BY <1>1, <3>2 DEF UploadEffect
    <3>4. d > 0 => row'[c].owner = u
      BY <1>3, <3>1 DEF Owner
    <3>5. CASE row[c].owner = u
      BY <1>3, <3>1, <3>3, <3>4, <3>5 DEF Owner
    <3>6. CASE row[c].owner # u
      <4>1. d = 0
        BY <3>1, <3>6, VaultConstants DEF Depth
      <4>2. ~(up[u].pc = "cleanup" /\ up'[u].pc = "failed")
        BY <1>6, <3>1, <4>1, UploadObjects DEF Stored
      <4>3. CASE up'[u].pc = "done"
        <5>1. row' = Published(u, up[u].file) /\ u \in Owner
          BY <1>1, <4>3 DEF UploadEffect, UploadAhead, Owner
        <5>2. row'[c].owner = u
          BY <3>1, <5>1, Publishing
        <5>. QED
          BY <3>1, <3>3, <3>4, <5>2
      <4>4. CASE up'[u].pc # "done"
        BY <1>1, <3>1, <3>3, <3>4, <3>6, <4>2, <4>4 DEF UploadEffect, UploadAhead
      <4>. QED
        BY <4>3, <4>4
    <3>. QED
      BY <3>5, <3>6
  <2>. QED
    BY <2>1, <2>2
<1>. QED
  BY <1>5, <1>6 DEF Traced

LEMMA TracedStep == TypeOK /\ RInv /\ Traced /\ [Next]_vars => Traced'
<1>. SUFFICES ASSUME TypeOK, RInv, Traced, [Next]_vars PROVE Traced'
  OBVIOUS
<1>. USE DEF RInv
<1>1. \A x \in Owner, c \in Content : row[c].owner = x => row'[c].owner = x
  BY OwnersStay, RowTypes DEF Owned
<1>2. ASSUME NEW i \in Importer, ImportStep(i) PROVE Traced'
  <2>1. up' = up
    BY <1>2, ImportEffects
  <2>2. \A u \in Uploader, c \in Content, d \in Depth :
          <<u, c, d>> \in objects' <=> <<u, c, d>> \in objects
    BY <1>2, ImportObjects, VaultConstants
  <2>. QED
    BY <1>1, <2>1, <2>2 DEF Traced, Owner
<1>3. ASSUME NEW k \in Keeper, BinStep(k) PROVE Traced'
  <2>1. up' = up
    BY <1>3, BinEffects
  <2>2. ASSUME NEW u \in Uploader, NEW c \in Content, NEW d \in Depth,
               <<u, c, d>> \in objects', <<u, c, d>> \notin objects
        PROVE  row[c].owner = u /\ c \in up[u].file
    <3>1. PICK e \in bin[k].file : /\ ObjectAt(e, bin[k].from) \in objects
                                   /\ objects' = objects \cup {ObjectAt(e, bin[k].to)}
      BY <1>3, <2>2, BinObjects
    <3>2. e = c /\ row[c].owner = u
      BY <2>2, <3>1 DEF ObjectAt
    <3>. QED
      BY <3>2 DEF UploadsPast
  <2>. QED
    BY <1>1, <2>1, <2>2 DEF Traced, Owner
<1>4. CASE Restart
  <2>1. row' = row /\ objects' = objects
    BY <1>4 DEF Restart
  <2>2. \A u \in Uploader :
          /\ up'[u].file = up[u].file
          /\ up'[u].pc = IF up[u].pc \in {"put", "insert", "commit", "cleanup"}
                         THEN "lost" ELSE up[u].pc
    BY <1>4, RestartEffects
  <2>. QED
    BY <2>1, <2>2 DEF Traced
<1>5. CASE UNCHANGED vars
  BY <1>5 DEF vars, Traced
<1>. QED
  BY <1>2, <1>3, <1>4, <1>5, UploadTraced DEF Next, UploadStep, ImportStep, BinStep

(* An upload that failed leaves no object behind, whoever won the race for *)
(* its content: its cleanup removes what it stored, and what was moved out *)
(* of the cleanup's reach belongs to a row.                                *)
THEOREM NoUploadOrphans == Spec => []UploadsLeaveNoOrphan
<1>1. Traced => UploadsLeaveNoOrphan
  BY DEF Traced, UploadsLeaveNoOrphan
<1>. QED
  BY <1>1, Reached, InitTraced, TracedStep, PTL DEF Spec, TInv

-----------------------------------------------------------------------------
(* Bytes.  Deletes and restores of one file do not overlap (Serial).  An   *)
(* object is in the bucket before its row is inserted, and a move removes  *)
(* its source when the copy is there.  The cleanup of an upload runs only  *)
(* when it has no row, unless the answer to its COMMIT was lost (Lossless);*)
(* then it takes the object of its row away (Gone).                        *)

Lossless == "upload_answer" \notin Faults \/ faults = 0
Gone(c) == row[c].owner \in Uploader /\ up[row[c].owner].pc = "failed"

Alone == \A j, k \in Keeper : \A c \in bin[j].file : c \in bin[k].file => j = k
OneMoved == \A k \in Keeper : \A c, d \in bin[k].file : c = d
PutFirst ==
  /\ \A u \in Uploader : up[u].pc \in {"insert", "commit"} =>
       \A c \in up[u].file : <<u, c, 0>> \in objects
  /\ \A i \in Importer : imp[i].pc = "store" =>
       /\ imp[i].inserted \subseteq imp[i].stored
       /\ \A c \in imp[i].stored : <<i, c, 0>> \in objects
NoneStored == \A i \in Importer : imp[i].pc \in {"idle", "check"} => imp[i].stored = {}
Unpublished == Lossless =>
  \A u \in Uploader, c \in Content :
    up[u].pc \in {"cleanup", "failed"} => row[c].owner # u
Moves == \A k \in Keeper :
  /\ bin[k].pc \in {"copy", "remove"} => bin[k].to # bin[k].from
  /\ bin[k].kind = "delete" /\ bin[k].pc # "idle" => bin[k].to # bin[k].from
  /\ bin[k].pc = "remove" =>
       \A c \in bin[k].file : Gone(c) \/ ObjectAt(c, bin[k].to) \in objects
Kept == \A c \in Content :
  Owned(c) => Gone(c) \/ \E d \in Depth : ObjectAt(c, d) \in objects

SInv == /\ Alone /\ OneMoved /\ PutFirst /\ NoneStored /\ Unpublished /\ Moves /\ Kept

LEMMA InitSInv == Init => SInv
BY DEF Init, SInv, Alone, OneMoved, PutFirst, NoneStored, Unpublished, Moves, Kept, Owned,
       NoRow, Rest

LEMMA FaultsCount ==
  ASSUME TypeOK, [Next]_vars
  PROVE  /\ faults \in Nat /\ (faults' = faults \/ faults' = faults + 1)
         /\ faults' = 0 => faults = 0
         /\ Lossless' => Lossless
<1>1. faults' = faults \/ faults' = faults + 1
  BY DEF Next, vars, Upload, UploadCheck, UploadPut, UploadInsert, UploadCommit, UploadCleanup,
         UploadFails, UploadAnswerLost, Import, ImportStart, ImportCheck, ImportPut,
         ImportInsert, ImportCommit, DeadlockVictim, ImportFails, ImportAnswerLost, Bin,
         BinWork, DeleteRead, RestoreRead, RestoreProbe, MoveCopy, MoveRemove, BinFlush,
         BinCommit, BinFails, BinAnswerLost, Restart, Fault
<1>2. faults \in Nat
  BY VaultConstants DEF TypeOK
<1>. QED
  BY <1>1, <1>2 DEF Lossless

LEMMA CommitsAnswered ==
  ASSUME TypeOK, Lossless', NEW u \in Uploader, UploadStep(u),
         up'[u].pc \in {"cleanup", "failed"}
  PROVE  row' = row
<1>0. ASSUME NEW pc, SetUp(u, pc) PROVE up'[u].pc = pc
  BY <1>0 DEF SetUp, TypeOK, UploadState
<1>1. ~UploadCommit(u)
  BY <1>0 DEF UploadCommit
<1>2. ~UploadAnswerLost(u)
  <2>1. faults \in Nat
    BY VaultConstants DEF TypeOK
  <2>. QED
    BY <2>1 DEF UploadAnswerLost, Fault, Lossless
<1>. QED
  BY <1>1, <1>2 DEF UploadStep, Upload, UploadCheck, UploadPut, UploadInsert, UploadCleanup,
                    UploadFails

(* Uploads and imports leave the rows that exist alone, and their objects  *)
(* but for the cleanup of an upload that has a row.                        *)
LEMMA UploadLeavesRows ==
  ASSUME TypeOK, RInv, NEW u \in Uploader, UploadStep(u),
         NEW c \in Content, Owned(c)
  PROVE  /\ row'[c] = row[c]
         /\ Gone(c) => Gone(c)'
         /\ ~Gone(c)' =>
              \A d \in Depth : ObjectAt(c, d) \in objects => ObjectAt(c, d)' \in objects'
<1>. USE DEF RInv
<1>1. row'[c] = row[c]
  <2>1. CASE row' = Published(u, up[u].file) /\ up[u].pc = "commit"
    <3>1. c \notin up[u].file /\ u \in Owner
      BY <2>1 DEF KeysApart, Holds, Owner
    <3>. QED
      BY <2>1, <3>1, Publishing
  <2>. QED
    BY <2>1, UploadEffects DEF UploadEffect
<1>2. ASSUME ~Gone(c)', NEW d \in Depth, ObjectAt(c, d) \in objects
      PROVE  ObjectAt(c, d)' \in objects'
  <2>1. ObjectAt(c, d)' = ObjectAt(c, d)
    BY <1>1 DEF ObjectAt
  <2>2. CASE up[u].pc = "cleanup" /\ up'[u].pc = "failed"
    <3>1. row[c].owner # u
      BY <1>1, <1>2, <2>2 DEF Gone
    <3>2. ObjectAt(c, d) \notin Stored(u, up[u].file)
      BY <3>1 DEF ObjectAt, Stored
    <3>. QED
      BY <1>2, <2>1, <3>2, UploadObjects
  <2>3. CASE ~(up[u].pc = "cleanup" /\ up'[u].pc = "failed")
    BY <1>2, <2>1, <2>3, UploadObjects
  <2>. QED
    BY <2>2, <2>3
<1>3. Gone(c) => Gone(c)'
  <2>1. up[u].pc # "failed" /\ \A v \in Uploader \ {u} : up'[v] = up[v]
    BY UploadEffects DEF UploadEffect, UploadAhead
  <2>. QED
    BY <1>1, <2>1 DEF Gone
<1>. QED
  BY <1>1, <1>2, <1>3

LEMMA ImportLeavesRows ==
  ASSUME TypeOK, RInv, NEW i \in Importer, ImportStep(i), NEW c \in Content, Owned(c)
  PROVE  /\ row'[c] = row[c]
         /\ \A d \in Depth : ObjectAt(c, d) \in objects => ObjectAt(c, d)' \in objects'
<1>. USE DEF RInv
<1>1. row'[c] = row[c]
  <2>1. CASE /\ row' = Published(i, imp[i].package)
             /\ imp[i].inserted = imp[i].package /\ imp[i].pc = "store"
    <3>1. c \notin imp[i].package /\ i \in Owner
      BY <2>1 DEF KeysApart, Holds, Owner
    <3>. QED
      BY <2>1, <3>1, Publishing
  <2>. QED
    BY <2>1, ImportEffects DEF ImportEffect
<1>. QED
  BY <1>1, ImportObjects DEF ObjectAt

LEMMA UploadSInv ==
  ASSUME TypeOK, RInv, SInv, NEW u \in Uploader, UploadStep(u)
  PROVE  SInv'
<1>. USE DEF RInv, SInv
<1>1. /\ UNCHANGED <<imp, bin>>
      /\ \A v \in Uploader \ {u} : up'[v] = up[v]
      /\ UploadEffect(u)
  BY UploadEffects
<1>2. \A c \in Content : Owned(c) =>
        /\ row'[c] = row[c] /\ (Gone(c) => Gone(c)')
        /\ ~Gone(c)' =>
             \A d \in Depth : ObjectAt(c, d) \in objects => ObjectAt(c, d)' \in objects'
  BY UploadLeavesRows
<1>3. Alone' /\ OneMoved' /\ NoneStored'
  BY <1>1 DEF Alone, OneMoved, NoneStored
<1>4. PutFirst'
  <2>1. \A x \in Owner \ {u}, c \in Content :
          <<x, c, 0>> \in objects => <<x, c, 0>> \in objects'
    BY UploadObjects DEF Stored
  <2>2. ASSUME up'[u].pc \in {"insert", "commit"}, NEW c \in up'[u].file
        PROVE  <<u, c, 0>> \in objects'
    <3>1. up[u].pc # "cleanup" /\ up'[u].file = up[u].file
      BY <1>1, <2>2 DEF UploadEffect, UploadAhead
    <3>2. CASE up[u].pc = "put"
      BY <1>1, <2>2, <3>1, <3>2, UploadObjects DEF UploadEffect, UploadAhead, Stored
    <3>3. CASE up[u].pc # "put"
      BY <1>1, <2>2, <3>1, <3>3, UploadObjects DEF UploadEffect, UploadAhead, PutFirst
    <3>. QED
      BY <3>2, <3>3
  <2>3. \A v \in Uploader \ {u} : up'[v].pc \in {"insert", "commit"} =>
          \A c \in up'[v].file : <<v, c, 0>> \in objects'
    BY <1>1, <2>1 DEF PutFirst, TypeOK, UploadState, Owner
  <2>4. \A i \in Importer : i \in Owner \ {u} /\ imp[i].stored \subseteq Content
    BY VaultConstants DEF Owner, TypeOK, ImportState
  <2>5. \A i \in Importer : imp'[i].pc = "store" =>
          /\ imp'[i].inserted \subseteq imp'[i].stored
          /\ \A c \in imp'[i].stored : <<i, c, 0>> \in objects'
    BY <1>1, <2>1, <2>4 DEF PutFirst
  <2>. QED
    BY <2>2, <2>3, <2>5 DEF PutFirst
<1>5. Unpublished'
  <2>. SUFFICES ASSUME Lossless', NEW v \in Uploader, NEW c \in Content,
                       up'[v].pc \in {"cleanup", "failed"}
                PROVE  row'[c].owner # v
    BY DEF Unpublished
  <2>1. Lossless
    BY FaultsCount DEF Next, UploadStep
  <2>2. CASE v = u
    <3>1. row' = row
      BY <2>2, CommitsAnswered
    <3>2. up[u].pc \in {"put", "insert", "commit", "cleanup"}
      BY <1>1, <2>2, <3>1 DEF UploadEffect, UploadAhead
    <3>. QED
      BY <2>1, <2>2, <3>1, <3>2 DEF UploadsPast, Unpublished
  <2>3. CASE v # u
    <3>1. row[c].owner # v
      BY <1>1, <2>1, <2>3 DEF Unpublished
    <3>2. row'[c].owner = row[c].owner \/ row'[c].owner = u
      <4>1. u \in Owner
        BY DEF Owner
      <4>. QED
        BY <1>1, <4>1, Publishing DEF UploadEffect
    <3>. QED
      BY <2>3, <3>1, <3>2
  <2>. QED
    BY <2>2, <2>3
<1>6. Moves'
  <2>1. ASSUME NEW k \in Keeper, NEW c \in bin[k].file
        PROVE  c \in Content /\ Owned(c) /\ bin[k].to \in Depth
    BY DEF BinOwned, TypeOK, BinState
  <2>. QED
    BY <1>1, <1>2, <2>1 DEF Moves
<1>7. Kept'
  <2>. SUFFICES ASSUME NEW c \in Content, Owned(c)', ~Gone(c)'
                PROVE  \E d \in Depth : ObjectAt(c, d)' \in objects'
    BY DEF Kept
  <2>1. CASE Owned(c)
    BY <1>2, <2>1 DEF Kept
  <2>2. CASE ~Owned(c)
    <3>1. row' # row
      BY <2>2 DEF Owned
    <3>2. row' = Published(u, up[u].file) /\ up[u].pc = "commit" /\ u \in Owner
      BY <1>1, <3>1 DEF UploadEffect, Owner
    <3>3. c \in up[u].file /\ row'[c].owner = u
      BY <2>2, <3>2, Publishing
    <3>4. <<u, c, 0>> \in objects /\ objects' = objects
      BY <3>2, <3>3, UploadObjects DEF PutFirst
    <3>. QED
      BY <3>3, <3>4, VaultConstants DEF ObjectAt, Depth
  <2>. QED
    BY <2>1, <2>2
<1>. QED
  BY <1>3, <1>4, <1>5, <1>6, <1>7

(* What an import has stored, it has put.                                  *)
LEMMA ImportStores ==
  ASSUME TypeOK, NoneStored, NEW i \in Importer, ImportStep(i)
  PROVE  /\ imp'[i].pc \in {"idle", "check"} =>
              imp[i].pc \in {"idle", "check"} /\ imp'[i].stored = imp[i].stored
         /\ imp'[i].pc = "store" =>
              /\ \A c \in imp'[i].stored : c \in imp[i].stored \/ <<i, c, 0>> \in objects'
              /\ imp[i].stored \subseteq imp'[i].stored
              /\ \A c \in imp'[i].inserted : c \in imp[i].inserted \/ c \in imp[i].stored
<1>. imp[i] \in ImportState
  BY DEF TypeOK
<1>1. CASE ImportStart(i)
  <2>1. PICK files \in SUBSET Content :
          SetImp(i, [imp[i] EXCEPT !.pc = "check", !.package = files])
    BY <1>1 DEF ImportStart
  <2>2. imp'[i] = [imp[i] EXCEPT !.pc = "check", !.package = files]
    BY <2>1 DEF SetImp, TypeOK
  <2>. QED
    BY <1>1, <2>2 DEF ImportStart, ImportState
<1>2. CASE ImportCheck(i)
  <2>1. PICK c \in imp[i].package :
          \/ SetImp(i, [imp[i] EXCEPT !.pc = "refused"])
          \/ SetImp(i, [imp[i] EXCEPT !.checked = imp[i].checked \cup {c}, !.pc = "store"])
          \/ SetImp(i, [imp[i] EXCEPT !.checked = imp[i].checked \cup {c}, !.pc = "check"])
    BY <1>2, Zenon DEF ImportCheck
  <2>2. \/ imp'[i] = [imp[i] EXCEPT !.pc = "refused"]
        \/ imp'[i] = [imp[i] EXCEPT !.checked = imp[i].checked \cup {c}, !.pc = "store"]
        \/ imp'[i] = [imp[i] EXCEPT !.checked = imp[i].checked \cup {c}, !.pc = "check"]
    BY <2>1 DEF SetImp, TypeOK
  <2>3. imp[i].pc = "check"
    BY <1>2 DEF ImportCheck
  <2>. QED
    BY <2>2, <2>3 DEF ImportState
<1>3. CASE ImportPut(i)
  <2>1. PICK c \in Content : /\ objects' = objects \cup {<<i, c, 0>>}
                             /\ imp'[i] = [imp[i] EXCEPT !.stored = imp[i].stored \cup {c}]
    BY <1>3 DEF ImportPut, SetImp, TypeOK, ImportState
  <2>2. imp[i].pc = "store"
    BY <1>3 DEF ImportPut
  <2>. QED
    BY <2>1, <2>2 DEF ImportState
<1>4. CASE ImportInsert(i)
  <2>1. PICK c \in imp[i].stored :
          \/ SetImp(i, [imp[i] EXCEPT !.pc = "failed"])
          \/ SetImp(i, [imp[i] EXCEPT !.inserted = imp[i].inserted \cup {c}])
    BY <1>4 DEF ImportInsert
  <2>2. \/ imp'[i] = [imp[i] EXCEPT !.pc = "failed"]
        \/ imp'[i] = [imp[i] EXCEPT !.inserted = imp[i].inserted \cup {c}]
    BY <2>1 DEF SetImp, TypeOK
  <2>3. imp[i].pc = "store"
    BY <1>4 DEF ImportInsert
  <2>. QED
    BY <2>2, <2>3 DEF ImportState
<1>5. CASE ImportCommit(i)
  <2>1. imp'[i] = [imp[i] EXCEPT !.pc = "done"]
    BY <1>5 DEF ImportCommit, SetImp, TypeOK
  <2>. QED
    BY <2>1 DEF ImportState
<1>6. CASE DeadlockVictim(i) \/ ImportFails(i) \/ ImportAnswerLost(i)
  <2>1. imp'[i] = [imp[i] EXCEPT !.pc = "failed"]
    BY <1>6 DEF DeadlockVictim, ImportFails, ImportAnswerLost, SetImp, TypeOK
  <2>. QED
    BY <2>1 DEF ImportState
<1>. QED
  BY <1>1, <1>2, <1>3, <1>4, <1>5, <1>6 DEF ImportStep, Import

LEMMA ImportSInv ==
  ASSUME TypeOK, RInv, SInv, NEW i \in Importer, ImportStep(i)
  PROVE  SInv'
<1>. USE DEF RInv, SInv
<1>1. /\ UNCHANGED <<up, bin>>
      /\ \A j \in Importer \ {i} : imp'[j] = imp[j]
      /\ ImportEffect(i)
  BY ImportEffects
<1>2. \A c \in Content : Owned(c) =>
        /\ row'[c] = row[c]
        /\ \A d \in Depth : ObjectAt(c, d) \in objects => ObjectAt(c, d)' \in objects'
  BY ImportLeavesRows
<1>3. objects \subseteq objects' /\ \A c \in Content : Owned(c) => (Gone(c)' <=> Gone(c))
  BY <1>1, <1>2, ImportObjects DEF Gone
<1>4. Alone' /\ OneMoved'
  BY <1>1 DEF Alone, OneMoved
<1>5. NoneStored'
  BY <1>1, ImportStores DEF NoneStored
<1>6. PutFirst'
  <2>1. \A u \in Uploader : up'[u].pc \in {"insert", "commit"} =>
          \A c \in up'[u].file : <<u, c, 0>> \in objects'
    BY <1>1, <1>3 DEF PutFirst
  <2>2. \A j \in Importer \ {i} : imp'[j].pc = "store" =>
          /\ imp'[j].inserted \subseteq imp'[j].stored
          /\ \A c \in imp'[j].stored : <<j, c, 0>> \in objects'
    BY <1>1, <1>3 DEF PutFirst
  <2>3. ASSUME imp'[i].pc = "store"
        PROVE  /\ imp'[i].inserted \subseteq imp'[i].stored
               /\ \A c \in imp'[i].stored : <<i, c, 0>> \in objects'
    <3>1. CASE imp[i].pc = "store"
      BY <1>3, <2>3, <3>1, ImportStores DEF PutFirst
    <3>2. CASE imp[i].pc = "check"
      <4>1. imp[i].stored = {} /\ imp[i].inserted = {}
        BY <3>2 DEF NoneStored, NoneInserted
      <4>. QED
        BY <2>3, <4>1, ImportStores
    <3>. QED
      BY <1>1, <2>3, <3>1, <3>2 DEF ImportEffect, ImportAhead
  <2>. QED
    BY <2>1, <2>2, <2>3 DEF PutFirst
<1>7. Unpublished'
  <2>1. \A c \in Content : row'[c].owner = row[c].owner \/ row'[c].owner = i
    <3>1. i \in Owner
      BY DEF Owner
    <3>. QED
      BY <1>1, <3>1, Publishing DEF ImportEffect
  <2>2. Lossless' => Lossless
    BY FaultsCount DEF Next, ImportStep
  <2>. QED
    BY <1>1, <2>1, <2>2, VaultConstants DEF Unpublished
<1>8. Moves'
  <2>1. ASSUME NEW k \in Keeper, NEW c \in bin[k].file
        PROVE  c \in Content /\ Owned(c) /\ bin[k].to \in Depth
    BY DEF BinOwned, TypeOK, BinState
  <2>. QED
    BY <1>1, <1>2, <1>3, <2>1 DEF Moves
<1>9. Kept'
  <2>. SUFFICES ASSUME NEW c \in Content, Owned(c)', ~Gone(c)'
                PROVE  \E d \in Depth : ObjectAt(c, d)' \in objects'
    BY DEF Kept
  <2>1. CASE Owned(c)
    BY <1>2, <1>3, <2>1 DEF Kept
  <2>2. CASE ~Owned(c)
    <3>1. row' # row
      BY <2>2 DEF Owned
    <3>2. /\ row' = Published(i, imp[i].package) /\ imp[i].inserted = imp[i].package
          /\ imp[i].pc = "store" /\ i \in Owner
      BY <1>1, <3>1 DEF ImportEffect, Owner
    <3>3. c \in imp[i].package /\ row'[c].owner = i
      BY <2>2, <3>2, Publishing
    <3>4. <<i, c, 0>> \in objects'
      BY <1>3, <3>2, <3>3 DEF PutFirst
    <3>. QED
      BY <3>3, <3>4, VaultConstants DEF ObjectAt, Depth
  <2>. QED
    BY <2>1, <2>2
<1>. QED
  BY <1>4, <1>5, <1>6, <1>7, <1>8, <1>9

(* A step of the recycle bin removes at most the source of its move: the   *)
(* rest of the invariant is about its own session and its own file.        *)
LEMMA BinFrame ==
  ASSUME TInv, RInv, SInv, NEW k \in Keeper, BinStep(k),
         \A e \in objects : e \in objects' \/
            (bin[k].pc = "remove" /\ \E c \in bin[k].file : e = ObjectAt(c, bin[k].from)),
         \A c \in bin'[k].file : c \in bin[k].file \/ \A j \in Keeper \ {k} : c \notin bin[j].file,
         \A c, d \in bin'[k].file : c = d,
         bin'[k].pc \in {"copy", "remove"} => bin'[k].to # bin'[k].from,
         bin'[k].kind = "delete" /\ bin'[k].pc # "idle" => bin'[k].to # bin'[k].from,
         bin'[k].pc = "remove" => \A c \in bin'[k].file : ObjectAt(c, bin'[k].to) \in objects'
  PROVE  SInv'
<1>. USE DEF RInv, SInv, TInv
<1>1. /\ UNCHANGED <<up, imp>>
      /\ \A j \in Keeper \ {k} : bin'[j] = bin[j]
      /\ \A c \in Content : row'[c].owner = row[c].owner
      /\ RowsOwned' /\ BinOwned'
  BY BinEffects
<1>2. \A c \in Content : (Owned(c)' <=> Owned(c)) /\ (Gone(c)' <=> Gone(c))
                         /\ \A d \in Depth : ObjectAt(c, d)' = ObjectAt(c, d)
  BY <1>1 DEF Owned, ObjectAt, Gone
<1>3. \A j \in Keeper : \A c \in bin[j].file : c \in Content /\ Owned(c) /\ bin[j].to \in Depth
  BY DEF BinOwned, TypeOK, BinState
<1>4. Alone' /\ OneMoved' /\ NoneStored' /\ Unpublished'
  <2>1. Alone'
    BY <1>1 DEF Alone
  <2>2. OneMoved'
    BY <1>1 DEF OneMoved
  <2>3. Lossless' => Lossless
    BY FaultsCount DEF Next, BinStep
  <2>4. NoneStored' /\ Unpublished'
    BY <1>1, <2>3 DEF NoneStored, Unpublished
  <2>. QED
    BY <2>1, <2>2, <2>4
<1>5. PutFirst'
  <2>1. ASSUME NEW u \in Uploader, up[u].pc \in {"insert", "commit"}, NEW c \in up[u].file
        PROVE  <<u, c, 0>> \in objects'
    <3>1. c \in Content /\ row[c].owner # u /\ <<u, c, 0>> \in objects
      BY <2>1 DEF PutFirst, UploadsPast, TypeOK, UploadState
    <3>. QED
      BY <3>1 DEF ObjectAt
  <2>2. ASSUME NEW i \in Importer, imp[i].pc = "store", NEW c \in imp[i].stored
        PROVE  <<i, c, 0>> \in objects'
    <3>1. c \in Content /\ row[c].owner # i /\ <<i, c, 0>> \in objects
      BY <2>2 DEF PutFirst, Whole, TypeOK, ImportState
    <3>. QED
      BY <3>1 DEF ObjectAt
  <2>. QED
    BY <1>1, <2>1, <2>2 DEF PutFirst
<1>6. Moves'
  <2>1. ASSUME NEW j \in Keeper \ {k}, bin[j].pc = "remove", NEW c \in bin[j].file, ~Gone(c)
        PROVE  ObjectAt(c, bin[j].to) \in objects'
    <3>1. ObjectAt(c, bin[j].to) \in objects
      BY <2>1 DEF Moves
    <3>2. c \notin bin[k].file
      BY <2>1 DEF Alone
    <3>. QED
      BY <3>1, <3>2 DEF ObjectAt
  <2>2. \A j \in Keeper : \A c \in bin'[j].file :
           /\ c \in Content /\ Owned(c)' /\ (Gone(c)' <=> Gone(c))
           /\ \A d : ObjectAt(c, d)' = ObjectAt(c, d)
    <3>1. \A j \in Keeper : bin'[j].file \subseteq Content
      <4>1. bin'[k].file \subseteq Content
        BY BinTypes DEF BinStep, TypeOK, BinState
      <4>. QED
        BY <1>1, <4>1 DEF TypeOK, BinState
    <3>. QED
      BY <1>1, <1>2, <3>1 DEF BinOwned, ObjectAt
  <2>. QED
    BY <1>1, <2>1, <2>2 DEF Moves
<1>7. Kept'
  <2>. SUFFICES ASSUME NEW c \in Content, Owned(c), ~Gone(c)
                PROVE  \E d \in Depth : ObjectAt(c, d) \in objects'
    BY <1>2 DEF Kept
  <2>1. PICK d \in Depth : ObjectAt(c, d) \in objects
    BY DEF Kept
  <2>2. CASE ObjectAt(c, d) \in objects'
    BY <2>2
  <2>3. CASE ObjectAt(c, d) \notin objects'
    <3>1. bin[k].pc = "remove" /\ c \in bin[k].file /\ d = bin[k].from
      BY <2>1, <2>3 DEF ObjectAt
    <3>2. ObjectAt(c, bin[k].to) \in objects /\ bin[k].to # bin[k].from /\ bin[k].to \in Depth
      BY <1>3, <3>1 DEF Moves
    <3>3. ObjectAt(c, bin[k].to) \in objects'
      BY <3>2 DEF ObjectAt
    <3>. QED
      BY <3>2, <3>3
  <2>. QED
    BY <2>2, <2>3
<1>. QED
  BY <1>4, <1>5, <1>6, <1>7

LEMMA BinSInv ==
  ASSUME TInv, RInv, SInv, Serial, NEW k \in Keeper, BinStep(k)
  PROVE  SInv'
<1>. USE DEF RInv, SInv, TInv
<1>. bin[k] \in BinState
  BY DEF TypeOK
<1>0. ASSUME NEW r, SetBin(k, r) PROVE bin'[k] = r
  BY <1>0 DEF SetBin, TypeOK
<1>1. ASSUME NEW c \in Content, DeleteRead(k, c) PROVE SInv'
  <2>1. bin'[k] = [pc |-> "flush", kind |-> "delete", file |-> {c},
                   from |-> row[c].depth, to |-> row[c].depth + 1]
    BY <1>1 DEF DeleteRead, SetBin, TypeOK
  <2>2. objects' = objects /\ row[c].depth # row[c].depth + 1
    BY <1>1 DEF DeleteRead, TypeOK, Row, Depth
  <2>3. \A j \in Keeper \ {k} : c \notin bin[j].file
    BY <1>1 DEF DeleteRead, Undisturbed
  <2>. QED
    BY <2>1, <2>2, <2>3, BinFrame
<1>2. ASSUME NEW c \in Content, RestoreRead(k, c) PROVE SInv'
  <2>1. bin'[k] = [pc |-> "probe", kind |-> "restore", file |-> {c},
                   from |-> row[c].depth, to |-> row[c].depth]
    BY <1>2 DEF RestoreRead, SetBin, TypeOK
  <2>2. objects' = objects
    BY <1>2 DEF RestoreRead
  <2>3. \A j \in Keeper \ {k} : c \notin bin[j].file
    BY <1>2 DEF RestoreRead, Undisturbed
  <2>. QED
    BY <2>1, <2>2, <2>3, BinFrame
<1>3. CASE RestoreProbe(k)
  <2>0. bin[k].pc = "probe" /\ bin[k].to = bin[k].from /\ bin[k].kind # "delete"
    BY <1>3 DEF RestoreProbe, ProbesStay, Moves
  <2>1. \/ bin'[k] = [bin[k] EXCEPT !.pc = "flush"]
        \/ bin'[k] = [bin[k] EXCEPT !.pc = "copy", !.to = bin[k].to - 1]
    BY <1>3 DEF RestoreProbe, SetBin, TypeOK
  <2>2. objects' = objects
    BY <1>3 DEF RestoreProbe
  <2>3. /\ bin'[k].file = bin[k].file /\ bin'[k].kind = bin[k].kind
        /\ bin'[k].pc = "flush" \/ (bin'[k].pc = "copy" /\ bin'[k].to # bin'[k].from)
    <3>1. CASE bin'[k] = [bin[k] EXCEPT !.pc = "flush"]
      BY <3>1 DEF BinState
    <3>2. CASE bin'[k] = [bin[k] EXCEPT !.pc = "copy", !.to = bin[k].to - 1]
      <4>1. /\ bin'[k].file = bin[k].file /\ bin'[k].kind = bin[k].kind
            /\ bin'[k].pc = "copy"
            /\ bin'[k].from = bin[k].from /\ bin'[k].to = bin[k].to - 1
        BY <3>2 DEF BinState
      <4>2. bin[k].to \in Int
        BY VaultConstants DEF BinState, Depth
      <4>. QED
        BY <2>0, <4>1, <4>2
    <3>. QED
      BY <2>1, <3>1, <3>2
  <2>. QED
    BY <2>0, <2>2, <2>3, BinFrame DEF OneMoved
<1>4. CASE MoveCopy(k)
  <2>0. bin[k].pc = "copy"
    BY <1>4 DEF MoveCopy
  <2>1. PICK c \in bin[k].file :
          \/ /\ objects' = objects \cup {ObjectAt(c, bin[k].to)}
             /\ bin'[k] = [bin[k] EXCEPT !.pc = "remove"]
          \/ bin'[k] = Rest /\ objects' = objects
    BY <1>4 DEF MoveCopy, SetBin, TypeOK
  <2>2. CASE bin'[k] = Rest /\ objects' = objects
    BY <2>2, BinFrame DEF Rest
  <2>3. CASE /\ objects' = objects \cup {ObjectAt(c, bin[k].to)}
             /\ bin'[k] = [bin[k] EXCEPT !.pc = "remove"]
    <3>1. /\ bin'[k].file = bin[k].file /\ bin'[k].to = bin[k].to
          /\ bin'[k].from = bin[k].from /\ bin'[k].pc = "remove"
      BY <2>3 DEF BinState
    <3>2. bin[k].to # bin[k].from /\ \A d \in bin[k].file : d = c
      BY <2>0 DEF Moves, OneMoved
    <3>. QED
      BY <2>3, <3>1, <3>2, BinFrame
  <2>. QED
    BY <2>1, <2>2, <2>3
<1>5. CASE MoveRemove(k)
  <2>0. /\ bin[k].pc = "remove"
        /\ objects' = objects \ {ObjectAt(c, bin[k].from) : c \in bin[k].file}
    BY <1>5 DEF MoveRemove
  <2>1. bin'[k] = Rest \/ (bin[k].kind # "delete" /\ bin'[k] = [bin[k] EXCEPT !.pc = "flush"])
    BY <1>5 DEF MoveRemove, SetBin, TypeOK
  <2>2. CASE bin'[k] = Rest
    BY <2>0, <2>2, BinFrame DEF Rest
  <2>3. CASE bin[k].kind # "delete" /\ bin'[k] = [bin[k] EXCEPT !.pc = "flush"]
    <3>1. /\ bin'[k].file = bin[k].file /\ bin'[k].pc = "flush"
          /\ bin'[k].kind = bin[k].kind
      BY <2>3 DEF BinState
    <3>. QED
      BY <2>0, <2>3, <3>1, BinFrame DEF OneMoved
  <2>. QED
    BY <2>1, <2>2, <2>3
<1>6. CASE BinFlush(k)
  <2>1. /\ bin'[k] = [bin[k] EXCEPT !.pc = "commit"] /\ objects' = objects
        /\ bin[k].pc = "flush"
    BY <1>6 DEF BinFlush, SetBin, TypeOK
  <2>2. /\ bin'[k].file = bin[k].file /\ bin'[k].to = bin[k].to /\ bin'[k].kind = bin[k].kind
        /\ bin'[k].from = bin[k].from /\ bin'[k].pc = "commit"
    BY <2>1 DEF BinState
  <2>. QED
    <3>1. bin[k].kind = "delete" => bin[k].to # bin[k].from
      BY <2>1 DEF Moves
    <3>. QED
      <4>1. \A c, d \in bin'[k].file : c = d
        BY <2>2 DEF OneMoved
      <4>2. \A e \in objects : e \in objects'
        BY <2>1
      <4>3. bin'[k].kind = "delete" => bin'[k].to # bin'[k].from
        BY <2>2, <3>1
      <4>4. bin'[k].pc \notin {"copy", "remove"} /\ bin'[k].file = bin[k].file
        BY <2>2
      <4>. QED
        BY <4>1, <4>2, <4>3, <4>4, BinFrame
<1>7. CASE BinCommit(k)
  <2>0. objects' = objects /\ bin[k].pc = "commit"
    BY <1>7 DEF BinCommit
  <2>1. \/ bin'[k] = Rest
        \/ bin[k].kind = "delete" /\ bin'[k] = [bin[k] EXCEPT !.pc = "copy"]
    BY <1>7 DEF BinCommit, SetBin, TypeOK
  <2>2. CASE bin'[k] = Rest
    BY <2>0, <2>2, BinFrame DEF Rest
  <2>3. CASE bin[k].kind = "delete" /\ bin'[k] = [bin[k] EXCEPT !.pc = "copy"]
    <3>1. /\ bin'[k].file = bin[k].file /\ bin'[k].to = bin[k].to
          /\ bin'[k].from = bin[k].from /\ bin'[k].pc = "copy"
      BY <2>3 DEF BinState
    <3>. QED
      <4>1. bin[k].to # bin[k].from
        BY <2>0, <2>3 DEF Moves
      <4>. QED
        BY <2>0, <3>1, <4>1, BinFrame DEF OneMoved
  <2>. QED
    BY <2>1, <2>2, <2>3
<1>8. CASE BinFails(k) \/ BinAnswerLost(k)
  <2>1. bin'[k] = Rest /\ objects' = objects
    BY <1>8 DEF BinFails, BinAnswerLost, SetBin, TypeOK
  <2>. QED
    BY <2>1, BinFrame DEF Rest
<1>. QED
  BY <1>1, <1>2, <1>3, <1>4, <1>5, <1>6, <1>7, <1>8 DEF BinStep, Bin, BinWork

LEMMA RestartSInv == TypeOK /\ SInv /\ Restart => SInv'
<1>. SUFFICES ASSUME TypeOK, SInv, Restart PROVE SInv'
  OBVIOUS
<1>. USE DEF SInv
<1>1. Alone' /\ OneMoved' /\ NoneStored'
  BY RestartEffects DEF Alone, OneMoved, NoneStored, Rest
<1>2. PutFirst'
  BY RestartEffects DEF PutFirst
<1>3. Unpublished'
  <2>1. Lossless' => Lossless
    BY FaultsCount DEF Next
  <2>. QED
    BY <2>1, RestartEffects DEF Unpublished
<1>4. Moves' /\ Kept'
  BY RestartEffects DEF Moves, Kept, Rest, Owned, ObjectAt, Gone
<1>. QED
  BY <1>1, <1>2, <1>3, <1>4

LEMMA SInvStep ==
  ASSUME Serial
  PROVE  TInv /\ RInv /\ SInv /\ [Next]_vars => SInv'
<1>. SUFFICES ASSUME TInv, RInv, SInv, [Next]_vars PROVE SInv'
  OBVIOUS
<1>1. CASE UNCHANGED vars
  BY <1>1 DEF vars, SInv, Alone, OneMoved, PutFirst, NoneStored, Unpublished, Moves, Kept,
              Owned, ObjectAt, Gone, Lossless
<1>. QED
  BY <1>1, UploadSInv, ImportSInv, BinSInv, RestartSInv
     DEF Next, UploadStep, ImportStep, BinStep, TInv

(* No interleaving of requests, no restart, no failure and no lost answer  *)
(* at any step loses the bytes of an evidence row that was not refused,    *)
(* when its deletes and restores do not overlap.                           *)
THEOREM AcceptedBytesSurvive ==
  ASSUME Serial
  PROVE  Spec => []AcceptedContentNeverLost
<1>1. TInv /\ RInv /\ SInv => AcceptedContentNeverLost
  BY ExistsOwned
     DEF TInv, RInv, SInv, Kept, Gone, Refused, AcceptedContentNeverLost
<1>2. TInv /\ RInv /\ SInv /\ [Next]_vars => SInv'
  BY SInvStep
<1>. QED
  BY <1>1, <1>2, Reached, InitSInv, PTL DEF Spec

(* Nor of a row of a refused upload, when the answers of COMMITs arrive.   *)
THEOREM BytesSurvive ==
  ASSUME Serial, "upload_answer" \notin Faults
  PROVE  Spec => []ContentNeverLost
<1>1. TInv /\ RInv /\ SInv => ContentNeverLost
  BY ExistsOwned
     DEF TInv, RInv, SInv, Kept, Gone, Unpublished, Lossless, ContentNeverLost
<1>2. TInv /\ RInv /\ SInv /\ [Next]_vars => SInv'
  BY SInvStep
<1>. QED
  BY <1>1, <1>2, Reached, InitSInv, PTL DEF Spec

-----------------------------------------------------------------------------
(* Reading.  When moves neither overlap nor break off, the object of a row *)
(* no session works on is where the row says, and a session leaves it      *)
(* there until the row says otherwise.                                     *)

Here(c, d) == ObjectAt(c, d) \in objects
Settled == \A c \in Content :
  Owned(c) /\ (\A k \in Keeper : c \notin bin[k].file) => Here(c, row[c].depth)
Ready(k, c) ==
  /\ bin[k].pc \in {"copy", "remove", "flush", "commit"}
       \/ (bin[k].kind = "restore" /\ bin[k].pc = "probe")
  /\ row[c].depth = IF bin[k].kind = "delete" /\ bin[k].pc \in {"copy", "remove"}
                    THEN bin[k].to ELSE bin[k].from
  /\ row[c].deleted <=> ~(bin[k].kind = "delete" /\ bin[k].pc \in {"flush", "commit"})
  /\ bin[k].kind = "delete" /\ bin[k].pc \in {"flush", "commit"} => Here(c, bin[k].from)
  /\ bin[k].pc \in {"probe", "copy"} => Here(c, bin[k].from)
  /\ bin[k].kind = "restore" /\ bin[k].pc \in {"flush", "commit"} => Here(c, bin[k].to)
AllReady == \A k \in Keeper : \A c \in bin[k].file : Ready(k, c)
IdleEmpty == \A k \in Keeper : bin[k].pc = "idle" => bin[k].file = {}

LInv == Settled /\ AllReady /\ IdleEmpty

(* Until the first fault, or with failures of the store only.              *)
Calm == faults = 0 \/ Faults \subseteq {"store_failure"}

LEMMA InitLInv == Init => LInv
BY DEF Init, LInv, Settled, AllReady, IdleEmpty, Owned, NoRow, Rest

LEMMA NewRowsStored ==
  ASSUME TypeOK, RInv, SInv, NEW c \in Content, ~Owned(c), Owned(c)',
         NEW x \in Owner, (x \in Uploader /\ UploadStep(x)) \/ (x \in Importer /\ ImportStep(x))
  PROVE  Here(c, row[c].depth)'
<1>. USE DEF RInv, SInv
<1>1. row' # row
  BY DEF Owned
<1>2. CASE x \in Uploader /\ UploadStep(x)
  <2>1. row' = Published(x, up[x].file) /\ up[x].pc = "commit"
    BY <1>1, <1>2, UploadEffects DEF UploadEffect
  <2>2. c \in up[x].file /\ row'[c] = NewRow(x)
    BY <2>1, Publishing
  <2>3. <<x, c, 0>> \in objects /\ objects' = objects
    BY <1>2, <2>1, <2>2, UploadObjects DEF PutFirst
  <2>. QED
    BY <2>2, <2>3 DEF NewRow, Here, ObjectAt
<1>3. CASE x \in Importer /\ ImportStep(x)
  <2>1. /\ row' = Published(x, imp[x].package) /\ imp[x].inserted = imp[x].package
        /\ imp[x].pc = "store"
    BY <1>1, <1>3, ImportEffects DEF ImportEffect
  <2>2. c \in imp[x].package /\ row'[c] = NewRow(x)
    BY <2>1, Publishing
  <2>3. <<x, c, 0>> \in objects'
    BY <1>3, <2>1, <2>2, ImportObjects DEF PutFirst
  <2>. QED
    BY <2>2, <2>3 DEF NewRow, Here, ObjectAt
<1>. QED
  BY <1>2, <1>3

LEMMA RequestLInv ==
  ASSUME TypeOK, RInv, SInv, LInv, NEW x \in Owner, \A c \in Content : ~Gone(c)',
         (x \in Uploader /\ UploadStep(x)) \/ (x \in Importer /\ ImportStep(x))
  PROVE  LInv'
<1>. USE DEF RInv, SInv, LInv
<1>1. bin' = bin
  BY UploadEffects, ImportEffects
<1>2. ASSUME NEW c \in Content, Owned(c)
      PROVE  row'[c] = row[c] /\ \A d \in Depth : Here(c, d) => Here(c, d)'
  BY <1>2, UploadLeavesRows, ImportLeavesRows DEF Here
<1>3. IdleEmpty'
  BY <1>1 DEF IdleEmpty
<1>4. ASSUME NEW k \in Keeper, NEW c \in bin[k].file PROVE Ready(k, c)'
  <2>1. c \in Content /\ Owned(c) /\ bin[k].from \in Depth /\ bin[k].to \in Depth
    BY DEF BinOwned, TypeOK, BinState
  <2>2. Ready(k, c)
    BY DEF AllReady
  <2>. QED
    BY <1>1, <1>2, <2>1, <2>2 DEF Ready
<1>5. ASSUME NEW c \in Content, Owned(c)', \A k \in Keeper : c \notin bin'[k].file
      PROVE  Here(c, row[c].depth)'
  <2>1. CASE Owned(c)
    <3>1. Here(c, row[c].depth) /\ row[c].depth \in Depth
      BY <1>1, <1>5, <2>1 DEF Settled, TypeOK, Row
    <3>2. Here(c, row[c].depth)' <=> <<row'[c].owner, c, row'[c].depth>> \in objects'
      BY DEF Here, ObjectAt
    <3>3. <<row[c].owner, c, row[c].depth>> \in objects'
      BY <1>2, <2>1, <3>1 DEF Here, ObjectAt
    <3>. QED
      BY <1>2, <2>1, <3>2, <3>3
  <2>2. CASE ~Owned(c)
    BY <1>5, <2>2, NewRowsStored
  <2>. QED
    BY <2>1, <2>2
<1>. QED
  BY <1>1, <1>3, <1>4, <1>5 DEF Settled, AllReady

LEMMA LiveFrame ==
  ASSUME TInv, RInv, SInv, LInv, NEW k \in Keeper, BinStep(k),
         \A e \in objects : e \in objects' \/
            (bin[k].pc = "remove" /\ \E c \in bin[k].file : e = ObjectAt(c, bin[k].from)),
         \A c \in Content \ bin[k].file : row'[c] = row[c],
         \A c \in bin[k].file : c \in bin'[k].file \/ Here(c, row[c].depth)',
         \A c \in bin'[k].file : Ready(k, c)',
         bin'[k].pc = "idle" => bin'[k].file = {}
  PROVE  LInv'
<1>. USE DEF RInv, SInv, LInv, TInv
<1>1. /\ \A j \in Keeper \ {k} : bin'[j] = bin[j]
      /\ \A c \in Content : row'[c].owner = row[c].owner
  BY BinEffects
<1>2. ASSUME NEW c \in Content \ bin[k].file, NEW d, Here(c, d) PROVE Here(c, d)'
  BY <1>1, <1>2 DEF Here, ObjectAt
<1>3. ASSUME NEW j \in Keeper \ {k}, NEW c \in bin[j].file PROVE Ready(j, c)'
  <2>1. c \in Content \ bin[k].file
    BY DEF Alone, TypeOK, BinState
  <2>2. Ready(j, c)
    BY DEF AllReady
  <2>. QED
    BY <1>1, <1>2, <2>1, <2>2 DEF Ready
<1>4. ASSUME NEW c \in Content, Owned(c)', \A j \in Keeper : c \notin bin'[j].file
      PROVE  Here(c, row[c].depth)'
  <2>1. CASE c \in bin[k].file
    BY <1>4, <2>1
  <2>2. CASE c \notin bin[k].file
    <3>1. row'[c] = row[c] /\ Here(c, row[c].depth)
      BY <1>1, <1>4, <2>2 DEF Settled, Owned
    <3>2. <<row[c].owner, c, row[c].depth>> \in objects'
      BY <1>1, <1>2, <2>2, <3>1 DEF Here, ObjectAt
    <3>. QED
      BY <3>1, <3>2 DEF Here, ObjectAt
  <2>. QED
    BY <2>1, <2>2
<1>5. AllReady' /\ IdleEmpty'
  BY <1>1, <1>3 DEF AllReady, IdleEmpty
<1>6. Settled'
  BY <1>4 DEF Settled
<1>. QED
  BY <1>5, <1>6

LEMMA BinLInv ==
  ASSUME TInv, RInv, SInv, LInv, Serial, Calm', \A c \in Content : ~Gone(c),
         NEW k \in Keeper, BinStep(k)
  PROVE  LInv'
<1>. USE DEF RInv, SInv, LInv, TInv
<1>. bin[k] \in BinState
  BY DEF TypeOK
<1>0. /\ \A c \in Content : row'[c].owner = row[c].owner
      /\ \A c \in bin[k].file : c \in Content /\ Owned(c) /\ Ready(k, c)
  BY BinEffects DEF BinOwned, AllReady, BinState
<1>1. ASSUME NEW c \in Content, DeleteRead(k, c) PROVE LInv'
  <2>1. bin'[k] = [pc |-> "flush", kind |-> "delete", file |-> {c},
                   from |-> row[c].depth, to |-> row[c].depth + 1]
    BY <1>1 DEF DeleteRead, SetBin, TypeOK
  <2>2. /\ objects' = objects /\ row' = row /\ ~row[c].deleted /\ Exists(c)
        /\ bin[k].file = {}
    BY <1>1 DEF DeleteRead, IdleEmpty
  <2>3. Here(c, row[c].depth)
    BY <1>1, <2>2, ExistsOwned DEF DeleteRead, Undisturbed, Settled
  <2>4. Ready(k, c)'
    BY <2>1, <2>2, <2>3 DEF Ready, Here, ObjectAt
  <2>. QED
    BY <2>1, <2>2, <2>4, LiveFrame
<1>2. ASSUME NEW c \in Content, RestoreRead(k, c) PROVE LInv'
  <2>1. bin'[k] = [pc |-> "probe", kind |-> "restore", file |-> {c},
                   from |-> row[c].depth, to |-> row[c].depth]
    BY <1>2 DEF RestoreRead, SetBin, TypeOK
  <2>2. /\ objects' = objects /\ row' = row /\ row[c].deleted
        /\ bin[k].file = {}
    BY <1>2 DEF RestoreRead, IdleEmpty
  <2>3. Owned(c)
    BY <2>2 DEF RowsOwned, NoRow
  <2>4. Here(c, row[c].depth)
    BY <1>2, <2>2, <2>3 DEF RestoreRead, Undisturbed, Settled
  <2>5. Ready(k, c)'
    BY <2>1, <2>2, <2>4 DEF Ready, Here, ObjectAt
  <2>. QED
    BY <2>1, <2>2, <2>5, LiveFrame
<1>3. CASE RestoreProbe(k)
  <2>0. /\ bin[k].pc = "probe" /\ bin[k].to = bin[k].from /\ bin[k].kind = "restore"
        /\ objects' = objects /\ row' = row
    BY <1>3 DEF RestoreProbe, ProbesStay, Moves, BinState
  <2>1. \/ bin'[k] = [bin[k] EXCEPT !.pc = "flush"]
        \/ bin'[k] = [bin[k] EXCEPT !.pc = "copy", !.to = bin[k].to - 1]
    BY <1>3 DEF RestoreProbe, SetBin, TypeOK
  <2>2. /\ bin'[k].file = bin[k].file /\ bin'[k].kind = "restore"
        /\ bin'[k].from = bin[k].from
        /\ \/ bin'[k].pc = "flush" /\ bin'[k].to = bin[k].to
           \/ bin'[k].pc = "copy"
    <3>1. CASE bin'[k] = [bin[k] EXCEPT !.pc = "flush"]
      BY <2>0, <3>1 DEF BinState
    <3>2. CASE bin'[k] = [bin[k] EXCEPT !.pc = "copy", !.to = bin[k].to - 1]
      BY <2>0, <3>2 DEF BinState
    <3>. QED
      BY <2>1, <3>1, <3>2
  <2>3. ASSUME NEW c \in bin[k].file PROVE Ready(k, c)'
    BY <1>0, <2>0, <2>2 DEF Ready, Here, ObjectAt
  <2>. QED
    BY <2>0, <2>2, <2>3, LiveFrame
<1>4. CASE MoveCopy(k)
  <2>0. bin[k].pc = "copy" /\ row' = row
    BY <1>4 DEF MoveCopy
  <2>1. PICK c \in bin[k].file :
          IF ObjectAt(c, bin[k].from) \in objects
          THEN /\ objects' = objects \cup {ObjectAt(c, bin[k].to)}
               /\ SetBin(k, [bin[k] EXCEPT !.pc = "remove"])
          ELSE SetBin(k, Rest) /\ UNCHANGED objects
    BY <1>4 DEF MoveCopy
  <2>2. ObjectAt(c, bin[k].from) \in objects
    BY <1>0, <2>0 DEF Ready, Here
  <2>3. /\ objects' = objects \cup {ObjectAt(c, bin[k].to)}
        /\ bin'[k] = [bin[k] EXCEPT !.pc = "remove"]
    BY <2>1, <2>2 DEF SetBin, TypeOK
  <2>4. /\ bin'[k].file = bin[k].file /\ bin'[k].to = bin[k].to
        /\ bin'[k].kind = bin[k].kind
        /\ bin'[k].from = bin[k].from /\ bin'[k].pc = "remove"
    BY <2>3 DEF BinState
  <2>5. ASSUME NEW e \in bin[k].file PROVE Ready(k, e)'
    <3>1. Ready(k, e)
      BY <1>0
    <3>. QED
      BY <2>0, <2>4, <3>1 DEF Ready
  <2>. QED
    BY <2>0, <2>3, <2>4, <2>5, LiveFrame
<1>5. CASE MoveRemove(k)
  <2>0. /\ bin[k].pc = "remove" /\ row' = row
        /\ objects' = objects \ {ObjectAt(c, bin[k].from) : c \in bin[k].file}
    BY <1>5 DEF MoveRemove
  <2>1. \/ bin[k].kind = "delete" /\ bin'[k] = Rest
        \/ bin[k].kind = "restore" /\ bin'[k] = [bin[k] EXCEPT !.pc = "flush"]
    BY <1>5 DEF MoveRemove, SetBin, TypeOK, BinState
  <2>2. ASSUME NEW c \in bin[k].file PROVE ObjectAt(c, bin[k].to) \in objects'
    <3>1. ObjectAt(c, bin[k].to) \in objects /\ bin[k].to # bin[k].from
      BY <1>0, <2>0, <2>2 DEF Moves
    <3>. QED
      BY <2>0, <3>1 DEF ObjectAt
  <2>3. CASE bin[k].kind = "delete" /\ bin'[k] = Rest
    <3>1. ASSUME NEW c \in bin[k].file PROVE Here(c, row[c].depth)'
      <4>1. row[c].depth = bin[k].to
        BY <1>0, <2>0, <2>3 DEF Ready
      <4>. QED
        BY <2>0, <2>2, <4>1 DEF Here, ObjectAt
    <3>. QED
      BY <2>0, <2>3, <3>1, LiveFrame DEF Rest
  <2>4. CASE bin[k].kind = "restore" /\ bin'[k] = [bin[k] EXCEPT !.pc = "flush"]
    <3>1. /\ bin'[k].file = bin[k].file /\ bin'[k].pc = "flush" /\ bin'[k].to = bin[k].to
          /\ bin'[k].kind = "restore" /\ bin'[k].from = bin[k].from
      BY <2>4 DEF BinState
    <3>2. ASSUME NEW c \in bin[k].file PROVE Ready(k, c)'
      BY <1>0, <2>0, <2>2, <2>4, <3>1 DEF Ready, Here, ObjectAt
    <3>. QED
      BY <2>0, <3>1, <3>2, LiveFrame
  <2>. QED
    BY <2>1, <2>3, <2>4
<1>6. CASE BinFlush(k)
  <2>1. /\ bin'[k] = [bin[k] EXCEPT !.pc = "commit"] /\ objects' = objects
        /\ bin[k].pc = "flush" /\ row' = row
    BY <1>6 DEF BinFlush, SetBin, TypeOK
  <2>2. /\ bin'[k].file = bin[k].file /\ bin'[k].to = bin[k].to /\ bin'[k].kind = bin[k].kind
        /\ bin'[k].from = bin[k].from /\ bin'[k].pc = "commit"
    BY <2>1 DEF BinState
  <2>3. ASSUME NEW c \in bin[k].file PROVE Ready(k, c)'
    BY <1>0, <2>1, <2>2 DEF Ready, Here, ObjectAt
  <2>. QED
    BY <2>1, <2>2, <2>3, LiveFrame
<1>7. CASE BinCommit(k)
  <2>0. objects' = objects /\ bin[k].pc = "commit" /\ WriteRow(k)
    BY <1>7 DEF BinCommit
  <2>1. \/ bin[k].kind = "restore" /\ bin'[k] = Rest
        \/ bin[k].kind = "delete" /\ bin'[k] = [bin[k] EXCEPT !.pc = "copy"]
    BY <1>7 DEF BinCommit, SetBin, TypeOK, BinState
  <2>2. \A c \in Content \ bin[k].file : row'[c] = row[c]
    BY <2>0 DEF WriteRow
  <2>3. ASSUME NEW c \in bin[k].file
        PROVE  /\ row'[c].deleted <=> bin[k].kind = "delete"
               /\ row'[c].depth = bin[k].to
    <3>1. row'[c] = Written(k, c) /\ row[c] \in Row /\ Ready(k, c)
      BY <1>0, <2>0 DEF WriteRow, TypeOK
    <3>2. row[c].depth = bin[k].from
      BY <2>0, <3>1 DEF Ready
    <3>3. /\ row'[c].deleted = (bin[k].kind = "delete")
          /\ row'[c].depth = IF bin[k].to # bin[k].from THEN bin[k].to ELSE row[c].depth
      BY <3>1 DEF Written, Row
    <3>. QED
      BY <3>2, <3>3
  <2>4. CASE bin[k].kind = "restore" /\ bin'[k] = Rest
    <3>1. ASSUME NEW c \in bin[k].file PROVE Here(c, row[c].depth)'
      <4>1. ObjectAt(c, bin[k].to) \in objects
        BY <1>0, <2>0, <2>4 DEF Ready, Here
      <4>. QED
        BY <1>0, <2>0, <2>3, <4>1 DEF Here, ObjectAt
    <3>. QED
      BY <2>0, <2>2, <2>4, <3>1, LiveFrame DEF Rest
  <2>5. CASE bin[k].kind = "delete" /\ bin'[k] = [bin[k] EXCEPT !.pc = "copy"]
    <3>1. /\ bin'[k].file = bin[k].file /\ bin'[k].to = bin[k].to
          /\ bin'[k].kind = "delete"
          /\ bin'[k].from = bin[k].from /\ bin'[k].pc = "copy"
      BY <2>5 DEF BinState
    <3>2. ASSUME NEW c \in bin[k].file PROVE Ready(k, c)'
      <4>1. Here(c, bin[k].from)'
        <5>1. ObjectAt(c, bin[k].from) \in objects
          BY <1>0, <2>0, <2>5 DEF Ready, Here
        <5>. QED
          BY <1>0, <2>0, <3>1, <5>1 DEF Here, ObjectAt
      <4>. QED
        BY <2>3, <2>5, <3>1, <4>1 DEF Ready, Here, ObjectAt
    <3>. QED
      BY <2>0, <2>2, <3>1, <3>2, LiveFrame
  <2>. QED
    BY <2>1, <2>4, <2>5
<1>8. ~BinFails(k) /\ ~BinAnswerLost(k)
  <2>1. faults \in Nat
    BY VaultConstants DEF TypeOK
  <2>. QED
    BY <2>1 DEF BinFails, BinAnswerLost, Fault, Calm
<1>. QED
  BY <1>1, <1>2, <1>3, <1>4, <1>5, <1>6, <1>7, <1>8 DEF BinStep, Bin, BinWork

LEMMA LInvStep ==
  ASSUME Serial
  PROVE  TInv /\ RInv /\ SInv /\ (Calm => LInv) /\ [Next]_vars => (Calm => LInv)'
<1>. SUFFICES ASSUME TInv, RInv, SInv, Calm => LInv, [Next]_vars, Calm' PROVE LInv'
  OBVIOUS
<1>0. Calm /\ LInv /\ faults \in Nat
  BY FaultsCount DEF TInv, Calm
<1>1. \A c \in Content : ~Gone(c) /\ ~Gone(c)'
  <2>1. SInv' /\ Lossless /\ Lossless'
    BY <1>0, SInvStep DEF Calm, Lossless
  <2>. QED
    BY <2>1 DEF SInv, Unpublished, Gone
<1>2. CASE UNCHANGED vars
  BY <1>0, <1>2 DEF vars, LInv, Settled, AllReady, IdleEmpty, Ready, Here, Owned, ObjectAt
<1>3. ~Restart
  BY <1>0 DEF Restart, Fault, Calm
<1>. QED
  BY <1>0, <1>1, <1>2, <1>3, RequestLInv, BinLInv
     DEF Next, UploadStep, ImportStep, BinStep, TInv, Owner

LEMMA LiveWhenCalm == TInv /\ RInv /\ LInv => LiveRowReadable
<1>. SUFFICES ASSUME TypeOK, RInv, LInv, NEW c \in Content, Exists(c), ~row[c].deleted
              PROVE  Here(c, row[c].depth)
  BY DEF TInv, LiveRowReadable, Here
<1>1. Owned(c)
  BY ExistsOwned DEF RInv
<1>2. CASE \A k \in Keeper : c \notin bin[k].file
  BY <1>1, <1>2 DEF LInv, Settled
<1>3. ASSUME NEW k \in Keeper, c \in bin[k].file PROVE Here(c, row[c].depth)
  <2>1. Ready(k, c)
    BY <1>3 DEF LInv, AllReady
  <2>. QED
    BY <2>1 DEF Ready
<1>. QED
  BY <1>2, <1>3

LEMMA CalmReached ==
  ASSUME Serial
  PROVE  Spec => [](Calm => LiveRowReadable)
<1>1. TInv /\ RInv /\ SInv /\ [Next]_vars => SInv'
  BY SInvStep
<1>2. TInv /\ RInv /\ SInv /\ (Calm => LInv) /\ [Next]_vars => (Calm => LInv)'
  BY LInvStep
<1>3. TInv /\ RInv /\ (Calm => LInv) => (Calm => LiveRowReadable)
  BY LiveWhenCalm
<1>. QED
  BY <1>1, <1>2, <1>3, Reached, InitSInv, InitLInv, PTL DEF Spec

(* Until the first fault, whoever reads a row that is not deleted finds    *)
(* its object, at every moment of every upload, import, delete and         *)
(* restore: each of them orders its object requests and its COMMIT so that *)
(* the row never points ahead.  It needs deletes and restores of a file    *)
(* that do not overlap.                                                    *)
THEOREM ReadableUntilFirstFault ==
  ASSUME Serial
  PROVE  Spec => []ReadableUntilAFault
<1>1. (Calm => LiveRowReadable) => ReadableUntilAFault
  BY DEF Calm, ReadableUntilAFault
<1>. QED
  BY <1>1, CalmReached, PTL

(* And ever after, when all that fails is the store.                       *)
THEOREM LiveRowsReadable ==
  ASSUME Serial, Faults \subseteq {"store_failure"}
  PROVE  Spec => []LiveRowReadable
<1>1. Calm
  BY DEF Calm
<1>2. (Calm => LiveRowReadable) => LiveRowReadable
  BY <1>1
<1>. QED
  BY <1>2, CalmReached, PTL

-----------------------------------------------------------------------------
(* Requests that wait.  An import is ahead of its checks with nothing and  *)
(* of its INSERTs with one object; so one that is held up waits for a key, *)
(* and finitely many requests that wait only for each other wait in a      *)
(* circle, of which the database aborts one.                               *)

ImportOrdered(i) ==
  /\ imp[i].pc = "idle" =>
       imp[i].checked = {} /\ imp[i].stored = {} /\ imp[i].inserted = {}
  /\ imp[i].pc = "check" =>
       /\ imp[i].checked \subseteq imp[i].package /\ imp[i].checked # imp[i].package
       /\ imp[i].stored = {} /\ imp[i].inserted = {}
  /\ imp[i].pc = "store" =>
       imp[i].inserted \subseteq imp[i].stored /\ imp[i].stored \subseteq imp[i].package

WInv == \A i \in Importer : ImportOrdered(i)

LEMMA WInvStep == TypeOK /\ WInv /\ [Next]_vars => WInv'
<1> SUFFICES ASSUME TypeOK, WInv, [Next]_vars, NEW i \in Importer
             PROVE  ImportOrdered(i)'
  BY DEF WInv
<1>0. imp[i] \in ImportState /\ ImportOrdered(i)
  BY DEF TypeOK, WInv
<1>1. CASE imp'[i] = imp[i] \/ imp'[i].pc \in {"refused", "failed", "done", "lost"}
  BY <1>0, <1>1 DEF ImportOrdered
<1>2. ASSUME NEW j \in Importer, ImportStep(j)
      PROVE  ImportOrdered(i)'
  <2>1. CASE j # i
    BY <1>1, <1>2, <2>1, ImportEffects
  <2>2. CASE ImportStart(i)
    <3>1. PICK files \in (SUBSET Content) \ {{}} :
            imp'[i] = [imp[i] EXCEPT !.pc = "check", !.package = files]
      BY <2>2 DEF ImportStart, SetImp, TypeOK
    <3>2. /\ imp'[i].pc = "check" /\ imp'[i].package = files /\ imp'[i].checked = imp[i].checked
          /\ imp'[i].stored = imp[i].stored /\ imp'[i].inserted = imp[i].inserted
      BY <1>0, <3>1 DEF ImportState
    <3>3. imp[i].pc = "idle" /\ files # {}
      BY <2>2, <3>1 DEF ImportStart
    <3> QED
      BY <1>0, <3>2, <3>3 DEF ImportOrdered
  <2>3. CASE ImportCheck(i)
    <3>1. PICK c \in imp[i].package \ imp[i].checked :
            SetImp(i, IF Exists(c) THEN [imp[i] EXCEPT !.pc = "refused"]
                      ELSE [imp[i] EXCEPT
                              !.checked = imp[i].checked \cup {c},
                              !.pc = IF imp[i].checked \cup {c} = imp[i].package
                                     THEN "store" ELSE "check"])
      BY <2>3 DEF ImportCheck
    <3>2. imp[i].pc = "check"
      BY <2>3 DEF ImportCheck
    <3>3. CASE Exists(c)
      <4>1. imp'[i].pc = "refused"
        BY <1>0, <3>1, <3>3 DEF SetImp, TypeOK, ImportState
      <4> QED
        BY <1>1, <4>1
    <3>4. CASE ~Exists(c)
      <4>1. imp'[i] = [imp[i] EXCEPT !.checked = imp[i].checked \cup {c},
                                     !.pc = IF imp[i].checked \cup {c} = imp[i].package
                                            THEN "store" ELSE "check"]
        BY <3>1, <3>4 DEF SetImp, TypeOK
      <4>2. /\ imp'[i].checked = imp[i].checked \cup {c}
            /\ imp'[i].pc = IF imp[i].checked \cup {c} = imp[i].package
                            THEN "store" ELSE "check"
            /\ imp'[i].package = imp[i].package
            /\ imp'[i].stored = imp[i].stored /\ imp'[i].inserted = imp[i].inserted
        BY <1>0, <4>1 DEF ImportState
      <4> QED
        BY <1>0, <3>1, <3>2, <4>2 DEF ImportOrdered
    <3> QED
      BY <3>3, <3>4
  <2>4. CASE ImportPut(i)
    <3>1. PICK c \in imp[i].package \ imp[i].stored :
            imp'[i] = [imp[i] EXCEPT !.stored = imp[i].stored \cup {c}]
      BY <2>4 DEF ImportPut, SetImp, TypeOK
    <3>2. /\ imp'[i].stored = imp[i].stored \cup {c} /\ imp'[i].pc = imp[i].pc
          /\ imp'[i].package = imp[i].package /\ imp'[i].inserted = imp[i].inserted
      BY <1>0, <3>1 DEF ImportState
    <3>3. imp[i].pc = "store"
      BY <2>4 DEF ImportPut
    <3> QED
      BY <1>0, <3>2, <3>3 DEF ImportOrdered
  <2>5. CASE ImportInsert(i)
    <3>1. PICK c \in imp[i].stored \ imp[i].inserted :
            SetImp(i, IF Exists(c) THEN [imp[i] EXCEPT !.pc = "failed"]
                      ELSE [imp[i] EXCEPT !.inserted = @ \cup {c}])
      BY <2>5 DEF ImportInsert
    <3>2. imp[i].pc = "store"
      BY <2>5 DEF ImportInsert
    <3>3. CASE Exists(c)
      <4>1. imp'[i].pc = "failed"
        BY <1>0, <3>1, <3>3 DEF SetImp, TypeOK, ImportState
      <4> QED
        BY <1>1, <4>1
    <3>4. CASE ~Exists(c)
      <4>1. imp'[i] = [imp[i] EXCEPT !.inserted = imp[i].inserted \cup {c}]
        BY <3>1, <3>4 DEF SetImp, TypeOK
      <4>2. /\ imp'[i].inserted = imp[i].inserted \cup {c} /\ imp'[i].pc = imp[i].pc
            /\ imp'[i].package = imp[i].package /\ imp'[i].stored = imp[i].stored
        BY <1>0, <4>1 DEF ImportState
      <4> QED
        BY <1>0, <3>1, <3>2, <4>2 DEF ImportOrdered
    <3> QED
      BY <3>3, <3>4
  <2>6. CASE ImportCommit(i) \/ DeadlockVictim(i) \/ ImportFails(i) \/ ImportAnswerLost(i)
    <3>1. imp'[i].pc \in {"failed", "done"}
      BY <1>0, <2>6
      DEF ImportCommit, DeadlockVictim, ImportFails, ImportAnswerLost, SetImp, TypeOK, ImportState
    <3> QED
      BY <1>1, <3>1
  <2> QED
    BY <1>2, <2>1, <2>2, <2>3, <2>4, <2>5, <2>6 DEF ImportStep, Import
<1>3. CASE Restart
  <2>1. imp'[i] = IF imp[i].pc \in {"check", "store"}
                  THEN [imp[i] EXCEPT !.pc = "lost"] ELSE imp[i]
    BY <1>3 DEF Restart
  <2>2. imp'[i] = imp[i] \/ imp'[i].pc = "lost"
    BY <1>0, <2>1 DEF ImportState
  <2> QED
    BY <1>1, <2>2
<1>4. CASE UNCHANGED imp
  BY <1>1, <1>4
<1>5. ASSUME NEW u \in Uploader, Upload(u) \/ UploadFails(u) \/ UploadAnswerLost(u)
      PROVE  UNCHANGED imp
  BY <1>5 DEF Upload, UploadFails, UploadAnswerLost, UploadCheck, UploadPut, UploadInsert,
     UploadCommit, UploadCleanup
<1>6. ASSUME NEW k \in Keeper, Bin(k) \/ BinFails(k) \/ BinAnswerLost(k)
      PROVE  UNCHANGED imp
  BY <1>6 DEF Bin, BinWork, BinFails, BinAnswerLost, DeleteRead, RestoreRead, RestoreProbe,
     MoveCopy, MoveRemove, BinFlush, BinCommit
<1> QED
  BY <1>2, <1>3, <1>4, <1>5, <1>6 DEF Next, vars, ImportStep

(* Of finitely many requests that each wait for another of them, some wait *)
(* in a circle: a smallest such set loses no member that nobody waits for. *)
LEMMA SomeAreInACircle ==
  ASSUME IsFiniteSet(Importer), NEW W \in SUBSET Importer, W # {},
         \A i \in W : \E j \in W : WaitsFor(i, j)
  PROVE  \E i \in W : InCircle(i)
<1> DEFINE Waiting(S) == S # {} /\ \A i \in S : \E j \in S : WaitsFor(i, j)
           T == {S \in SUBSET Importer : Waiting(S)}
           R == StrictSubsetOrdering(Importer)
<1>1. IsWellFoundedOn(R, SUBSET Importer)
  BY FS_StrictSubsetOrderingWellFounded, FS_FiniteSubsetsOfFinite
<1> DEFINE B == {S \in T : S \subseteq W}
<1>2. B \subseteq SUBSET Importer /\ W \in B
  OBVIOUS
<1>3. PICK S \in B : \A Y \in B : ~ (<<Y, S>> \in R)
  <2> HIDE DEF R, B
  <2> QED
    BY <1>1, <1>2, WFMin
<1>4. ASSUME NEW j \in S
      PROVE  \E b \in S : WaitsFor(b, j)
  <2> SUFFICES ASSUME \A b \in S : ~WaitsFor(b, j)
               PROVE  FALSE
    OBVIOUS
  <2> DEFINE Y == S \ {j}
  <2>1. \A k \in S : \E m \in Y : WaitsFor(k, m)
    OBVIOUS
  <2>2. Y \in B
    BY <2>1, <1>3
  <2>3. <<Y, S>> \in R
    BY <1>4 DEF StrictSubsetOrdering
  <2> QED
    BY <1>3, <2>2, <2>3
<1>5. \A j \in S : \E x, y \in S : WaitsFor(j, x) /\ WaitsFor(y, j)
  BY <1>4
<1>6. PICK i \in S : TRUE
  OBVIOUS
<1> QED
  BY <1>5, <1>6 DEF InCircle

(* No request of the upload and import routes waits for ever: whenever one *)
(* is at work, one can go on, or the database ends a circle of imports     *)
(* that wait for each other's keys - for any number of requests.           *)
THEOREM SomeRequestGoesOn ==
  ASSUME IsFiniteSet(Importer)
  PROVE  Spec => []RequestsNeverDeadlock
<1>1. TypeOK /\ RInv /\ WInv => RequestsNeverDeadlock
  <2> SUFFICES ASSUME TypeOK, RInv, WInv, AtWork,
                      \A u \in Uploader : ~UploadMayGoOn(u),
                      \A i \in Importer : ~ImportMayGoOn(i)
               PROVE  FALSE
    BY DEF RequestsNeverDeadlock
  <2> DEFINE W == {i \in Importer : imp[i].pc = "store"}
  <2>1. ASSUME NEW c \in Content, NEW x \in Owner, KeyHeld(c, x)
        PROVE  \E j \in W : c \in imp[j].inserted
    BY <2>1 DEF KeyHeld, UploadMayGoOn
  <2>2. ASSUME NEW i \in W
        PROVE  \E j \in W : WaitsFor(i, j)
    <3>1. imp[i] \in ImportState /\ ImportOrdered(i) /\ ~ImportMayGoOn(i) /\ i \in Owner
      BY DEF TypeOK, WInv, Owner
    <3>2. imp[i].stored \ imp[i].inserted # {}
      BY <3>1 DEF ImportOrdered, ImportMayGoOn
    <3>3. PICK c \in imp[i].stored \ imp[i].inserted : KeyHeld(c, i)
      BY <3>1, <3>2 DEF ImportMayGoOn
    <3>4. c \in Content
      BY <3>1 DEF ImportState
    <3>5. PICK j \in W : c \in imp[j].inserted
      BY <2>1, <3>1, <3>3, <3>4
    <3> QED
      BY <3>3, <3>5 DEF WaitsFor
  <2>3. W # {}
    <3>1. CASE \E i \in Importer : imp[i].pc \in {"check", "store"}
      BY <3>1 DEF WInv, ImportOrdered, ImportMayGoOn
    <3>2. ASSUME NEW u \in Uploader, up[u].pc \in {"put", "insert", "commit", "cleanup"}
          PROVE  W # {}
      <4>1. PICK c \in Content : up[u].file = {c}
        BY <3>2 DEF RInv, OneFile
      <4>2. KeyHeld(c, u)
        BY <3>2, <4>1 DEF UploadMayGoOn
      <4> QED
        BY <2>1, <4>2 DEF Owner
    <3> QED
      BY <3>1, <3>2 DEF AtWork
  <2>4. \E i \in W : InCircle(i)
    <3>1. W \in SUBSET Importer
      OBVIOUS
    <3> HIDE DEF W
    <3> QED
      BY <2>2, <2>3, <3>1, SomeAreInACircle
  <2> QED
    BY <2>4 DEF ImportMayGoOn
<1>2. Init => WInv
  BY DEF Init, WInv, ImportOrdered
<1>3. Spec => []WInv
  <2>1. TInv => TypeOK
    BY DEF TInv
  <2> QED
    BY <1>2, <2>1, WInvStep, Reached, PTL DEF Spec
<1>4. TInv => TypeOK
  BY DEF TInv
<1> QED
  BY <1>1, <1>3, <1>4, Reached, PTL

=============================================================================
