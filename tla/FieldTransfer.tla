---------------------------- MODULE FieldTransfer ----------------------------
(***************************************************************************)
(* One collection of the Android field agent on its way to the server:     *)
(* capture, hash, seal, package and submit on the phone                    *)
(* (data/store/EvidenceStore.kt, TransferManager.kt and the view models    *)
(* that call them), the registered device (services/devices.py) and the    *)
(* import endpoint (services/package_verification.py). Packages also reach *)
(* the server through the desktop importer, from a USB snapshot.           *)
(*                                                                         *)
(* The phone runs one action of the collection at a time (the busy flag of *)
(* the view model), except deletions, which look at no flag and block the  *)
(* main thread. The phone's process may die between any two writes. A      *)
(* request that was sent goes on without the phone. How the import stores  *)
(* its objects and survives failures half way is the subject of            *)
(* EvidenceVault; here a verified package is stored in one step.           *)
(***************************************************************************)
EXTENDS FiniteSets, Integers

CONSTANTS Evidence,     \* the items that may be captured
          Content,      \* Content[e]: what the item's bytes are, by digest
          Slot,         \* import requests in flight
          Faults,       \* "death", "lost", "rot", "revoke"
          MaxFaults     \* how many of them happen

ASSUME FieldConstants ==
  DOMAIN Content = Evidence /\ MaxFaults \in Nat
    /\ Faults \subseteq {"death", "lost", "rot", "revoke"}

VARIABLES files,      \* evidence files of the collection directory
          metas,      \* their .meta.json files
          rotten,     \* files whose bytes no longer match the digest recorded
          stage,     \* the status in collection.meta.json
          manifest,   \* the items manifest.json names, or None
          signature,  \* the items of the manifest that manifest.sig signs
          usb,        \* the package snapshot: its manifest and signature
          plain,      \* the manifest has only characters that both canonical
                      \* forms write alike (ASCII without control characters)
          task,       \* the action in progress on the phone
          deletion,   \* the item whose file is deleted and whose meta is not
          request,    \* the import requests
          device,     \* the device's row on the server
          rows,       \* the evidence rows of the case: digest and bytes
          faults      \* faults so far

vars == <<files, metas, rotten, stage, manifest, signature, usb, plain, task,
          deletion, request, device, rows, faults>>

None == [none |-> TRUE]

Signed == [items : SUBSET Evidence]

CollectionStatus ==
  {"CAPTURING", "HASHED", "SEALED", "PACKAGED", "SUBMITTED", "FAILED"}

\* CollectionStatus.allowed in LocalEvidence.kt
allowed ==
  [CAPTURING |-> {"HASHED", "FAILED"},
   HASHED    |-> {"CAPTURING", "SEALED", "FAILED"},
   SEALED    |-> {"HASHED", "PACKAGED", "SUBMITTED", "FAILED"},
   PACKAGED  |-> {"SEALED", "SUBMITTED", "FAILED"},
   SUBMITTED |-> {"PACKAGED", "SEALED"},
   FAILED    |-> {"HASHED", "SEALED", "PACKAGED"}]

canTransition(from, to) == from = to \/ to \in allowed[from]

DeviceStatus == {"none", "pending", "approved", "revoked"}

Free == [op |-> "idle"]

\* An action starts on the main thread, which a deletion blocks, when the busy
\* flag is down.
MayStart == task = Free /\ deletion = {}

TaskState ==
  [op : {"capture"}, item : Evidence]
    \cup [op : {"hash"}, left : SUBSET Evidence, bad : BOOLEAN]
    \cup [op : {"seal"}, pc : {"manifest", "signature", "stage"}, items : SUBSET Evidence]
    \cup [op : {"submit"}, slot : Slot]

ImportRequest ==
  [pc : {"sent", "verified", "accepted", "refused"}, manifest : Signed,
   signature : Signed, sent : SUBSET Evidence, bad : SUBSET Evidence]

Init ==
  /\ files = {} /\ metas = {} /\ rotten = {} /\ stage = "CAPTURING"
  /\ manifest = None /\ signature = None /\ usb = None /\ plain \in BOOLEAN
  /\ task = Free /\ deletion = {}
  /\ request = [s \in Slot |-> [pc |-> "idle"]]
  /\ device = "none" /\ rows = {} /\ faults = 0

\* listEvidence lists the metadata files.
listEvidence == metas

phoneVars  == <<files, metas, rotten, stage, manifest, signature, usb, plain>>
serverVars == <<device, rows>>

----------------------------------------------------------------------------
\* Capture. The screen offers it while the stage is CAPTURING, but a camera's
\* callback may come at any time and is not checked again; one that comes while
\* another action is busy is dropped. The file is written, then its metadata.
CaptureFile(e) ==
  /\ MayStart /\ e \notin files \cup metas
  /\ task' = [op |-> "capture", item |-> e]
  /\ files' = files \cup {e}
  /\ UNCHANGED <<metas, rotten, stage, manifest, signature, usb, plain,
                 deletion, request, serverVars, faults>>

CaptureMeta ==
  /\ task.op = "capture"
  /\ metas' = metas \cup {task.item}
  /\ task' = Free
  /\ UNCHANGED <<files, rotten, stage, manifest, signature, usb, plain,
                 deletion, request, serverVars, faults>>

\* A deletion is refused once the collection has been hashed.
Deletable == stage = "CAPTURING"

\* deleteEvidence, whatever action is in progress; the two files go one after
\* the other. A file that is already gone makes the deletion fail.
DeleteFile(e) ==
  /\ Deletable /\ deletion = {} /\ e \in files /\ e \in metas
  /\ files' = files \ {e} /\ rotten' = rotten \ {e}
  /\ deletion' = {e}
  /\ UNCHANGED <<metas, stage, manifest, signature, usb, plain, task, request,
                 serverVars, faults>>

DeleteMeta ==
  /\ deletion # {}
  /\ metas' = metas \ deletion
  /\ deletion' = {}
  /\ UNCHANGED <<files, rotten, stage, manifest, signature, usb, plain, task,
                 request, serverVars, faults>>

\* hashAll recomputes the digest of every listed item; the screen offers it for
\* a collection that is being captured and not empty.
HashStart ==
  /\ MayStart /\ stage = "CAPTURING" /\ listEvidence # {}
  /\ task' = [op |-> "hash", left |-> listEvidence, bad |-> FALSE]
  /\ UNCHANGED <<phoneVars, deletion, request, serverVars, faults>>

\* A file that is gone raises FileNotFoundException, which ends the action.
HashFile(e) ==
  /\ task.op = "hash" /\ e \in task.left
  /\ task' = IF e \in files
             THEN [task EXCEPT !.left = @ \ {e}, !.bad = @ \/ e \in rotten]
             ELSE Free
  /\ UNCHANGED <<phoneVars, deletion, request, serverVars, faults>>

HashEnd ==
  /\ task.op = "hash" /\ task.left = {}
  /\ LET target == IF task.bad THEN "FAILED" ELSE "HASHED"
     IN  stage' = IF canTransition(stage, target) THEN target ELSE stage
  /\ task' = Free
  /\ UNCHANGED <<files, metas, rotten, manifest, signature, usb, plain,
                 deletion, request, serverVars, faults>>

\* seal writes the manifest of what is listed, then its signature, and sets the
\* stage last.
SealStart ==
  /\ MayStart /\ stage = "HASHED"
  /\ task' = [op |-> "seal", pc |-> "manifest", items |-> listEvidence]
  /\ UNCHANGED <<phoneVars, deletion, request, serverVars, faults>>

SealManifest ==
  /\ task.op = "seal" /\ task.pc = "manifest"
  /\ manifest' = [items |-> task.items]
  /\ task' = [task EXCEPT !.pc = "signature"]
  /\ UNCHANGED <<files, metas, rotten, stage, signature, usb, plain, deletion,
                 request, serverVars, faults>>

SealSignature ==
  /\ task.op = "seal" /\ task.pc = "signature"
  /\ signature' = [items |-> task.items]
  /\ task' = [task EXCEPT !.pc = "stage"]
  /\ UNCHANGED <<files, metas, rotten, stage, manifest, usb, plain, deletion,
                 request, serverVars, faults>>

SealStatus ==
  /\ task.op = "seal" /\ task.pc = "stage"
  /\ stage' = "SEALED" /\ canTransition(stage, "SEALED")
  /\ task' = Free
  /\ UNCHANGED <<files, metas, rotten, manifest, signature, usb, plain,
                 deletion, request, serverVars, faults>>

\* packageDir copies manifest, signature and every listed file to a directory
\* of its own; a missing file makes it fail.
packageDir ==
  /\ MayStart /\ stage = "SEALED"
  /\ listEvidence \subseteq files
  /\ usb' = [manifest |-> manifest, signature |-> signature,
             files |-> listEvidence, bad |-> rotten]
  /\ stage' = "PACKAGED"
  /\ UNCHANGED <<files, metas, rotten, manifest, signature, plain, task,
                 deletion, request, serverVars, faults>>

----------------------------------------------------------------------------
\* submitPackage sends the manifest and the signature as they are, with every
\* item listed now; a listed file that is gone fails the upload.
Submit(s) ==
  /\ MayStart /\ stage \in {"SEALED", "PACKAGED"}
  /\ request[s].pc = "idle"
  /\ manifest # None /\ signature # None
  /\ listEvidence \subseteq files
  /\ request' = [request EXCEPT ![s] =
       [pc |-> "sent", manifest |-> manifest, signature |-> signature,
        sent |-> listEvidence, bad |-> rotten]]
  /\ task' = [op |-> "submit", slot |-> s]
  /\ UNCHANGED <<phoneVars, deletion, serverVars, faults>>

\* The desktop importer sends the files the manifest of a snapshot names.
UsbSubmit(s) ==
  /\ usb # None /\ request[s].pc = "idle"
  /\ usb.manifest.items \subseteq usb.files
  /\ request' = [request EXCEPT ![s] =
       [pc |-> "sent", manifest |-> usb.manifest, signature |-> usb.signature,
        sent |-> usb.manifest.items, bad |-> usb.bad]]
  /\ UNCHANGED <<phoneVars, task, deletion, serverVars, faults>>

digests(items) == {Content[e] : e \in items}

Verified_ignoresBytes(r) ==
  /\ device = "approved"
  /\ r.signature = r.manifest /\ plain
  /\ r.manifest.items # {}
  /\ \A e, f \in r.manifest.items : Content[e] = Content[f] => e = f
  /\ \A e \in r.sent \cap r.manifest.items : Content[e] \notin digests(rows)

\* What import_package checks before it stores anything: the device, the
\* signature of the manifest's canonical form, a manifest that is not empty and
\* names no digest twice, and of each file that was sent and is named: not yet
\* in the case, and its bytes have the digest the manifest states.
Verified(r) ==
  /\ device = "approved"
  /\ r.signature = r.manifest /\ plain
  /\ r.manifest.items # {}
  /\ \A e, f \in r.manifest.items : Content[e] = Content[f] => e = f
  /\ \A e \in r.sent \cap r.manifest.items :
       Content[e] \notin digests(rows) /\ e \notin r.bad

ImportVerify(s) ==
  /\ request[s].pc = "sent"
  /\ request' = [request EXCEPT ![s].pc =
       IF Verified(request[s]) THEN "verified" ELSE "refused"]
  /\ UNCHANGED <<phoneVars, task, deletion, serverVars, faults>>

\* The named files that were sent are stored and the transaction commits; the
\* unique key refuses it whole when a digest has been stored meanwhile.
ImportCommit(s) ==
  /\ request[s].pc = "verified"
  /\ LET r == request[s]
         named == r.sent \cap r.manifest.items
         clash == digests(named) \cap digests(rows) # {}
     IN  /\ rows' = IF clash THEN rows ELSE rows \cup named
         /\ request' = [request EXCEPT ![s].pc = IF clash THEN "refused" ELSE "accepted"]
  /\ UNCHANGED <<phoneVars, task, deletion, device, faults>>

\* The answer reaches the phone: only an acceptance changes the stage; a
\* refusal (also that of a replay) is shown as an error.
Answer(s) ==
  /\ request[s].pc \in {"accepted", "refused"}
  /\ request' = [request EXCEPT ![s] = [pc |-> "idle"]]
  /\ IF task = [op |-> "submit", slot |-> s]
     THEN /\ task' = Free
          /\ stage' = IF request[s].pc = "accepted" /\ canTransition(stage, "SUBMITTED")
                       THEN "SUBMITTED" ELSE stage
     ELSE UNCHANGED <<task, stage>>
  /\ UNCHANGED <<files, metas, rotten, manifest, signature, usb, plain,
                 deletion, serverVars, faults>>

----------------------------------------------------------------------------
\* register_device; approve_device and revoke_device set the status whatever
\* it was.
register_device ==
  /\ device = "none" /\ device' = "pending"
  /\ UNCHANGED <<phoneVars, task, deletion, request, rows, faults>>

approve_device_pendingOnly ==
  /\ device = "pending" /\ device' = "approved"
  /\ UNCHANGED <<phoneVars, task, deletion, request, rows, faults>>

approve_device ==
  /\ device # "none" /\ device' = "approved"
  /\ UNCHANGED <<phoneVars, task, deletion, request, rows, faults>>

Fault(kind) == kind \in Faults /\ faults < MaxFaults /\ faults' = faults + 1

revoke_device ==
  /\ Fault("revoke") /\ device # "none" /\ device' = "revoked"
  /\ UNCHANGED <<phoneVars, task, deletion, request, rows>>

\* The phone's process dies: a request that was sent goes on.
Death ==
  /\ Fault("death") /\ (task # Free \/ deletion # {})
  /\ task' = Free /\ deletion' = {}
  /\ UNCHANGED <<phoneVars, request, serverVars>>

\* The phone stops waiting: a timeout, a lost connection, or the user leaves
\* the screen, which cancels the coroutine. The request goes on or never
\* arrives.
AnswerLost(s) ==
  /\ Fault("lost") /\ task = [op |-> "submit", slot |-> s]
  /\ task' = Free
  /\ request' \in {request, [request EXCEPT ![s] = [pc |-> "idle"]]}
  /\ UNCHANGED <<phoneVars, deletion, serverVars>>

\* A stored file decays.
Rot(e) ==
  /\ Fault("rot") /\ e \in files
  /\ rotten' = rotten \cup {e}
  /\ UNCHANGED <<files, metas, stage, manifest, signature, usb, plain, task,
                 deletion, request, serverVars>>

----------------------------------------------------------------------------
TaskStep ==
  \/ CaptureMeta \/ HashEnd \/ SealManifest \/ SealSignature \/ SealStatus
  \/ \E e \in Evidence : HashFile(e)

Server(s) == ImportVerify(s) \/ ImportCommit(s) \/ Answer(s)

Next ==
  \/ \E e \in Evidence : CaptureFile(e) \/ DeleteFile(e) \/ Rot(e)
  \/ DeleteMeta \/ HashStart \/ SealStart \/ packageDir \/ TaskStep
  \/ \E s \in Slot : Submit(s) \/ UsbSubmit(s) \/ Server(s) \/ AnswerLost(s)
  \/ register_device \/ approve_device \/ revoke_device \/ Death

\* The phone finishes what it began and its user submits again whenever that is
\* possible; the server answers; somebody registers and approves the device.
Fairness ==
  /\ WF_vars(TaskStep) /\ WF_vars(DeleteMeta) /\ WF_vars(register_device)
  /\ WF_vars(device # "approved" /\ approve_device)
  /\ SF_vars(\E s \in Slot : Submit(s))
  /\ \A s \in Slot : WF_vars(Server(s))

Spec == Init /\ [][Next]_vars /\ Fairness

----------------------------------------------------------------------------
\* What the manifest of the collection names
sealed == IF manifest = None THEN {} ELSE manifest.items

\* Every variable has its type.
TypeOK ==
  /\ files \subseteq Evidence /\ metas \subseteq Evidence
  /\ rotten \subseteq files /\ stage \in CollectionStatus
  /\ manifest \in Signed \cup {None} /\ signature \in Signed \cup {None}
  /\ usb = None \/ usb \in [manifest : Signed, signature : Signed,
                            files : SUBSET Evidence, bad : SUBSET Evidence]
  /\ plain \in BOOLEAN /\ task \in {Free} \cup TaskState
  /\ deletion \subseteq Evidence /\ Cardinality(deletion) <= 1
  /\ request \in [Slot -> {[pc |-> "idle"]} \cup ImportRequest]
  /\ device \in DeviceStatus /\ rows \subseteq Evidence /\ faults \in 0 .. MaxFaults

\* A collection that can be transferred has a signature of the very manifest
\* beside it, although the two files are written one after the other and the
\* process may die in between (TransferManager.seal sets the status last).
TransferableIsSigned ==
  stage \in {"SEALED", "PACKAGED", "SUBMITTED"} =>
    manifest # None /\ signature = manifest

\* A collection that counts as submitted has every item of its manifest in the
\* case, although the import skips what was not sent and accepts the rest
\* (TransferManager.submitPackage, import_package): what was sealed is still
\* listed, for nothing is deleted after hashing.
SubmittedIsImported ==
  stage = "SUBMITTED" => sealed \subseteq rows

\* The bytes of an accepted package are the bytes that were captured: a file
\* that decayed is refused by the digest of the manifest (_verify_single_file).
AcceptedBytesAreOriginal ==
  \A s \in Slot : request[s].pc = "accepted" =>
    request[s].sent \cap request[s].manifest.items \cap request[s].bad = {}

\* What the case holds is what was captured and sealed.
CaseHoldsTheOriginals == TransferableIsSigned /\ SubmittedIsImported /\ AcceptedBytesAreOriginal

\* A package whose import can succeed at all: not empty, no content twice, no
\* character the two canonical forms write differently, no decayed file, and no
\* listed file that a deletion removed before the process died.
Importable ==
  /\ stage \in {"SEALED", "PACKAGED"} /\ plain
  /\ sealed # {} /\ sealed \cap rotten = {} /\ listEvidence \subseteq files
  /\ \A e, f \in sealed : Content[e] = Content[f] => e = f

\* A sealed package is in the end submitted, unless one of its contents has
\* reached the case by another way than an answered submission: the USB stick,
\* or an import whose answer was lost (TransferViewModel.submit, _check_replay).
PackageSettles ==
  Importable ~> \/ stage = "SUBMITTED"
                \/ digests(rows) \cap digests(sealed) # {}
                \/ rotten # {} \/ stage = "FAILED"
=============================================================================
