--------------------------- MODULE GovernanceProofs ---------------------------
(***************************************************************************)
(* That the answers to one idempotency key agree, that nobody takes a      *)
(* half-written blob for its own, and that the store keeps the promise of  *)
(* DecisionRecord about an assessment: for any workers, readers, findings, *)
(* claim counts and faults, and with uploads going on beside the           *)
(* assessment in any order.                                                *)
(*                                                                         *)
(* AnswersAgree speaks of pairs of answers; inductive is what each of them *)
(* has to do with the claim, which never changes once it is COMPLETE.      *)
(*                                                                         *)
(* The fenced statements carry the proof: whoever finalises holds the job, *)
(* so that the job is not COMPLETE and the manifest not written.  What     *)
(* unfenced writes and late issuers do to the assessment's status only has *)
(* to be kept away from "DECIDING" and "absent".                           *)
(***************************************************************************)
EXTENDS MCGovernance, SequenceTheorems, TLAPS
-----------------------------------------------------------------------------
(* Uploads.                                                                *)

\* A request that arrived has a digest.
ReceivedHasDigest == \A u \in Upload : uploads[u].pc # "new" => uploads[u].digest \in Digest

\* Whoever was answered under the key was answered with the claim's artifact.
AnswersTellTheClaim ==
  \A u \in Upload : uploads[u].pc \in Answered /\ uploads[u].keyed =>
    /\ claim.status = "COMPLETE"
    /\ uploads[u].artifact = claim.artifact
    /\ uploads[u].digest = claim.digest

ArtifactsAnswered == \A u \in artifacts : uploads[u].pc \in {"created", "dead"}

\* A file that is being copied is nobody else's.
CopiesApart ==
  \A u, v \in Upload : uploads[u].pc = "copy" =>
    /\ blobs[uploads[u].digest] = "partial"
    /\ uploads[v].pc = "copy" /\ uploads[v].digest = uploads[u].digest => u = v

\* Inductive.
IngestionInv ==
  /\ IngestionTypeOK
  /\ ReceivedHasDigest
  /\ AnswersTellTheClaim
  /\ ArtifactsAnswered
  /\ OneArtifactPerKey
  /\ CopiesApart

\* What a step never does to the rest of the system.
BlobsStayIntact ==
  \A d \in Digest : blobs[d] = "intact" => blobs'[d] = "intact"

ArtifactsStay ==
  /\ artifacts \subseteq artifacts'
  /\ \A u \in artifacts : uploads'[u].digest = uploads[u].digest

-----------------------------------------------------------------------------
\* At the start there is nothing.
LEMMA IngestionInitInv == IngestionInit => IngestionInv
  BY IngestionAssumption
     DEF IngestionInit, IngestionInv, IngestionTypeOK, ReceivedHasDigest, AnswersTellTheClaim,
         ArtifactsAnswered, OneArtifactPerKey, CopiesApart, NoClaim, NewUpload, UploadPc, Answered

-----------------------------------------------------------------------------
\* The type of the handlers' memory, for a step of one of them.

UploadRow == [pc: UploadPc, digest: Digest \cup {NoDigest}, keyed: BOOLEAN,
              generation: Nat, artifact: Upload \cup {NoUpload}]

\* A request's digest is the one in its header.
LEMMA ReceiveKeepsTypes ==
  ASSUME IngestionTypeOK, NEW u \in Upload, Receive(u)
  PROVE  IngestionTypeOK'
  <1>1. PICK d \in Digest, keyed \in BOOLEAN :
          uploads' = [uploads EXCEPT ![u] = [NewUpload EXCEPT !.pc = IF keyed THEN "claim" ELSE "put",
                                                              !.digest = d, !.keyed = keyed]]
    BY DEF Receive
  <1>2. [NewUpload EXCEPT !.pc = IF keyed THEN "claim" ELSE "put", !.digest = d, !.keyed = keyed]
          \in UploadRow
    BY DEF UploadRow, UploadPc, NewUpload
  <1>3. uploads' \in [Upload -> UploadRow]
    BY <1>1, <1>2 DEF IngestionTypeOK, UploadRow
  <1> QED
    BY <1>3 DEF Receive, IngestionTypeOK, UploadRow

\* A claim is taken by a handler whose digest it gets.
LEMMA ClaimKeepsTypes ==
  ASSUME IngestionTypeOK, ReceivedHasDigest, NEW u \in Upload, ClaimArtifactIngestion(u)
  PROVE  IngestionTypeOK'
  <1>1. ASSUME NEW g \in Nat, TakeClaim(u, g) PROVE IngestionTypeOK'
    <2>1. claim' = [status |-> "IN_PROGRESS", digest |-> uploads[u].digest, generation |-> g,
                    owner |-> u, lapsed |-> FALSE, artifact |-> NoUpload]
      BY <1>1 DEF TakeClaim, NoClaim
    <2>2. uploads' \in [Upload -> UploadRow]
      <3>1. uploads' = [uploads EXCEPT ![u].pc = "put", ![u].generation = g]
        BY <1>1 DEF TakeClaim
      <3>2. uploads \in [Upload -> UploadRow]
        BY DEF IngestionTypeOK, UploadRow
      <3>3. uploads' = [uploads EXCEPT ![u] = [uploads[u] EXCEPT !.pc = "put", !.generation = g]]
        BY <3>1, <3>2
      <3>4. [uploads[u] EXCEPT !.pc = "put", !.generation = g] \in UploadRow
        BY <3>2 DEF UploadRow, UploadPc
      <3> QED
        BY <3>2, <3>3, <3>4
    <2>3. UNCHANGED <<artifacts, blobs, uploadFaults>>
      BY DEF ClaimArtifactIngestion
    <2> QED
      BY <2>1, <2>2, <2>3 DEF IngestionTypeOK, UploadRow
  <1>2. CASE /\ UNCHANGED claim
             /\ \/ UploadGoto(u, "refused")
                \/ uploads' = [uploads EXCEPT ![u].pc = "replayed", ![u].artifact = claim.artifact]
    <2>1. uploads' \in [Upload -> UploadRow]
      BY <1>2 DEF UploadGoto, IngestionTypeOK, UploadRow, UploadPc
    <2>2. UNCHANGED <<artifacts, blobs, uploadFaults>>
      BY DEF ClaimArtifactIngestion
    <2> QED
      BY <1>2, <2>1, <2>2 DEF IngestionTypeOK, UploadRow
  <1>3. claim.generation + 1 \in Nat
    BY DEF IngestionTypeOK
  <1> QED
    BY <1>1, <1>2, <1>3 DEF ClaimArtifactIngestion

\* The commit under the fence: what the claim and the answer are then.
LEMMA CommitUnderFence ==
  ASSUME IngestionInv, NEW u \in Upload, CompleteIngestion(u), ClaimHeld(u)
  PROVE  /\ claim.status = "IN_PROGRESS" /\ claim.digest = uploads[u].digest /\ uploads[u].keyed
         /\ uploads[u].pc = "commit"
         /\ claim' \in [status: {"absent", "IN_PROGRESS", "COMPLETE"},
                        digest: Digest \cup {NoDigest}, generation: Nat,
                        owner: Upload \cup {NoUpload}, lapsed: BOOLEAN,
                        artifact: Upload \cup {NoUpload}]
         /\ claim'.status = "COMPLETE" /\ claim'.artifact = u /\ claim'.digest = claim.digest
         /\ uploads' \in [Upload -> UploadRow]
         /\ uploads'[u].pc = "created" /\ uploads'[u].artifact = u
         /\ uploads'[u].digest = uploads[u].digest
         /\ \A v \in Upload \ {u} : uploads'[v] = uploads[v]
         /\ artifacts' = artifacts \cup {u}
  <1>1. claim' = [claim EXCEPT !.status = "COMPLETE", !.artifact = u]
    BY DEF CompleteIngestion
  <1>2. /\ uploads' = [uploads EXCEPT ![u].pc = "created", ![u].artifact = u]
        /\ artifacts' = artifacts \cup {u}
    BY DEF CompleteIngestion, AnswerCreated
  <1>3. /\ uploads' \in [Upload -> UploadRow]
        /\ uploads'[u].pc = "created" /\ uploads'[u].artifact = u
        /\ uploads'[u].digest = uploads[u].digest
        /\ \A v \in Upload \ {u} : uploads'[v] = uploads[v]
    BY <1>2 DEF IngestionInv, IngestionTypeOK, UploadRow, UploadPc
  <1>4. /\ claim.status = "IN_PROGRESS" /\ claim.digest = uploads[u].digest /\ uploads[u].keyed
        /\ uploads[u].pc = "commit"
    BY DEF ClaimHeld, CompleteIngestion
  <1>5. claim \in [status: {"absent", "IN_PROGRESS", "COMPLETE"},
                        digest: Digest \cup {NoDigest}, generation: Nat,
                        owner: Upload \cup {NoUpload}, lapsed: BOOLEAN,
                        artifact: Upload \cup {NoUpload}]
    BY DEF IngestionInv, IngestionTypeOK
  <1> QED
    BY <1>1, <1>2, <1>3, <1>4, <1>5

\* A handler that completes its claim is the first to: before it no answer was
\* given under the key, and no artifact created.
LEMMA CompleteKeeps ==
  ASSUME IngestionInv, NEW u \in Upload, CompleteIngestion(u)
  PROVE  IngestionInv' /\ BlobsStayIntact /\ ArtifactsStay
  <1>1. UNCHANGED <<blobs, uploadFaults>>
    BY DEF CompleteIngestion
  <1>2. CASE ClaimHeld(u)
    <2> USE CommitUnderFence, <1>1, <1>2 DEF IngestionInv
    <2>1. IngestionTypeOK'
      BY DEF IngestionTypeOK, UploadRow
    <2>2. ReceivedHasDigest'
      BY DEF ReceivedHasDigest
    <2>3. AnswersTellTheClaim'
      BY DEF AnswersTellTheClaim, Answered
    <2>4. ArtifactsAnswered' /\ OneArtifactPerKey' /\ ArtifactsStay
      BY DEF ArtifactsAnswered, OneArtifactPerKey, ArtifactsStay, IngestionTypeOK
    <2>5. CopiesApart' /\ BlobsStayIntact
      BY DEF CopiesApart, BlobsStayIntact
    <2> QED
      BY <2>1, <2>2, <2>3, <2>4, <2>5
  <1>3. CASE ~ClaimHeld(u)
    <2> USE <1>1, <1>3 DEF IngestionInv, IngestionTypeOK, CompleteIngestion, UploadGoto
    <2>1. IngestionTypeOK' /\ ReceivedHasDigest'
      BY DEF UploadPc, ReceivedHasDigest
    <2>2. AnswersTellTheClaim' /\ ArtifactsAnswered' /\ OneArtifactPerKey' /\ ArtifactsStay
      BY DEF AnswersTellTheClaim, Answered, ArtifactsAnswered, OneArtifactPerKey, ArtifactsStay
    <2>3. CopiesApart' /\ BlobsStayIntact
      BY DEF CopiesApart, BlobsStayIntact
    <2> QED
      BY <2>1, <2>2, <2>3
  <1> QED
    BY <1>2, <1>3

\* An artifact without a key says nothing of the claim.
LEMMA CreateKeeps ==
  ASSUME IngestionInv, NEW u \in Upload, CreateArtifact(u)
  PROVE  IngestionInv' /\ BlobsStayIntact /\ ArtifactsStay
  <1>1. /\ uploads' = [uploads EXCEPT ![u].pc = "created", ![u].artifact = u]
        /\ artifacts' = artifacts \cup {u}
        /\ UNCHANGED <<claim, blobs, uploadFaults>>
        /\ uploads[u].pc = "commit" /\ ~uploads[u].keyed
    BY DEF CreateArtifact, AnswerCreated
  <1>2. /\ uploads' \in [Upload -> UploadRow]
        /\ uploads'[u].pc = "created" /\ ~uploads'[u].keyed
        /\ uploads'[u].digest = uploads[u].digest
        /\ \A v \in Upload \ {u} : uploads'[v] = uploads[v]
    BY <1>1 DEF IngestionInv, IngestionTypeOK, UploadRow, UploadPc
  <1> USE <1>1, <1>2 DEF IngestionInv
  <1>3. IngestionTypeOK' /\ ReceivedHasDigest'
    BY DEF IngestionTypeOK, UploadRow, ReceivedHasDigest
  <1>4. AnswersTellTheClaim' /\ ArtifactsAnswered' /\ OneArtifactPerKey' /\ ArtifactsStay
    BY DEF AnswersTellTheClaim, Answered, ArtifactsAnswered, OneArtifactPerKey, ArtifactsStay,
           IngestionTypeOK
  <1>5. CopiesApart' /\ BlobsStayIntact
    BY DEF CopiesApart, BlobsStayIntact
  <1> QED
    BY <1>3, <1>4, <1>5

-----------------------------------------------------------------------------
\* The other steps of a handler.  EndCopy is the one that may take a file away,
\* and it is a file it was copying itself.
LEMMA HandlerKeeps ==
  ASSUME IngestionInv, NEW u \in Upload, IngestionStep(u)
  PROVE  IngestionInv' /\ BlobsStayIntact /\ ArtifactsStay
  <1> USE DEF IngestionInv
  <1>1. CASE Receive(u)
    <2>1. IngestionTypeOK'
      BY <1>1, ReceiveKeepsTypes
    <2>2. ReceivedHasDigest' /\ CopiesApart' /\ BlobsStayIntact
      BY <1>1 DEF Receive, NewUpload, IngestionTypeOK, ReceivedHasDigest, CopiesApart, BlobsStayIntact
    <2>3. AnswersTellTheClaim' /\ ArtifactsAnswered' /\ OneArtifactPerKey' /\ ArtifactsStay
      BY <1>1 DEF Receive, NewUpload, IngestionTypeOK,
             AnswersTellTheClaim, Answered, ArtifactsAnswered, OneArtifactPerKey, ArtifactsStay
    <2> QED
      BY <2>1, <2>2, <2>3
  <1>2. CASE ClaimArtifactIngestion(u)
    <2>1. IngestionTypeOK'
      BY <1>2, ClaimKeepsTypes
    <2>2. ReceivedHasDigest' /\ CopiesApart' /\ BlobsStayIntact
      BY <1>2 DEF ClaimArtifactIngestion, TakeClaim, NoClaim, UploadGoto, IngestionTypeOK, ReceivedHasDigest, CopiesApart, BlobsStayIntact
    <2>3. AnswersTellTheClaim' /\ ArtifactsAnswered' /\ OneArtifactPerKey' /\ ArtifactsStay
      BY <1>2 DEF ClaimArtifactIngestion, TakeClaim, NoClaim, UploadGoto, IngestionTypeOK,
             AnswersTellTheClaim, Answered, ArtifactsAnswered, OneArtifactPerKey, ArtifactsStay
    <2> QED
      BY <2>1, <2>2, <2>3
  <1>3. CASE PutIfAbsent(u)
    <2>1. IngestionTypeOK'
      BY <1>3, IngestionAssumption DEF PutIfAbsent, UploadGoto, IngestionTypeOK, UploadPc, ReceivedHasDigest
    <2>2. ReceivedHasDigest' /\ CopiesApart' /\ BlobsStayIntact
      BY <1>3 DEF PutIfAbsent, UploadGoto, IngestionTypeOK, ReceivedHasDigest, CopiesApart, BlobsStayIntact
    <2>3. AnswersTellTheClaim' /\ ArtifactsAnswered' /\ OneArtifactPerKey' /\ ArtifactsStay
      BY <1>3 DEF PutIfAbsent, UploadGoto, IngestionTypeOK,
             AnswersTellTheClaim, Answered, ArtifactsAnswered, OneArtifactPerKey, ArtifactsStay
    <2> QED
      BY <2>1, <2>2, <2>3
  <1>4. CASE EndCopy(u)
    <2>1. IngestionTypeOK'
      BY <1>4, IngestionAssumption DEF EndCopy, UploadGoto, UploadFault, IngestionTypeOK, UploadPc, ReceivedHasDigest
    <2>2. ReceivedHasDigest' /\ CopiesApart' /\ BlobsStayIntact
      BY <1>4 DEF EndCopy, UploadGoto, UploadFault, IngestionTypeOK, ReceivedHasDigest, CopiesApart, BlobsStayIntact
    <2>3. AnswersTellTheClaim' /\ ArtifactsAnswered' /\ OneArtifactPerKey' /\ ArtifactsStay
      BY <1>4 DEF EndCopy, UploadGoto, UploadFault, IngestionTypeOK,
             AnswersTellTheClaim, Answered, ArtifactsAnswered, OneArtifactPerKey, ArtifactsStay
    <2> QED
      BY <2>1, <2>2, <2>3
  <1>5. CASE BuildManifest(u)
    <2>1. IngestionTypeOK'
      BY <1>5, IngestionAssumption DEF BuildManifest, UploadGoto, IngestionTypeOK, UploadPc, ReceivedHasDigest
    <2>2. ReceivedHasDigest' /\ CopiesApart' /\ BlobsStayIntact
      BY <1>5 DEF BuildManifest, UploadGoto, IngestionTypeOK, ReceivedHasDigest, CopiesApart, BlobsStayIntact
    <2>3. AnswersTellTheClaim' /\ ArtifactsAnswered' /\ OneArtifactPerKey' /\ ArtifactsStay
      BY <1>5 DEF BuildManifest, UploadGoto, IngestionTypeOK,
             AnswersTellTheClaim, Answered, ArtifactsAnswered, OneArtifactPerKey, ArtifactsStay
    <2> QED
      BY <2>1, <2>2, <2>3
  <1>6. CASE RenewBeforeCommit(u)
    <2>1. IngestionTypeOK'
      BY <1>6, IngestionAssumption DEF RenewBeforeCommit, UploadGoto, UploadFault, IngestionTypeOK, UploadPc, ReceivedHasDigest
    <2>2. ReceivedHasDigest' /\ CopiesApart' /\ BlobsStayIntact
      BY <1>6 DEF RenewBeforeCommit, UploadGoto, UploadFault, IngestionTypeOK, ReceivedHasDigest, CopiesApart, BlobsStayIntact
    <2>3. AnswersTellTheClaim' /\ ArtifactsAnswered' /\ OneArtifactPerKey' /\ ArtifactsStay
      BY <1>6 DEF RenewBeforeCommit, UploadGoto, UploadFault, IngestionTypeOK,
             AnswersTellTheClaim, Answered, ArtifactsAnswered, OneArtifactPerKey, ArtifactsStay
    <2> QED
      BY <2>1, <2>2, <2>3
  <1>7. CASE UploadCrash(u)
    <2>1. IngestionTypeOK'
      BY <1>7, IngestionAssumption DEF UploadCrash, UploadGoto, UploadFault, AtWork, IngestionTypeOK, UploadPc, ReceivedHasDigest
    <2>2. ReceivedHasDigest' /\ CopiesApart' /\ BlobsStayIntact
      BY <1>7 DEF UploadCrash, UploadGoto, UploadFault, AtWork, IngestionTypeOK, ReceivedHasDigest, CopiesApart, BlobsStayIntact
    <2>3. AnswersTellTheClaim' /\ ArtifactsAnswered' /\ OneArtifactPerKey' /\ ArtifactsStay
      BY <1>7 DEF UploadCrash, UploadGoto, UploadFault, AtWork, IngestionTypeOK,
             AnswersTellTheClaim, Answered, ArtifactsAnswered, OneArtifactPerKey, ArtifactsStay
    <2> QED
      BY <2>1, <2>2, <2>3
  <1> QED
    BY <1>1, <1>2, <1>3, <1>4, <1>5, <1>6, <1>7, CompleteKeeps, CreateKeeps DEF IngestionStep

\* So every step: an expired claim has still no answer.
LEMMA IngestionNextInv ==
  IngestionInv /\ [IngestionNext]_ingestionVars
    => IngestionInv' /\ BlobsStayIntact /\ ArtifactsStay
  <1> SUFFICES ASSUME IngestionInv, [IngestionNext]_ingestionVars
               PROVE  IngestionInv' /\ BlobsStayIntact /\ ArtifactsStay
    OBVIOUS
  <1>1. CASE \E u \in Upload : IngestionStep(u)
    BY <1>1, HandlerKeeps
  <1>2. CASE ClaimLapses
    <2>1. UNCHANGED <<artifacts, blobs, uploads>> /\ uploadFaults' \in 0..MaxUploadFaults
      BY <1>2, IngestionAssumption
         DEF ClaimLapses, UploadFault, IngestionInv, IngestionTypeOK
    <2>2. /\ claim.status = "IN_PROGRESS"
          /\ claim' = [claim EXCEPT !.lapsed = TRUE]
      BY <1>2 DEF ClaimLapses
    <2> QED
      BY <2>1, <2>2
         DEF IngestionInv, IngestionTypeOK, ReceivedHasDigest, AnswersTellTheClaim,
             ArtifactsAnswered, OneArtifactPerKey, CopiesApart, BlobsStayIntact, ArtifactsStay
  <1>3. CASE UNCHANGED ingestionVars
    BY <1>3
       DEF ingestionVars, IngestionInv, IngestionTypeOK, ReceivedHasDigest, AnswersTellTheClaim,
           ArtifactsAnswered, OneArtifactPerKey, CopiesApart, BlobsStayIntact, ArtifactsStay
  <1> QED
    BY <1>1, <1>2, <1>3 DEF IngestionNext

\* And every behaviour keeps it.
LEMMA IngestionAlways == IngestionSpec => []IngestionInv
  <1>1. IngestionInv /\ [IngestionNext]_ingestionVars => IngestionInv'
    BY IngestionNextInv
  <1> QED
    BY <1>1, IngestionInitInv, PTL DEF IngestionSpec

\* Every variable has its type: in particular a claim has a digest's and an
\* owner's when it is taken.
THEOREM IngestionTyped == IngestionSpec => []IngestionTypeOK
  <1>1. IngestionInv => IngestionTypeOK
    BY DEF IngestionInv
  <1> QED
    BY <1>1, IngestionAlways, PTL

\* Two answers to one key name one artifact, and an artifact created under the
\* key is the completed claim's, even one whose answer was lost
\* (completeArtifactIngestionClaimAndCreateArtifact).
THEOREM OneArtifactForKey == IngestionSpec => []KeyNamesOneArtifact
  <1>1. IngestionInv => AnswersAgree
    BY DEF IngestionInv, AnswersTellTheClaim, AnswersAgree
  <1>2. IngestionInv => OneArtifactPerKey
    BY DEF IngestionInv
  <1>3. IngestionInv => KeyNamesOneArtifact
    BY <1>1, <1>2 DEF KeyNamesOneArtifact
  <1> QED
    BY <1>3, IngestionAlways, PTL
-----------------------------------------------------------------------------
(* The assessment, beside them.                                            *)

\* Uploads and the assessment, each at its own pace.
GovernanceInit == IngestionInit /\ AssessmentInit

GovernanceNext ==
  \/ IngestionNext /\ UNCHANGED assessmentVars
  \/ AssessmentNext /\ UNCHANGED ingestionVars

governanceVars == <<ingestionVars, assessmentVars>>

GovernanceSpec == GovernanceInit /\ [][GovernanceNext]_governanceVars

StatusWrite ==
  {"attempt ERROR", "attempt CANCELLED", "assessment RUNNING", "assessment ERROR",
   "assessment CANCELLED", "job AVAILABLE", "job FAILED", "job CANCELLED"}

WorkerRow == [pc: WorkerPc, generation: Nat, finding: Finding \cup {NoFinding},
              next: 1..Validators, todo: Seq(StatusWrite), aborted: BOOLEAN]

JobRow == [status: {"absent", "AVAILABLE"} \cup JobActive \cup JobTerminal,
           worker: Worker \cup {NoWorker}, generation: Nat, lapsed: BOOLEAN]

WorkersTyped == workers \in [Worker -> WorkerRow]

IssuersTyped == issuers \in [Issuer -> [pc: IssuerPc, seen: Finding \cup {NoFinding}]]

JobTyped == job \in JobRow

RowsTyped ==
  /\ subject \in Upload \cup {NoUpload}
  /\ status \in {"absent", "QUEUED", "RUNNING", "DECIDING", "COMPLETE", "ERROR", "CANCELLED"}
  /\ attempt \in {"absent", "QUEUED", "RUNNING", "COMPLETE", "ERROR", "CANCELLED"}
  /\ links \in [1..Validators -> Finding \cup {NoFinding}]
  /\ manifest \in Finding \cup {NoFinding}
  /\ decision \in Finding \cup {NoFinding}
  /\ taken \in Finding \cup {NoFinding}
  /\ creating \in {"none", "attempt", "job", "done", "dead"}
  /\ faults \in 0..MaxFaults

\* A worker with writes to make has one.
WritesPending == \A n \in Worker : workers[n].pc \in {"refuse", "write"} => workers[n].todo # << >>

\* Before the assessment is created nobody has to do with it.
NothingBefore ==
  status = "absent" =>
    /\ job.status = "absent" /\ creating = "none" /\ manifest = NoFinding
    /\ \A n \in Worker : workers[n].pc \in {"down", "idle"}
    /\ \A c \in Issuer : issuers[c].pc = "none"

SubjectIsThere == status # "absent" => subject \in artifacts

\* What is about to become evidence was found in a bundle that is whole.
FindingBacked ==
  \A n \in Worker : workers[n].pc \in {"link", "linkWrite", "finalize"} =>
    workers[n].finding \in Finding /\ BundleIntact

\* What is about to become the decision is what the manifest says.
VerdictBacked ==
  \A c \in Issuer : issuers[c].pc = "persist" =>
    issuers[c].seen = manifest /\ manifest \in Finding \ Undecidable

\* The properties, and what they rest on.
Recorded ==
  /\ FinalizedTogether
  /\ CompleteIsDecided
  /\ PartialBundleNeverFinalized

\* Inductive, with IngestionInv.
AssessmentInv ==
  /\ WorkersTyped /\ IssuersTyped /\ JobTyped /\ RowsTyped
  /\ WritesPending
  /\ NothingBefore /\ SubjectIsThere
  /\ FindingBacked /\ VerdictBacked
  /\ Recorded

\* A step of the abstract specification, or none.
RecordStep == [D!Finalize \/ D!Issue]_<<manifest, decision>>

-----------------------------------------------------------------------------
\* The memory of the workers.  What a step makes of that of one worker:
Moved(n) ==
  /\ WorkersTyped' /\ WritesPending'
  /\ \A m \in Worker \ {n} : workers'[m] = workers[m]

\* Where no evidence is at hand.
AtRest == {"down", "sweep", "idle", "claimed", "load", "mark", "evaluate", "refuse", "write"}

\* A new row for one worker is all that changes.
LEMMA RowMoves ==
  ASSUME WorkersTyped, WritesPending, NEW n \in Worker, NEW row \in WorkerRow,
         row.pc \in {"refuse", "write"} => row.todo # << >>,
         workers' = [workers EXCEPT ![n] = row]
  PROVE  Moved(n) /\ workers'[n] = row
  <1>1. WorkersTyped' /\ workers'[n] = row /\ \A m \in Worker \ {n} : workers'[m] = workers[m]
    BY DEF WorkersTyped
  <1>2. WritesPending'
    BY <1>1 DEF WritesPending
  <1> QED
    BY <1>1, <1>2 DEF Moved

\* A step to a place where nothing is written.
LEMMA GotoMoves ==
  ASSUME WorkersTyped, WritesPending, NEW n \in Worker,
         NEW pc \in WorkerPc \ {"refuse", "write"}, Goto(n, pc)
  PROVE  Moved(n) /\ workers'[n].pc = pc /\ workers'[n].finding = workers[n].finding
  <1> DEFINE row == [workers[n] EXCEPT !.pc = pc]
  <1>1. workers[n] \in WorkerRow
    BY DEF WorkersTyped
  <1>2. row \in WorkerRow /\ row.pc = pc /\ row.finding = workers[n].finding
    BY <1>1 DEF WorkerRow
  <1>3. workers' = [workers EXCEPT ![n] = row]
    BY DEF Goto, WorkersTyped
  <1> HIDE DEF row
  <1> QED
    BY <1>2, <1>3, RowMoves

\* A step to a list of writes.
LEMMA WriteMoves ==
  ASSUME WorkersTyped, WritesPending, NEW n \in Worker, NEW pc \in WorkerPc,
         NEW todo \in Seq(StatusWrite), pc \in {"refuse", "write"} => todo # << >>,
         Write(n, pc, todo)
  PROVE  Moved(n) /\ workers'[n].pc = pc
  <1> DEFINE row == [workers[n] EXCEPT !.pc = pc, !.todo = todo]
  <1>1. workers[n] \in WorkerRow
    BY DEF WorkersTyped
  <1>2. row \in WorkerRow /\ row.pc = pc /\ row.todo = todo
    BY <1>1 DEF WorkerRow
  <1>3. workers' = [workers EXCEPT ![n] = row]
    BY DEF Write, WorkersTyped
  <1> HIDE DEF row
  <1> QED
    BY <1>2, <1>3, RowMoves

\* The memory of a worker that just polls.
LEMMA IdleRow == IdleWorker \in WorkerRow /\ IdleWorker.pc = "idle"
  <1>1. << >> \in Seq(StatusWrite)
    OBVIOUS
  <1>2. 0 \in Nat /\ 1 \in 1..Validators /\ "idle" \in WorkerPc /\ FALSE \in BOOLEAN
    BY AssessmentAssumption DEF WorkerPc
  <1> QED
    BY <1>1, <1>2 DEF WorkerRow, IdleWorker

\* The end of an evaluation.
LEMMA IdleMoves ==
  ASSUME WorkersTyped, WritesPending, NEW n \in Worker, Idle(n)
  PROVE  Moved(n) /\ workers'[n].pc = "idle"
  <1> DEFINE row == [IdleWorker EXCEPT !.aborted = workers[n].aborted]
  <1>1. workers[n].aborted \in BOOLEAN
    BY DEF WorkersTyped, WorkerRow
  <1>2. row \in WorkerRow /\ row.pc = "idle"
    BY <1>1, IdleRow DEF WorkerRow
  <1>3. workers' = [workers EXCEPT ![n] = row]
    BY DEF Idle
  <1> HIDE DEF row
  <1> QED
    BY <1>2, <1>3, RowMoves

\* The lists a worker gives up, refuses or is cancelled with.
LEMMA ListsTyped ==
  /\ ErrorWrites \in Seq(StatusWrite) \ {<< >>}
  /\ GiveUpWrites \in Seq(StatusWrite) \ {<< >>}
  /\ CancelWrites \in Seq(StatusWrite) \ {<< >>}
  /\ << >> \in Seq(StatusWrite)
  BY DEF ErrorWrites, GiveUpWrites, CancelWrites, StatusWrite

\* The list of an infrastructure error, retried or not.
LEMMA ErrorListTyped ==
  ASSUME NEW n \in Worker
  PROVE  InfrastructureErrorWrites(n) \in Seq(StatusWrite) \ {<< >>}
  <1> DEFINE rest == IF workers[n].generation < MaxClaimCount
                       THEN <<"job AVAILABLE", "attempt ERROR">> ELSE GiveUpWrites
  <1>1. rest \in Seq(StatusWrite)
    <2>1. <<"job AVAILABLE", "attempt ERROR">> \in Seq(StatusWrite)
      BY DEF StatusWrite
    <2> QED
      BY <2>1, ListsTyped
  <1>2. <<"attempt ERROR">> \in Seq(StatusWrite) /\ Len(<<"attempt ERROR">>) = 1
    BY DEF StatusWrite
  <1> DEFINE first == <<"attempt ERROR">>
             all == first \o rest
  <1> HIDE DEF first, rest
  <1>3. all \in Seq(StatusWrite) /\ Len(all) = 1 + Len(rest) /\ Len(rest) \in Nat
    BY <1>1, <1>2, ConcatProperties, LenProperties DEF first
  <1> HIDE DEF all
  <1>4. all # << >>
    <2>1. Len(all) # 0
      BY <1>3
    <2> QED
      BY <2>1, EmptySeq
  <1> QED
    BY <1>3, <1>4 DEF all, first, rest, InfrastructureErrorWrites

\* An infrastructure error leaves writes to make.
LEMMA ErrorMoves ==
  ASSUME WorkersTyped, WritesPending, NEW n \in Worker, InfrastructureError(n)
  PROVE  Moved(n) /\ workers'[n].pc = "write"
  <1>1. Write(n, "write", InfrastructureErrorWrites(n))
    BY DEF InfrastructureError
  <1>2. "write" \in WorkerPc
    BY DEF WorkerPc
  <1> HIDE DEF InfrastructureErrorWrites
  <1> QED
    BY <1>1, <1>2, ErrorListTyped, WriteMoves

\* Faults are counted up to their bound.
LEMMA FaultsBounded ==
  ASSUME RowsTyped, Fault \/ UNCHANGED faults
  PROVE  faults' \in 0..MaxFaults
  BY AssessmentAssumption DEF RowsTyped, Fault

-----------------------------------------------------------------------------
\* Steps of an evaluation: memory, the attempt's row and faults at most.

\* An evaluation goes on only with evidence from a whole bundle.
EvidenceAtHand(n) ==
  workers'[n].pc \in {"link", "linkWrite", "finalize"} =>
    workers'[n].finding \in Finding /\ BundleIntact

\* Such a step keeps the invariant and the record.
LEMMA EvaluationKeeps ==
  ASSUME AssessmentInv, NEW n \in Worker, Moved(n), EvidenceAtHand(n),
         status = "absent" => workers'[n].pc \in {"down", "idle"},
         attempt' \in {attempt, "RUNNING"},
         faults' \in 0..MaxFaults,
         UNCHANGED <<subject, status, links, manifest, decision, taken, creating, job, issuers,
                     ingestionVars>>
  PROVE  AssessmentInv' /\ RecordStep
  <1> USE DEF AssessmentInv, Moved
  <1>1. RowsTyped' /\ IssuersTyped' /\ JobTyped'
    BY DEF RowsTyped, IssuersTyped, JobTyped
  <1>2. NothingBefore' /\ SubjectIsThere'
    BY DEF NothingBefore, SubjectIsThere, ingestionVars
  <1>3. FindingBacked' /\ VerdictBacked'
    BY DEF FindingBacked, VerdictBacked, EvidenceAtHand, BundleIntact, ingestionVars
  <1>4. Recorded' /\ RecordStep
    BY DEF Recorded, FinalizedTogether, CompleteIsDecided, PartialBundleNeverFinalized,
           BundleIntact, ingestionVars, RecordStep
  <1> QED
    BY <1>1, <1>2, <1>3, <1>4

\* A call that throws, and a signal that has been aborted, end the evaluation.
LEMMA ExitsKeep ==
  ASSUME AssessmentInv, NEW n \in Worker, workers[n].pc \notin {"down", "idle"},
         CallFails(n) \/ Cancelled(n), UNCHANGED ingestionVars
  PROVE  AssessmentInv' /\ RecordStep
  <1>1. Moved(n) /\ workers'[n].pc = "write"
    <2>1. CASE CallFails(n)
      BY <2>1, ErrorMoves DEF CallFails, AssessmentInv
    <2>2. CASE Cancelled(n)
      BY <2>2, WriteMoves, ListsTyped DEF Cancelled, AssessmentInv, WorkerPc
    <2> QED
      BY <2>1, <2>2
  <1>2. faults' \in 0..MaxFaults
    BY FaultsBounded DEF CallFails, Cancelled, AssessmentInv
  <1>3. UNCHANGED <<subject, status, attempt, links, manifest, decision, taken, creating, job, issuers>>
    BY DEF CallFails, Cancelled, rowVars
  <1>4. status # "absent"
    BY DEF AssessmentInv, NothingBefore
  <1> QED
    BY <1>1, <1>2, <1>3, <1>4, EvaluationKeeps DEF EvidenceAtHand

\* Claims that are left, the steps up to the adapter's run, and the look for a
\* manifest before a link.
LEMMA EvaluatorKeeps ==
  ASSUME AssessmentInv, NEW n \in Worker, UNCHANGED ingestionVars,
         LeaveClaim(n) \/ EndSweep(n) \/ LoadAuthority(n) \/ MarkAttemptRunning(n)
           \/ Evaluate(n) \/ CheckLink(n)
  PROVE  AssessmentInv' /\ RecordStep
  <1>1. WorkersTyped /\ WritesPending
    BY DEF AssessmentInv
  <1>2. status = "absent" => workers[n].pc \in {"down", "idle"}
    BY DEF AssessmentInv, NothingBefore
  <1>3. CASE LeaveClaim(n)
    <2>1. Moved(n) /\ workers'[n].pc = "idle"
      BY <1>1, <1>3, IdleMoves DEF LeaveClaim
    <2>2. faults' \in 0..MaxFaults
      BY <1>3, FaultsBounded DEF LeaveClaim, AssessmentInv
    <2> QED
      BY <1>3, <2>1, <2>2, EvaluationKeeps DEF LeaveClaim, EvidenceAtHand, rowVars
  <1>4. CASE EndSweep(n)
    <2>1. Moved(n) /\ workers'[n].pc = "idle"
      BY <1>1, <1>4, GotoMoves DEF EndSweep, WorkerPc
    <2>2. faults' \in 0..MaxFaults
      BY <1>4, FaultsBounded DEF EndSweep, AssessmentInv
    <2> QED
      BY <1>4, <2>1, <2>2, EvaluationKeeps DEF EndSweep, EvidenceAtHand, rowVars
  <1>5. CASE LoadAuthority(n)
    <2>1. Moved(n) /\ workers'[n].pc \in {"idle", "mark", "write"}
      <3>1. CASE Idle(n)
        BY <1>1, <3>1, IdleMoves
      <3>2. CASE Goto(n, "mark")
        BY <1>1, <3>2, GotoMoves DEF WorkerPc
      <3>3. CASE Write(n, "write", ErrorWrites)
        BY <1>1, <3>3, WriteMoves, ListsTyped DEF WorkerPc
      <3>4. CASE InfrastructureError(n)
        BY <1>1, <3>4, ErrorMoves
      <3> QED
        BY <1>5, <3>1, <3>2, <3>3, <3>4 DEF LoadAuthority
    <2>2. faults' \in 0..MaxFaults
      BY <1>5, FaultsBounded DEF LoadAuthority, AssessmentInv
    <2> QED
      BY <1>2, <1>5, <2>1, <2>2, EvaluationKeeps DEF LoadAuthority, EvidenceAtHand, rowVars
  <1>6. CASE MarkAttemptRunning(n)
    <2>1. CASE CallFails(n)
      BY <1>6, <2>1, ExitsKeep DEF MarkAttemptRunning
    <2>2. CASE Goto(n, "evaluate") /\ ~CallFails(n)
      <3>1. Moved(n) /\ workers'[n].pc = "evaluate"
        BY <1>1, <2>2, GotoMoves DEF WorkerPc
      <3>2. faults' \in 0..MaxFaults
        BY <1>6, <2>2, FaultsBounded DEF MarkAttemptRunning, AssessmentInv
      <3> QED
        BY <1>2, <1>6, <2>2, <3>1, <3>2, EvaluationKeeps DEF MarkAttemptRunning, EvidenceAtHand
    <2> QED
      BY <1>6, <2>1, <2>2 DEF MarkAttemptRunning
  <1>7. CASE Evaluate(n)
    <2>1. CASE CallFails(n) \/ Cancelled(n)
      BY <1>7, <2>1, ExitsKeep DEF Evaluate
    <2>2. CASE ~(CallFails(n) \/ Cancelled(n))
      <3>1. Moved(n) /\ EvidenceAtHand(n) /\ workers[n].pc = "evaluate"
        <4>1. ASSUME BundleIntact, NEW f \in Finding,
                     workers' = [workers EXCEPT ![n].pc = "link", ![n].finding = f]
              PROVE  Moved(n) /\ EvidenceAtHand(n)
          <5> DEFINE row == [workers[n] EXCEPT !.pc = "link", !.finding = f]
          <5>1. row \in WorkerRow /\ row.pc = "link" /\ row.finding = f
            BY <1>1 DEF WorkersTyped, WorkerRow, WorkerPc
          <5>2. workers' = [workers EXCEPT ![n] = row]
            BY <1>1, <4>1 DEF WorkersTyped
          <5> HIDE DEF row
          <5>3. Moved(n) /\ workers'[n] = row
            BY <1>1, <5>1, <5>2, RowMoves
          <5> QED
            BY <4>1, <5>1, <5>3 DEF EvidenceAtHand
        <4>2. CASE Write(n, "refuse", ErrorWrites)
          BY <1>1, <1>7, <4>2, WriteMoves, ListsTyped DEF WorkerPc, EvidenceAtHand, Evaluate
        <4>3. CASE InfrastructureError(n)
          BY <1>1, <1>7, <4>3, ErrorMoves DEF EvidenceAtHand, Evaluate
        <4> QED
          BY <1>7, <2>2, <4>1, <4>2, <4>3 DEF Evaluate
      <3>2. /\ faults' \in 0..MaxFaults
            /\ UNCHANGED <<subject, status, attempt, links, manifest, decision, taken, creating,
                           job, issuers>>
        BY <1>7, <2>2, FaultsBounded DEF Evaluate, AssessmentInv, rowVars
      <3> QED
        BY <1>2, <3>1, <3>2, EvaluationKeeps
    <2> QED
      BY <2>1, <2>2
  <1>8. CASE CheckLink(n)
    <2>1. CASE CallFails(n) \/ Cancelled(n)
      BY <1>8, <2>1, ExitsKeep DEF CheckLink
    <2>2. CASE ~(CallFails(n) \/ Cancelled(n))
      <3>1. workers[n].pc = "link" /\ workers[n].finding \in Finding /\ BundleIntact
        BY <1>8 DEF CheckLink, AssessmentInv, FindingBacked
      <3>2. Moved(n) /\ EvidenceAtHand(n)
        <4>1. CASE InfrastructureError(n)
          BY <1>1, <4>1, ErrorMoves DEF EvidenceAtHand
        <4>2. CASE Goto(n, "linkWrite")
          BY <1>1, <3>1, <4>2, GotoMoves DEF WorkerPc, EvidenceAtHand
        <4> QED
          BY <1>8, <2>2, <4>1, <4>2 DEF CheckLink
      <3>3. /\ faults' \in 0..MaxFaults
            /\ UNCHANGED <<subject, status, attempt, links, manifest, decision, taken, creating,
                           job, issuers>>
        BY <1>8, <2>2, FaultsBounded DEF CheckLink, AssessmentInv, rowVars
      <3> QED
        BY <1>2, <3>1, <3>2, <3>3, EvaluationKeeps
    <2> QED
      BY <2>1, <2>2
  <1> QED
    BY <1>3, <1>4, <1>5, <1>6, <1>7, <1>8

-----------------------------------------------------------------------------
\* The worker's other steps.

\* A link is written of the finding that is going to be finalised.
LEMMA LinkKeeps ==
  ASSUME AssessmentInv, NEW n \in Worker, WriteLink(n), UNCHANGED ingestionVars
  PROVE  AssessmentInv' /\ RecordStep
  <1> DEFINE v == workers[n].next
             pc == IF v = Validators THEN "finalize" ELSE "link"
             next == IF v = Validators THEN v ELSE v + 1
             row == [workers[n] EXCEPT !.pc = pc, !.next = next]
  <1>1. v \in 1..Validators /\ workers[n] \in WorkerRow
    BY DEF AssessmentInv, WorkersTyped, WorkerRow
  <1>2. /\ row \in WorkerRow
        /\ row.pc \in {"finalize", "link"} /\ row.finding = workers[n].finding
    <2>1. next \in 1..Validators /\ pc \in {"finalize", "link"} /\ pc \in WorkerPc
      BY <1>1, AssessmentAssumption DEF WorkerPc
    <2> HIDE DEF v, pc, next
    <2> QED
      BY <1>1, <2>1 DEF WorkerRow
  <1>3. workers' = [workers EXCEPT ![n] = row]
    BY DEF WriteLink, AssessmentInv, WorkersTyped
  <1>4. links' = [links EXCEPT ![v] = workers[n].finding]
    BY DEF WriteLink
  <1>5. UNCHANGED <<subject, status, attempt, manifest, decision, taken, creating, job, issuers, faults>>
    BY DEF WriteLink
  <1> HIDE DEF v, pc, next, row
  <1>6. Moved(n) /\ workers'[n] = row
    BY <1>2, <1>3, RowMoves DEF AssessmentInv
  <1>7. workers[n].finding \in Finding /\ BundleIntact /\ status # "absent"
    BY DEF WriteLink, AssessmentInv, FindingBacked, NothingBefore
  <1>8. RowsTyped' /\ IssuersTyped' /\ JobTyped'
    BY <1>1, <1>4, <1>5, <1>7 DEF AssessmentInv, RowsTyped, IssuersTyped, JobTyped
  <1>9. \A u \in 1..Validators : links[u] # NoFinding => links'[u] # NoFinding
    BY <1>1, <1>4, <1>7, AssessmentAssumption DEF AssessmentInv, RowsTyped
  <1>10. NothingBefore' /\ SubjectIsThere' /\ VerdictBacked'
    BY <1>5, <1>7
       DEF AssessmentInv, NothingBefore, SubjectIsThere, VerdictBacked, ingestionVars
  <1>11. FindingBacked'
    BY <1>2, <1>5, <1>6, <1>7 DEF AssessmentInv, FindingBacked, Moved, BundleIntact, ingestionVars
  <1>12. Recorded' /\ RecordStep
    BY <1>5, <1>9
       DEF AssessmentInv, Recorded, FinalizedTogether, CompleteIsDecided,
           PartialBundleNeverFinalized, BundleIntact, ingestionVars, RecordStep
  <1> QED
    BY <1>6, <1>8, <1>10, <1>11, <1>12 DEF AssessmentInv, Moved

\* Who finalises holds the job; so it was not COMPLETE, and there was no manifest.
LEMMA FinalizeKeeps ==
  ASSUME AssessmentInv, NEW n \in Worker, CompleteAttemptAtomically(n), UNCHANGED ingestionVars
  PROVE  AssessmentInv' /\ RecordStep
  <1>1. workers[n].pc = "finalize"
    BY DEF CompleteAttemptAtomically
  <1>2. status # "absent" /\ workers[n].finding \in Finding /\ BundleIntact
    BY <1>1 DEF AssessmentInv, NothingBefore, FindingBacked
  <1>3. CASE Cancelled(n) \/ CallFails(n)
    BY <1>1, <1>3, ExitsKeep
  <1>4. CASE /\ InfrastructureError(n)
             /\ UNCHANGED <<rowVars, job, issuers, faults>>
    <2>1. Moved(n) /\ workers'[n].pc = "write"
      BY <1>4, ErrorMoves DEF AssessmentInv
    <2>2. faults' \in 0..MaxFaults
      BY <1>4 DEF AssessmentInv, RowsTyped
    <2> QED
      BY <1>2, <1>4, <2>1, <2>2, EvaluationKeeps DEF EvidenceAtHand, rowVars
  <1>5. CASE /\ CanFinalize(n) /\ CompleteJob(n, workers[n].generation)
             /\ manifest' = workers[n].finding
             /\ attempt' = "COMPLETE" /\ status' = "DECIDING"
             /\ Idle(n)
             /\ UNCHANGED <<subject, links, decision, taken, creating, issuers, faults>>
    <2>1. job.status \in JobActive /\ job' = [job EXCEPT !.status = "COMPLETE"]
      BY <1>5 DEF CanFinalize, CompleteJob, Fenced, Holds
    <2>2. manifest = NoFinding
      BY <2>1 DEF AssessmentInv, Recorded, FinalizedTogether, JobActive
    <2>3. Moved(n) /\ workers'[n].pc = "idle"
      BY <1>5, IdleMoves DEF AssessmentInv
    <2>4. JobTyped' /\ job'.status = "COMPLETE"
      BY <2>1 DEF AssessmentInv, JobTyped, JobRow, JobTerminal
    <2>5. RowsTyped' /\ IssuersTyped'
      BY <1>2, <1>5 DEF AssessmentInv, RowsTyped, IssuersTyped
    <2>6. NothingBefore' /\ SubjectIsThere'
      BY <1>2, <1>5 DEF AssessmentInv, NothingBefore, SubjectIsThere, ingestionVars
    <2>7. FindingBacked'
      BY <1>5, <2>3 DEF AssessmentInv, FindingBacked, Moved, BundleIntact, ingestionVars
    <2>8. VerdictBacked'
      BY <1>5, <2>2, AssessmentAssumption DEF AssessmentInv, VerdictBacked
    <2>9. Recorded'
      BY <1>2, <1>5, <2>4, AssessmentAssumption
         DEF AssessmentInv, Recorded, FinalizedTogether, CompleteIsDecided, CanFinalize,
             PartialBundleNeverFinalized, BundleIntact, ingestionVars
    <2>10. RecordStep
      BY <1>2, <1>5, <2>2 DEF RecordStep, D!Finalize
    <2> QED
      BY <2>3, <2>4, <2>5, <2>6, <2>7, <2>8, <2>9, <2>10 DEF AssessmentInv, Moved
  <1> QED
    BY <1>3, <1>4, <1>5 DEF CompleteAttemptAtomically

\* What a write does to the rows; only one that still holds the job changes it.
LEMMA WriteEffect ==
  ASSUME AssessmentInv, NEW n \in Worker, NEW write \in StatusWrite, ApplyWrite(n, write)
  PROVE  /\ JobTyped'
         /\ status' \in {status, "RUNNING", "ERROR", "CANCELLED"}
         /\ attempt' \in {attempt, "ERROR", "CANCELLED"}
         /\ \/ job' = job
            \/ job.status \in JobActive /\ job'.status \in {"AVAILABLE", "FAILED", "CANCELLED"}
  <1> USE DEF ApplyWrite
  <1>1. CASE write \in {"attempt ERROR", "attempt CANCELLED", "assessment RUNNING",
                        "assessment ERROR", "assessment CANCELLED"}
    BY <1>1 DEF AssessmentInv, JobTyped
  <1>2. CASE write \in {"job AVAILABLE", "job FAILED", "job CANCELLED"}
    <2>1. UNCHANGED <<status, attempt>>
      BY <1>2
    <2>2. \/ job' = job
          \/ /\ job.status \in JobActive
             /\ \/ job' = [job EXCEPT !.status = "AVAILABLE", !.worker = NoWorker]
                \/ job' = [job EXCEPT !.status = "FAILED"]
                \/ job' = [job EXCEPT !.status = "CANCELLED"]
      BY <1>2 DEF RescheduleJob, FailJob, CancelJob, Fenced, Holds
    <2>3. job \in JobRow
      BY DEF AssessmentInv, JobTyped
    <2> QED
      BY <2>1, <2>2, <2>3 DEF JobTyped, JobRow, JobTerminal
  <1> QED
    BY <1>1, <1>2 DEF StatusWrite

\* The rest of the list stays to be written, or the worker goes on.
LEMMA AfterWriteMoves ==
  ASSUME WorkersTyped, WritesPending, NEW n \in Worker, workers[n].pc \in {"refuse", "write"},
         AfterWrite(n)
  PROVE  Moved(n) /\ workers'[n].pc \in AtRest
  <1>1. workers[n].todo \in Seq(StatusWrite) /\ workers[n].todo # << >>
    BY DEF WorkersTyped, WorkerRow, WritesPending
  <1>2. Tail(workers[n].todo) \in Seq(StatusWrite)
    BY <1>1, HeadTailProperties
  <1>3. CASE /\ Tail(workers[n].todo) # << >>
             /\ workers' = [workers EXCEPT ![n].todo = Tail(workers[n].todo)]
    <2> DEFINE rest == Tail(workers[n].todo)
    <2> HIDE DEF rest
    <2> DEFINE row == [workers[n] EXCEPT !.todo = rest]
    <2>1. workers[n] \in WorkerRow
      BY DEF WorkersTyped
    <2>2. row \in WorkerRow /\ row.pc = workers[n].pc /\ row.todo = rest
      BY <1>2, <2>1 DEF rest, WorkerRow
    <2>3. workers' = [workers EXCEPT ![n] = row]
      BY <1>3, <2>1 DEF rest
    <2> HIDE DEF row
    <2>4. row.todo # << >>
      BY <1>3, <2>2 DEF rest
    <2> QED
      BY <2>2, <2>3, <2>4, RowMoves DEF AtRest
  <1>4. CASE Write(n, "load", << >>)
    BY <1>4, WriteMoves, ListsTyped DEF AtRest, WorkerPc
  <1>5. CASE Idle(n)
    BY <1>5, IdleMoves DEF AtRest
  <1> QED
    BY <1>3, <1>4, <1>5 DEF AfterWrite

\* An unfenced write may undo a status, but makes no evidence and no decision.
LEMMA WriteKeeps ==
  ASSUME AssessmentInv, NEW n \in Worker, MakeWrite(n), UNCHANGED ingestionVars
  PROVE  AssessmentInv' /\ RecordStep
  <1>1. workers[n].pc \in {"refuse", "write"} /\ status # "absent"
    BY DEF MakeWrite, AssessmentInv, NothingBefore
  <1>2. Head(workers[n].todo) \in StatusWrite
    <2>1. workers[n].todo \in Seq(StatusWrite) /\ workers[n].todo # << >>
      BY <1>1 DEF AssessmentInv, WorkersTyped, WorkerRow, WritesPending
    <2> QED
      BY <2>1, HeadTailProperties
  <1>3. Moved(n) /\ workers'[n].pc \in AtRest
    <2>1. CASE AfterWrite(n)
      BY <1>1, <2>1, AfterWriteMoves DEF AssessmentInv
    <2>2. CASE InfrastructureError(n)
      BY <2>2, ErrorMoves DEF AssessmentInv, AtRest
    <2> QED
      BY <2>1, <2>2 DEF MakeWrite
  <1>4. /\ JobTyped'
        /\ status' \in {status, "RUNNING", "ERROR", "CANCELLED"}
        /\ attempt' \in {attempt, "ERROR", "CANCELLED"}
        /\ \/ job' = job
           \/ job.status \in JobActive /\ job'.status \in {"AVAILABLE", "FAILED", "CANCELLED"}
    <2>1. CASE ApplyWrite(n, Head(workers[n].todo))
      BY <1>2, <2>1, WriteEffect
    <2>2. CASE UNCHANGED <<job, status, attempt>>
      BY <2>2 DEF AssessmentInv, JobTyped
    <2> QED
      BY <2>1, <2>2 DEF MakeWrite
  <1>5. faults' \in 0..MaxFaults
    BY FaultsBounded DEF MakeWrite, AssessmentInv
  <1>6. UNCHANGED <<subject, links, manifest, decision, taken, creating, issuers>>
    BY DEF MakeWrite
  <1>7. RowsTyped' /\ IssuersTyped'
    BY <1>4, <1>5, <1>6 DEF AssessmentInv, RowsTyped, IssuersTyped
  <1>8. NothingBefore' /\ SubjectIsThere' /\ VerdictBacked'
    BY <1>1, <1>4, <1>6
       DEF AssessmentInv, NothingBefore, SubjectIsThere, VerdictBacked, ingestionVars
  <1>9. FindingBacked'
    BY <1>3, <1>6 DEF AssessmentInv, FindingBacked, Moved, AtRest, BundleIntact, ingestionVars
  <1>10. Recorded' /\ RecordStep
    BY <1>4, <1>6
       DEF AssessmentInv, Recorded, FinalizedTogether, CompleteIsDecided, JobActive,
           PartialBundleNeverFinalized, BundleIntact, ingestionVars, RecordStep
  <1> QED
    BY <1>3, <1>4, <1>7, <1>8, <1>9, <1>10 DEF AssessmentInv, Moved

\* A claim, the turn to RUNNING and an expiry leave a job that is not COMPLETE so.
LEMMA ClaimKeeps ==
  ASSUME AssessmentInv, UNCHANGED ingestionVars,
         \/ \E n \in Worker : ClaimNextGovernanceJob(n) \/ BeginRunning(n)
         \/ JobLeaseLapses
  PROVE  AssessmentInv' /\ RecordStep
  <1>1. /\ JobTyped' /\ job.status \in {"AVAILABLE"} \cup JobActive /\ job'.status \in JobActive
        /\ UNCHANGED <<rowVars, issuers>> /\ faults' \in 0..MaxFaults
    <2>1. CASE \E n \in Worker : ClaimNextGovernanceJob(n)
      BY <2>1 DEF ClaimNextGovernanceJob, ClaimJob, AssessmentInv, JobTyped, JobRow, JobActive,
                  RowsTyped
    <2>2. CASE \E n \in Worker : BeginRunning(n)
      BY <2>2 DEF BeginRunning, TransitionJobToRunning, Holds, AssessmentInv, JobTyped, JobRow,
                  JobActive, RowsTyped
    <2>3. CASE JobLeaseLapses
      <3>1. faults' \in 0..MaxFaults
        BY <2>3, FaultsBounded DEF JobLeaseLapses, AssessmentInv
      <3> QED
        BY <2>3, <3>1 DEF JobLeaseLapses, LapseJob, AssessmentInv, JobTyped, JobRow, JobActive
    <2> QED
      BY <2>1, <2>2, <2>3
  <1>2. WorkersTyped' /\ WritesPending' /\ status # "absent"
        /\ \A m \in Worker : workers'[m] = workers[m] \/ workers'[m].pc \in AtRest
    <2>1. ASSUME NEW n \in Worker, ClaimNextGovernanceJob(n)
          PROVE  Moved(n) /\ workers'[n].pc \in AtRest
      <3> DEFINE over == job'.generation > MaxClaimCount
                 row == [IdleWorker EXCEPT !.generation = job'.generation,
                                           !.pc = IF over THEN "write" ELSE "claimed",
                                           !.todo = IF over THEN GiveUpWrites ELSE << >>]
      <3>1. job'.generation \in Nat
        BY <1>1 DEF JobTyped, JobRow
      <3>2. row \in WorkerRow /\ row.pc \in {"write", "claimed"}
            /\ (row.pc = "write" => row.todo # << >>)
        BY <3>1, IdleRow, ListsTyped DEF WorkerRow, WorkerPc
      <3>3. workers' = [workers EXCEPT ![n] = row]
        BY <2>1 DEF ClaimNextGovernanceJob
      <3> HIDE DEF row
      <3> QED
        BY <3>2, <3>3, RowMoves DEF AssessmentInv, AtRest
    <2>2. ASSUME NEW n \in Worker, BeginRunning(n)
          PROVE  Moved(n) /\ workers'[n].pc \in AtRest
      <3>1. <<"assessment RUNNING">> \in Seq(StatusWrite) /\ <<"assessment RUNNING">> # << >>
        BY DEF StatusWrite
      <3> QED
        BY <2>2, <3>1, WriteMoves DEF BeginRunning, AssessmentInv, AtRest, WorkerPc
    <2>3. CASE JobLeaseLapses
      BY <1>1, <2>3 DEF JobLeaseLapses, AssessmentInv, WorkersTyped, WritesPending, NothingBefore,
                        JobActive
    <2>4. status # "absent"
      BY <1>1 DEF AssessmentInv, NothingBefore, JobActive
    <2> QED
      BY <2>1, <2>2, <2>3, <2>4 DEF Moved
  <1>3. RowsTyped' /\ IssuersTyped'
    BY <1>1 DEF AssessmentInv, RowsTyped, IssuersTyped, rowVars
  <1>4. NothingBefore' /\ SubjectIsThere' /\ VerdictBacked'
    BY <1>1, <1>2
       DEF AssessmentInv, NothingBefore, SubjectIsThere, VerdictBacked, ingestionVars, rowVars
  <1>5. FindingBacked'
    BY <1>1, <1>2 DEF AssessmentInv, FindingBacked, AtRest, BundleIntact, ingestionVars, rowVars
  <1>6. Recorded' /\ RecordStep
    BY <1>1
       DEF AssessmentInv, Recorded, FinalizedTogether, CompleteIsDecided, JobActive,
           PartialBundleNeverFinalized, BundleIntact, ingestionVars, RecordStep, rowVars
  <1> QED
    BY <1>1, <1>2, <1>3, <1>4, <1>5, <1>6 DEF AssessmentInv

-----------------------------------------------------------------------------
\* Starts and ends of processes, creation, and the callers of issue().

\* What a step that leaves job, manifest and decision alone must still show.
LEMMA RecordsKept ==
  ASSUME AssessmentInv, UNCHANGED ingestionVars,
         UNCHANGED <<subject, status, attempt, links, manifest, decision, taken, creating, job>>,
         faults' \in 0..MaxFaults,
         WorkersTyped', WritesPending', IssuersTyped',
         \A m \in Worker : workers'[m] = workers[m] \/ workers'[m].pc \in AtRest,
         \A c \in Issuer : issuers'[c] = issuers[c] \/ issuers'[c].pc # "persist",
         status = "absent" => /\ \A m \in Worker : workers'[m].pc \in {"down", "idle"}
                              /\ \A c \in Issuer : issuers'[c].pc = "none"
  PROVE  AssessmentInv' /\ RecordStep
  <1> USE DEF AssessmentInv
  <1>1. RowsTyped' /\ JobTyped'
    BY DEF RowsTyped, JobTyped
  <1>2. NothingBefore' /\ SubjectIsThere'
    BY DEF NothingBefore, SubjectIsThere, ingestionVars
  <1>3. FindingBacked' /\ VerdictBacked'
    BY DEF FindingBacked, VerdictBacked, AtRest, BundleIntact, ingestionVars
  <1>4. Recorded' /\ RecordStep
    BY DEF Recorded, FinalizedTogether, CompleteIsDecided, PartialBundleNeverFinalized,
           BundleIntact, ingestionVars, RecordStep
  <1> QED
    BY <1>1, <1>2, <1>3, <1>4

\* A process that starts may find an assessment to decide; one that stops or
\* exits leaves nothing half said.
LEMMA ProcessesKeep ==
  ASSUME AssessmentInv, NEW n \in Worker, UNCHANGED ingestionVars,
         StartWorker(n) \/ StopWorker(n) \/ WorkerExit(n)
  PROVE  AssessmentInv' /\ RecordStep
  <1> USE DEF AssessmentInv
  <1>1. faults' \in 0..MaxFaults /\ n \in Issuer
    BY FaultsBounded DEF StartWorker, StopWorker, WorkerExit, Issuer
  <1>2. CASE StartWorker(n)
    <2>1. Moved(n) /\ workers'[n].pc \in {"sweep", "idle"}
          /\ (workers'[n].pc = "sweep" => status # "absent")
      BY <1>2, GotoMoves DEF StartWorker, WorkerPc
    <2>2. IssuersTyped' /\ \A c \in Issuer : issuers'[c] = issuers[c]
                                             \/ (issuers'[c].pc = "existing" /\ status # "absent")
      <3>1. CASE UNCHANGED issuers
        BY <3>1 DEF IssuersTyped
      <3>2. CASE status = "DECIDING" /\ issuers' = [issuers EXCEPT ![n].pc = "existing"]
        BY <1>1, <3>2 DEF IssuersTyped, IssuerPc
      <3> QED
        BY <1>2, <3>1, <3>2 DEF StartWorker
    <2>3. UNCHANGED <<subject, status, attempt, links, manifest, decision, taken, creating, job>>
      BY <1>2 DEF StartWorker, rowVars
    <2>4. status = "absent" => /\ \A m \in Worker : workers'[m].pc \in {"down", "idle"}
                               /\ \A c \in Issuer : issuers'[c].pc = "none"
      BY <2>1, <2>2 DEF NothingBefore, Moved
    <2> QED
      BY <1>1, <2>1, <2>2, <2>3, <2>4, RecordsKept DEF Moved, AtRest
  <1>3. CASE StopWorker(n)
    <2> DEFINE row == [workers[n] EXCEPT !.aborted = TRUE]
    <2>1. row \in WorkerRow /\ row.pc = workers[n].pc /\ row.todo = workers[n].todo
          /\ row.finding = workers[n].finding
      BY DEF WorkersTyped, WorkerRow
    <2>2. workers' = [workers EXCEPT ![n] = row]
      BY <1>3 DEF StopWorker, WorkersTyped
    <2> HIDE DEF row
    <2>3. Moved(n) /\ workers'[n] = row
      BY <2>1, <2>2, RowMoves DEF WritesPending
    <2>4. UNCHANGED <<subject, status, attempt, links, manifest, decision, taken, creating, job,
                      issuers>>
      BY <1>3 DEF StopWorker, rowVars
    <2>5. EvidenceAtHand(n) /\ (status = "absent" => workers'[n].pc \in {"down", "idle"})
      BY <2>1, <2>3 DEF EvidenceAtHand, FindingBacked, NothingBefore
    <2> QED
      BY <1>1, <2>3, <2>4, <2>5, EvaluationKeeps
  <1>4. CASE WorkerExit(n)
    <2> DEFINE row == [IdleWorker EXCEPT !.pc = "down"]
    <2>1. row \in WorkerRow /\ row.pc = "down"
      BY IdleRow DEF WorkerRow, WorkerPc
    <2>2. workers' = [workers EXCEPT ![n] = row]
      BY <1>4 DEF WorkerExit
    <2> HIDE DEF row
    <2>3. Moved(n) /\ workers'[n].pc = "down"
      BY <2>1, <2>2, RowMoves
    <2>4. IssuersTyped' /\ \A c \in Issuer : issuers'[c] = issuers[c] \/ issuers'[c].pc = "none"
      BY <1>1, <1>4, AssessmentAssumption DEF WorkerExit, IssuersTyped, IssuerPc
    <2>5. UNCHANGED <<subject, status, attempt, links, manifest, decision, taken, creating, job>>
      BY <1>4 DEF WorkerExit, rowVars
    <2>6. status = "absent" => /\ \A m \in Worker : workers'[m].pc \in {"down", "idle"}
                               /\ \A c \in Issuer : issuers'[c].pc = "none"
      BY <2>3, <2>4 DEF NothingBefore, Moved
    <2> QED
      BY <1>1, <2>3, <2>4, <2>5, <2>6, RecordsKept DEF Moved, AtRest
  <1> QED
    BY <1>2, <1>3, <1>4

\* The subject is chosen once, and the job made once, when nothing rests on them.
LEMMA CreationKeeps ==
  ASSUME AssessmentInv, UNCHANGED ingestionVars,
         CreateAssessmentGraph \/ CreateAssessmentWithoutKey, artifacts \subseteq Upload
  PROVE  AssessmentInv' /\ RecordStep
  <1> USE DEF AssessmentInv
  <1>1. UNCHANGED <<links, manifest, decision, taken, workers, issuers>> /\ faults' \in 0..MaxFaults
    <2>1. Fault \/ UNCHANGED faults
      BY DEF CreateAssessmentGraph, CreateAssessmentWithoutKey, CreateAssessment
    <2> QED
      BY <2>1, FaultsBounded DEF CreateAssessmentGraph, CreateAssessmentWithoutKey
  <1>2. \/ status' = status /\ subject' = subject
        \/ status = "absent" /\ status' = "QUEUED" /\ subject' \in artifacts
    BY DEF CreateAssessmentGraph, CreateAssessmentWithoutKey, CreateAssessment
  <1>3. job' = job \/ (job.status = "absent" /\ job' = [NoJobRow EXCEPT !.status = "AVAILABLE"])
    BY DEF CreateAssessmentGraph, CreateAssessmentWithoutKey, CreateAssessment, CreateJob
  <1>4. JobTyped' /\ (job' = job \/ (job.status = "absent" /\ job'.status = "AVAILABLE"))
    <2> DEFINE row == [NoJobRow EXCEPT !.status = "AVAILABLE"]
    <2>1. row \in JobRow /\ row.status = "AVAILABLE"
      BY DEF JobRow, NoJobRow
    <2>2. job' = job \/ (job.status = "absent" /\ job' = row)
      BY <1>3
    <2> HIDE DEF row
    <2> QED
      BY <2>1, <2>2 DEF JobTyped
  <1>5. /\ attempt' \in {attempt, "QUEUED"} /\ creating' \in {"none", "attempt", "job", "done", "dead"}
        /\ (status' = "absent" => creating' = "none" /\ job' = job)
    BY DEF CreateAssessmentGraph, CreateAssessmentWithoutKey, CreateAssessment, RowsTyped,
           NothingBefore
  <1>6. RowsTyped' /\ IssuersTyped' /\ WorkersTyped' /\ WritesPending'
    BY <1>1, <1>2, <1>5 DEF RowsTyped, IssuersTyped, WorkersTyped, WritesPending
  <1>7. NothingBefore' /\ SubjectIsThere'
    BY <1>1, <1>2, <1>5 DEF NothingBefore, SubjectIsThere, ingestionVars
  <1>8. FindingBacked' /\ VerdictBacked'
    BY <1>1, <1>2 DEF FindingBacked, VerdictBacked, NothingBefore, BundleIntact, ingestionVars
  <1>9. Recorded' /\ RecordStep
    BY <1>1, <1>2, <1>4
       DEF Recorded, FinalizedTogether, CompleteIsDecided, PartialBundleNeverFinalized,
           NothingBefore, BundleIntact, ingestionVars, RecordStep
  <1> QED
    BY <1>4, <1>6, <1>7, <1>8, <1>9

\* One that looks or gives up changes the assessment's status at most.
LEMMA LooksKeep ==
  ASSUME AssessmentInv, NEW c \in Issuer, UNCHANGED ingestionVars,
         (c \in Reader /\ ReadAssessment(c)) \/ LookForDecision(c) \/ VerifyForDecision(c)
           \/ RefuseDecision(c) \/ ReaderFails(c)
  PROVE  AssessmentInv' /\ RecordStep
  <1> USE DEF AssessmentInv
  <1>1. faults' \in 0..MaxFaults
    BY FaultsBounded
       DEF ReadAssessment, LookForDecision, VerifyForDecision, RefuseDecision, ReaderFails
  <1>2. /\ UNCHANGED <<subject, attempt, links, manifest, decision, taken, creating, job, workers>>
        /\ status' \in {status, "ERROR"} /\ status # "absent"
    BY DEF ReadAssessment, LookForDecision, VerifyForDecision, RefuseDecision, ReaderFails, rowVars,
           NothingBefore
  <1>3. IssuersTyped' /\ \A i \in Issuer : issuers'[i] = issuers[i] \/ i = c
    BY DEF ReadAssessment, LookForDecision, VerifyForDecision, RefuseDecision, ReaderFails,
           IssuerGoto, IssuersTyped, IssuerPc, RowsTyped
  <1>4. issuers'[c].pc = "persist" => issuers'[c].seen = manifest /\ manifest \in Finding \ Undecidable
    BY AssessmentAssumption
       DEF ReadAssessment, LookForDecision, VerifyForDecision, RefuseDecision, ReaderFails,
           IssuerGoto, IssuersTyped, Recorded, FinalizedTogether, RowsTyped
  <1>5. RowsTyped' /\ JobTyped' /\ WorkersTyped' /\ WritesPending'
    BY <1>1, <1>2 DEF RowsTyped, JobTyped, WorkersTyped, WritesPending
  <1>6. NothingBefore' /\ SubjectIsThere' /\ FindingBacked'
    BY <1>2 DEF NothingBefore, SubjectIsThere, FindingBacked, BundleIntact, ingestionVars
  <1>7. VerdictBacked'
    BY <1>2, <1>3, <1>4 DEF VerdictBacked
  <1>8. Recorded' /\ RecordStep
    BY <1>2
       DEF Recorded, FinalizedTogether, CompleteIsDecided, PartialBundleNeverFinalized,
           BundleIntact, ingestionVars, RecordStep
  <1> QED
    BY <1>3, <1>5, <1>6, <1>7, <1>8

\* The decision is written where there is none, of the manifest the issuer saw,
\* which is the manifest still.
LEMMA PersistKeeps ==
  ASSUME AssessmentInv, NEW c \in Issuer, PersistDecision(c), UNCHANGED ingestionVars
  PROVE  AssessmentInv' /\ RecordStep
  <1> USE DEF AssessmentInv
  <1>1. /\ UNCHANGED <<subject, attempt, links, manifest, taken, creating, job, workers, faults>>
        /\ issuers' = [issuers EXCEPT ![c] = [pc |-> "none", seen |-> NoFinding]]
        /\ issuers[c].pc = "persist"
        /\ \/ decision = NoFinding /\ decision' = issuers[c].seen /\ status' = "COMPLETE"
           \/ UNCHANGED <<decision, status>>
    BY DEF PersistDecision
  <1>2. /\ issuers[c].seen = manifest /\ manifest \in Finding \ Undecidable /\ manifest # NoFinding
        /\ status # "absent"
    BY <1>1, AssessmentAssumption DEF VerdictBacked, NothingBefore
  <1>3. IssuersTyped' /\ \A i \in Issuer : issuers'[i] = issuers[i] \/ issuers'[i].pc = "none"
    BY <1>1 DEF IssuersTyped, IssuerPc
  <1>4. RowsTyped' /\ JobTyped' /\ WorkersTyped' /\ WritesPending'
    BY <1>1, <1>2 DEF RowsTyped, JobTyped, WorkersTyped, WritesPending
  <1>5. NothingBefore' /\ SubjectIsThere' /\ FindingBacked'
    BY <1>1, <1>2 DEF NothingBefore, SubjectIsThere, FindingBacked, BundleIntact, ingestionVars
  <1>6. VerdictBacked'
    BY <1>1, <1>3 DEF VerdictBacked
  <1>7. Recorded'
    BY <1>1, <1>2
       DEF Recorded, FinalizedTogether, CompleteIsDecided, PartialBundleNeverFinalized,
           BundleIntact, ingestionVars
  <1>8. RecordStep
    BY <1>1, <1>2 DEF RecordStep, D!Issue
  <1> QED
    BY <1>3, <1>4, <1>5, <1>6, <1>7, <1>8

-----------------------------------------------------------------------------
\* Uploads beside the assessment never take its artifact or its bundle away.
LEMMA UploadsKeep ==
  ASSUME IngestionInv, AssessmentInv, BlobsStayIntact, ArtifactsStay, UNCHANGED assessmentVars
  PROVE  AssessmentInv' /\ RecordStep
  <1> USE DEF AssessmentInv
  <1>1. UNCHANGED <<subject, status, attempt, links, manifest, decision, taken, creating, job,
                    workers, issuers, faults>>
    BY DEF assessmentVars, rowVars
  <1>2. status # "absent" /\ BundleIntact => BundleIntact'
    <2> SUFFICES ASSUME status # "absent", BundleIntact PROVE BundleIntact'
      OBVIOUS
    <2>1. subject \in artifacts /\ subject \in Upload
      BY DEF SubjectIsThere, IngestionInv, IngestionTypeOK
    <2>2. uploads[subject].digest \in Digest
      BY <2>1 DEF IngestionInv, ArtifactsAnswered, ReceivedHasDigest
    <2>3. uploads'[subject].digest = uploads[subject].digest
      BY <2>1 DEF ArtifactsStay
    <2> QED
      BY <1>1, <2>2, <2>3 DEF BundleIntact, BlobsStayIntact
  <1>3. /\ WorkersTyped' /\ IssuersTyped' /\ JobTyped' /\ RowsTyped' /\ WritesPending'
        /\ NothingBefore' /\ SubjectIsThere'
    BY <1>1 DEF WorkersTyped, IssuersTyped, JobTyped, RowsTyped, WritesPending, NothingBefore,
                SubjectIsThere, ArtifactsStay
  <1>4. FindingBacked' /\ VerdictBacked'
    BY <1>1, <1>2 DEF FindingBacked, VerdictBacked, NothingBefore
  <1>5. Recorded' /\ RecordStep
    BY <1>1, <1>2 DEF Recorded, FinalizedTogether, CompleteIsDecided,
                      PartialBundleNeverFinalized, NothingBefore, RecordStep
  <1> QED
    BY <1>3, <1>4, <1>5

\* Nobody has to do with the assessment before it is created.
LEMMA AssessmentInitInv == AssessmentInit => AssessmentInv
  <1> SUFFICES ASSUME AssessmentInit PROVE AssessmentInv
    OBVIOUS
  <1> USE AssessmentAssumption DEF AssessmentInit
  <1>1. WorkersTyped /\ WritesPending /\ \A n \in Worker : workers[n].pc = "down"
    <2>1. [IdleWorker EXCEPT !.pc = "down"] \in WorkerRow
          /\ [IdleWorker EXCEPT !.pc = "down"].pc = "down"
      BY IdleRow DEF WorkerRow, WorkerPc
    <2> QED
      BY <2>1 DEF WorkersTyped, WritesPending
  <1>2. IssuersTyped
    BY DEF IssuersTyped, IssuerPc
  <1>3. JobTyped /\ job.status = "absent"
    BY DEF JobTyped, JobRow, NoJobRow
  <1>4. RowsTyped
    BY DEF RowsTyped
  <1>5. NothingBefore /\ SubjectIsThere /\ FindingBacked /\ VerdictBacked
    BY <1>1, <1>3 DEF NothingBefore, SubjectIsThere, FindingBacked, VerdictBacked
  <1>6. Recorded
    BY <1>3 DEF Recorded, FinalizedTogether, CompleteIsDecided, PartialBundleNeverFinalized
  <1> QED
    BY <1>1, <1>2, <1>3, <1>4, <1>5, <1>6 DEF AssessmentInv

\* Every step of either part.
LEMMA GovernanceNextInv ==
  IngestionInv /\ AssessmentInv /\ [GovernanceNext]_governanceVars
    => IngestionInv' /\ AssessmentInv' /\ RecordStep
  <1> SUFFICES ASSUME IngestionInv, AssessmentInv, [GovernanceNext]_governanceVars
               PROVE  IngestionInv' /\ AssessmentInv' /\ RecordStep
    OBVIOUS
  <1>1. CASE IngestionNext /\ UNCHANGED assessmentVars
    <2>1. IngestionInv' /\ BlobsStayIntact /\ ArtifactsStay
      BY <1>1, IngestionNextInv
    <2> QED
      BY <1>1, <2>1, UploadsKeep
  <1>2. CASE UNCHANGED ingestionVars
    <2>1. IngestionInv'
      BY <1>2, IngestionNextInv
    <2>2. CASE AssessmentNext
      <3>1. artifacts \subseteq Upload
        BY DEF IngestionInv, IngestionTypeOK
      <3>2. ASSUME NEW n \in Worker, WorkerStep(n) \/ StopWorker(n) \/ WorkerExit(n)
            PROVE  AssessmentInv' /\ RecordStep
        BY <1>2, <3>2, ProcessesKeep, ClaimKeeps, EvaluatorKeeps, WriteKeeps, LinkKeeps, FinalizeKeeps
           DEF WorkerStep
      <3>3. ASSUME NEW c \in Reader, ReadAssessment(c)
            PROVE  AssessmentInv' /\ RecordStep
        BY <1>2, <3>3, LooksKeep DEF Issuer
      <3>4. ASSUME NEW c \in Issuer, IssuerStep(c) \/ ReaderFails(c)
            PROVE  AssessmentInv' /\ RecordStep
        BY <1>2, <3>4, LooksKeep, PersistKeeps DEF IssuerStep
      <3>5. CASE JobLeaseLapses
        BY <1>2, <2>1, <3>5, ClaimKeeps
      <3>6. CASE CreateAssessmentGraph \/ CreateAssessmentWithoutKey
        BY <1>2, <2>1, <3>1, <3>6, CreationKeeps
      <3> QED
        BY <2>1, <2>2, <3>2, <3>3, <3>4, <3>5, <3>6 DEF AssessmentNext
    <2>3. CASE UNCHANGED assessmentVars
      <3>1. BlobsStayIntact /\ ArtifactsStay
        BY <1>2, IngestionNextInv
      <3> QED
        BY <2>1, <2>3, <3>1, UploadsKeep
    <2> QED
      BY <1>2, <2>2, <2>3 DEF GovernanceNext, governanceVars
  <1> QED
    BY <1>1, <1>2 DEF GovernanceNext, governanceVars

\* And every behaviour.
LEMMA GovernanceAlways == GovernanceSpec => [](IngestionInv /\ AssessmentInv)
  <1>1. IngestionInv /\ AssessmentInv /\ [GovernanceNext]_governanceVars
          => (IngestionInv /\ AssessmentInv)'
    BY GovernanceNextInv
  <1> QED
    BY <1>1, IngestionInitInv, AssessmentInitInv, PTL DEF GovernanceSpec, GovernanceInit

\* Every variable of the assessment has its type.
THEOREM AssessmentTyped == GovernanceSpec => []AssessmentTypeOK
  <1>1. AssessmentInv => AssessmentTypeOK
    BY DEF AssessmentInv, AssessmentTypeOK, RowsTyped, WorkersTyped, WorkerRow, IssuersTyped,
           JobTyped, JobRow
  <1> QED
    BY <1>1, GovernanceAlways, PTL

\* Manifest, completed job and the turn to DECIDING are one event, with a link
\* of every validator before it (completeAttemptAtomically); COMPLETE means
\* decided, and what cannot be decided never is (persistIssuedDecisionAtomically).
THEOREM OneEvent == GovernanceSpec => []DecidedOnEvidence
  <1>1. AssessmentInv => DecidedOnEvidence
    BY DEF AssessmentInv, Recorded, DecidedOnEvidence
  <1> QED
    BY <1>1, GovernanceAlways, PTL

\* No evidence rests on a bundle that was stored in part, though uploads go on
\* copying and crashing (LocalArtifactObjectStore.putIfAbsent).
THEOREM EvidenceOfWholeBundles == GovernanceSpec => []PartialBundleNeverFinalized
  <1>1. AssessmentInv => PartialBundleNeverFinalized
    BY DEF AssessmentInv, Recorded
  <1> QED
    BY <1>1, GovernanceAlways, PTL

\* The store implements DecisionRecord: every step finalises once, issues once
\* from what was finalised, or leaves both as they are.
THEOREM StoreKeepsRecord == GovernanceSpec => DecisionRecordKept
  <1>1. GovernanceInit => D!DecisionInit
    BY DEF GovernanceInit, AssessmentInit, D!DecisionInit
  <1>2. IngestionInv /\ AssessmentInv /\ [GovernanceNext]_governanceVars
          => [D!Finalize \/ D!Issue]_<<manifest, decision>>
    BY GovernanceNextInv DEF RecordStep
  <1> QED
    BY <1>1, <1>2, GovernanceAlways, PTL DEF GovernanceSpec, DecisionRecordKept, D!DecisionSpec

-----------------------------------------------------------------------------
(* The two scenes, of which the second begins where an upload has ended.   *)

\* An upload that ended without a key, and others that were refused.
LEMMA IngestedInv == Ingested => IngestionInv
  <1> SUFFICES ASSUME Ingested PROVE IngestionInv
    OBVIOUS
  <1> DEFINE u == CHOOSE v \in Upload : TRUE
             d == CHOOSE e \in Digest : TRUE
  <1>1. u \in Upload /\ d \in Digest
    BY SceneAssumption
  <1> HIDE DEF u, d
  <1>2. PICK b \in {"partial", "intact"} :
          /\ artifacts = {u}
          /\ blobs = [e \in Digest |-> IF e = d THEN b ELSE "absent"]
          /\ uploads = [v \in Upload |-> IF v = u
                          THEN [NewUpload EXCEPT !.pc = "created", !.digest = d, !.artifact = u]
                          ELSE [NewUpload EXCEPT !.pc = "refused", !.digest = d]]
    BY DEF Ingested, u, d
  <1>3. claim = NoClaim /\ uploadFaults = 0
    BY DEF Ingested
  <1>4. \A v \in Upload :
          /\ uploads[v] \in UploadRow
          /\ uploads[v].pc \in {"created", "refused"} /\ ~uploads[v].keyed
          /\ uploads[v].digest = d
    BY <1>1, <1>2 DEF NewUpload, UploadRow, UploadPc
  <1>5. IngestionTypeOK
    BY <1>1, <1>2, <1>3, <1>4, IngestionAssumption
       DEF IngestionTypeOK, NoClaim, UploadRow, NewUpload, UploadPc
  <1>6. uploads[u].pc = "created"
    BY <1>1, <1>2 DEF NewUpload
  <1>7. ReceivedHasDigest /\ AnswersTellTheClaim /\ OneArtifactPerKey
    BY <1>1, <1>2, <1>4 DEF ReceivedHasDigest, AnswersTellTheClaim, OneArtifactPerKey
  <1>8. ArtifactsAnswered /\ CopiesApart
    BY <1>2, <1>4, <1>6 DEF ArtifactsAnswered, CopiesApart
  <1> QED
    BY <1>5, <1>7, <1>8 DEF IngestionInv

\* Uploads that race, or the assessment of an artifact that one left: the rows
\* and the memory of all processes have their types.
THEOREM GovernanceIsTyped == Spec => []GovernanceTypeOK
  <1>1. Init => IngestionInv /\ AssessmentInv
    BY IngestionInitInv, IngestedInv, AssessmentInitInv DEF Init
  <1>2. [Next]_vars => [GovernanceNext]_governanceVars
    BY DEF Next, vars, GovernanceNext, governanceVars
  <1>3. IngestionInv /\ AssessmentInv /\ [Next]_vars => (IngestionInv /\ AssessmentInv)'
    BY <1>2, GovernanceNextInv
  <1>4. IngestionInv /\ AssessmentInv => GovernanceTypeOK
    BY DEF IngestionInv, AssessmentInv, AssessmentTypeOK, RowsTyped, WorkersTyped, WorkerRow,
           IssuersTyped, JobTyped, JobRow, GovernanceTypeOK
  <1> QED
    BY <1>1, <1>3, <1>4, PTL DEF Spec
=============================================================================
