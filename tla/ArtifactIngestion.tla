--------------------------- MODULE ArtifactIngestion ---------------------------
(***************************************************************************)
(* POST /v1/artifacts: uploads of source bundles under one idempotency key *)
(* of one organisation, and uploads without a key beside them.  The key's  *)
(* row is a claim with a lease: a handler claims it, stores the bundle,    *)
(* and creates the artifact and completes the claim in one transaction     *)
(* that is fenced by the claim's owner and generation.  A handler that     *)
(* dies or fails leaves the claim to the request that comes after the      *)
(* lease.                                                                  *)
(*                                                                         *)
(* Handlers belong to any number of API processes, so each may crash alone *)
(* or with others.  An artifact is named by the upload that created it:    *)
(* its id is a fresh UUID.  An upload whose body does not match the digest *)
(* in its header is refused before anything is written and is left out.    *)
(*                                                                         *)
(* The interval renewals are not steps of their own: one that succeeds     *)
(* moves an expiry that has not come, one that finds the claim lost says   *)
(* no more than the renewal before the commit will say.                    *)
(***************************************************************************)
EXTENDS Naturals

CONSTANTS
  Upload,          \* upload requests
  Digest,          \* bundle digests
  NoUpload,        \* no owner, no artifact
  NoDigest,
  MaxUploadFaults  \* bound: crashes, late renewals and I/O errors

ASSUME IngestionAssumption ==
  /\ NoUpload \notin Upload
  /\ NoDigest \notin Digest
  /\ MaxUploadFaults \in Nat

VARIABLES
  claim,       \* the key's row in artifact_ingestion_idempotency
  artifacts,   \* governance_artifacts, by the upload that created each
  blobs,       \* the object store: a digest's file
  uploads,     \* what each handler remembers and has answered
  uploadFaults

ingestionVars == <<claim, artifacts, blobs, uploads, uploadFaults>>

UploadPc == {"new", "claim", "put", "copy", "manifest", "renew", "commit",
             "created", "replayed", "refused", "dead"}

AtWork == {"claim", "put", "copy", "manifest", "renew", "commit"}

Answered == {"created", "replayed"}

NoClaim == [status |-> "absent", digest |-> NoDigest, generation |-> 0,
            owner |-> NoUpload, lapsed |-> FALSE, artifact |-> NoUpload]

NewUpload == [pc |-> "new", digest |-> NoDigest, keyed |-> FALSE, generation |-> 0,
              artifact |-> NoUpload]

-----------------------------------------------------------------------------
UploadFault == uploadFaults < MaxUploadFaults /\ uploadFaults' = uploadFaults + 1

UploadGoto(u, pc) == uploads' = [uploads EXCEPT ![u].pc = pc]

\* The fence of every statement made under a claim.
ClaimHeld(u) ==
  /\ claim.status = "IN_PROGRESS"
  /\ claim.digest = uploads[u].digest
  /\ claim.generation = uploads[u].generation
  /\ claim.owner = u
  /\ ~claim.lapsed

\* The owner of the claim is alive, and its renewal timer with it.
ClaimAttended == claim.owner \in Upload /\ uploads[claim.owner].pc \in AtWork

IngestionInit ==
  /\ claim = NoClaim
  /\ artifacts = {}
  /\ blobs = [d \in Digest |-> "absent"]
  /\ uploads = [u \in Upload |-> NewUpload]
  /\ uploadFaults = 0

-----------------------------------------------------------------------------
\* The request arrives, with an Idempotency-Key or without one.
Receive(u) ==
  /\ uploads[u].pc = "new"
  /\ \E d \in Digest, keyed \in BOOLEAN :
       uploads' = [uploads EXCEPT ![u] = [NewUpload EXCEPT !.pc = IF keyed THEN "claim" ELSE "put",
                                                          !.digest = d,
                                                          !.keyed = keyed]]
  /\ UNCHANGED <<claim, artifacts, blobs, uploadFaults>>

TakeClaim(u, generation) ==
  /\ claim' = [NoClaim EXCEPT !.status = "IN_PROGRESS", !.digest = uploads[u].digest,
                              !.generation = generation, !.owner = u]
  /\ uploads' = [uploads EXCEPT ![u].pc = "put", ![u].generation = generation]

\* claimArtifactIngestion and the handler's answer to what it returns.
ClaimArtifactIngestion(u) ==
  /\ uploads[u].pc = "claim"
  /\ \/ claim.status = "absent" /\ TakeClaim(u, 1)
     \/ /\ claim.status # "absent"
        /\ claim.digest # uploads[u].digest
        /\ UploadGoto(u, "refused")
        /\ UNCHANGED claim
     \/ /\ claim.status = "COMPLETE"
        /\ claim.digest = uploads[u].digest
        /\ uploads' = [uploads EXCEPT ![u].pc = "replayed", ![u].artifact = claim.artifact]
        /\ UNCHANGED claim
     \/ /\ claim.status = "IN_PROGRESS"
        /\ claim.digest = uploads[u].digest
        /\ IF claim.lapsed THEN TakeClaim(u, claim.generation + 1)
                           ELSE UploadGoto(u, "refused") /\ UNCHANGED claim
  /\ UNCHANGED <<artifacts, blobs, uploadFaults>>

\* putIfAbsent: an exclusive copy.  A file that is there, whole or not, will do.
PutIfAbsent(u) ==
  /\ uploads[u].pc = "put"
  /\ IF blobs[uploads[u].digest] = "absent"
       THEN /\ blobs' = [blobs EXCEPT ![uploads[u].digest] = "partial"]
            /\ UploadGoto(u, "copy")
       ELSE UploadGoto(u, "manifest") /\ UNCHANGED blobs
  /\ UNCHANGED <<claim, artifacts, uploadFaults>>

\* The copy ends; it fails and its file is unlinked; or the metadata file
\* beside it cannot be written.
EndCopy(u) ==
  /\ uploads[u].pc = "copy"
  /\ \/ /\ blobs' = [blobs EXCEPT ![uploads[u].digest] = "intact"]
        /\ UploadGoto(u, "manifest")
        /\ UNCHANGED uploadFaults
     \/ /\ UploadFault
        /\ \E left \in {"absent", "intact"} :
             blobs' = [blobs EXCEPT ![uploads[u].digest] = left]
        /\ UploadGoto(u, "refused")
  /\ UNCHANGED <<claim, artifacts>>

\* materializeNormalizedSourceTreeBundle and the manifest, from the upload's
\* own copy of the bundle; a bundle that is no source tree is refused.
BuildManifest(u) ==
  /\ uploads[u].pc = "manifest"
  /\ \/ UploadGoto(u, IF uploads[u].keyed THEN "renew" ELSE "commit")
     \/ UploadGoto(u, "refused")
  /\ UNCHANGED <<claim, artifacts, blobs, uploadFaults>>

\* The renewal before_metadata_commit: lost, or not to be had, is a refusal.
RenewBeforeCommit(u) ==
  /\ uploads[u].pc = "renew"
  /\ \/ ClaimHeld(u) /\ UploadGoto(u, "commit") /\ UNCHANGED uploadFaults
     \/ ~ClaimHeld(u) /\ UploadGoto(u, "refused") /\ UNCHANGED uploadFaults
     \/ UploadFault /\ UploadGoto(u, "refused")
  /\ UNCHANGED <<claim, artifacts, blobs>>

AnswerCreated(u) ==
  /\ artifacts' = artifacts \cup {u}
  /\ uploads' = [uploads EXCEPT ![u].pc = "created", ![u].artifact = u]

\* Faulty variant: the artifact's row is not rolled back.
CompleteWithoutRollback(u) ==
  /\ uploads[u].pc = "commit"
  /\ uploads[u].keyed
  /\ IF ClaimHeld(u)
       THEN /\ claim' = [claim EXCEPT !.status = "COMPLETE", !.artifact = u]
            /\ AnswerCreated(u)
       ELSE /\ artifacts' = artifacts \cup {u}
            /\ UploadGoto(u, "refused")
            /\ UNCHANGED claim
  /\ UNCHANGED <<blobs, uploadFaults>>

\* completeArtifactIngestionClaimAndCreateArtifact: all of it or nothing.
CompleteIngestion(u) ==
  /\ uploads[u].pc = "commit"
  /\ uploads[u].keyed
  /\ IF ClaimHeld(u)
       THEN /\ claim' = [claim EXCEPT !.status = "COMPLETE", !.artifact = u]
            /\ AnswerCreated(u)
       ELSE UploadGoto(u, "refused") /\ UNCHANGED <<claim, artifacts>>
  /\ UNCHANGED <<blobs, uploadFaults>>

\* createArtifact, for an upload without a key.
CreateArtifact(u) ==
  /\ uploads[u].pc = "commit"
  /\ ~uploads[u].keyed
  /\ AnswerCreated(u)
  /\ UNCHANGED <<claim, blobs, uploadFaults>>

-----------------------------------------------------------------------------
\* The handler's process dies; so does the answer of a commit just made.
UploadCrash(u) ==
  /\ uploads[u].pc \in AtWork \cup {"created"}
  /\ UploadFault
  /\ UploadGoto(u, "dead")
  /\ UNCHANGED <<claim, artifacts, blobs>>

\* claim_expires_at passes: a fault while the owner's renewals are running.
ClaimLapses ==
  /\ claim.status = "IN_PROGRESS"
  /\ ~claim.lapsed
  /\ IF ClaimAttended THEN UploadFault ELSE UNCHANGED uploadFaults
  /\ claim' = [claim EXCEPT !.lapsed = TRUE]
  /\ UNCHANGED <<artifacts, blobs, uploads>>

IngestionStep(u) ==
  \/ Receive(u)
  \/ ClaimArtifactIngestion(u)
  \/ PutIfAbsent(u)
  \/ EndCopy(u)
  \/ BuildManifest(u)
  \/ RenewBeforeCommit(u)
  \/ CompleteIngestion(u)
  \/ CreateArtifact(u)
  \/ UploadCrash(u)

IngestionNext == (\E u \in Upload : IngestionStep(u)) \/ ClaimLapses

IngestionSpec == IngestionInit /\ [][IngestionNext]_ingestionVars

-----------------------------------------------------------------------------
\* Every variable has its type.
IngestionTypeOK ==
  /\ claim \in [status: {"absent", "IN_PROGRESS", "COMPLETE"},
                digest: Digest \cup {NoDigest}, generation: Nat,
                owner: Upload \cup {NoUpload}, lapsed: BOOLEAN,
                artifact: Upload \cup {NoUpload}]
  /\ artifacts \subseteq Upload
  /\ blobs \in [Digest -> {"absent", "partial", "intact"}]
  /\ uploads \in [Upload -> [pc: UploadPc, digest: Digest \cup {NoDigest}, keyed: BOOLEAN,
                             generation: Nat, artifact: Upload \cup {NoUpload}]]
  /\ uploadFaults \in 0..MaxUploadFaults

\* All successful answers to one idempotency key name one artifact, and it has
\* the digest each of them sent; however many claims were taken, lost and
\* taken over on the way (server.ts, POST /v1/artifacts).
AnswersAgree ==
  \A u, v \in Upload :
    /\ uploads[u].pc \in Answered /\ uploads[u].keyed
    /\ uploads[v].pc \in Answered /\ uploads[v].keyed
    => /\ uploads[u].artifact = uploads[v].artifact
       /\ uploads[u].digest = uploads[v].digest

\* An artifact created under the key is the one its completed claim names: a
\* superseded handler leaves no second artifact behind, even one whose answer
\* was never delivered (completeArtifactIngestionClaimAndCreateArtifact).
OneArtifactPerKey ==
  \A u \in artifacts :
    uploads[u].keyed => claim.status = "COMPLETE" /\ claim.artifact = u

\* An idempotency key names one artifact, in the answers and in the store
\* (POST /v1/artifacts).
KeyNamesOneArtifact == AnswersAgree /\ OneArtifactPerKey
=============================================================================
