-------------------------- MODULE ContainerImport --------------------------
(***************************************************************************)
(* container::import() of ostree-ext/lib/src/container/import.rs, whole:   *)
(* the signature-policy check, fetch_manifest (skopeo inspect --raw),      *)
(* find_layer_blobid (LayerLocator), then fetch_layer and the join         *)
(* (LayerExtract, from the moment skopeo copy is spawned).                 *)
(*                                                                         *)
(* The registry is the environment: the reference names one image and may *)
(* be moved to another while the call runs.  skopeo inspect reads it at    *)
(* fetch_manifest, skopeo copy reads it again once spawned.                *)
(***************************************************************************)
EXTENDS Integers, Sequences, FiniteSets

CONSTANTS
  Images,          \* images the reference may name
  Manifests,       \* image -> its manifest [layers: Seq([media_type, digest])]
  DigestOf,        \* image -> sha256 of its raw manifest, "sha256:<hex>"
  ArchiveOf,       \* image -> the docker-archive skopeo copy writes for it
  LayerMediaTypes, \* {DOCKER_TYPE_LAYER, OCI_TYPE_LAYER}
  SigModes,        \* SignatureSource: "remote" | "policy" | "policy_insecure"
  MaxPushes,       \* bound on registry updates during one call
  LayerNeeded, PipeCap, ChanCap

VARIABLES
  tag, seen, pushes,   \* the registry: current image, images named, updates
  sigverify,           \* imgref.sigverify
  insecureDefault,     \* containers-policy.json defaults to insecureAcceptAnything
  stage,               \* "idle" | "policy_checked" | "manifest_fetched" |
                       \* "layer_selected" | "fetching" | "failed"
  manifest, digest,    \* fetch_manifest's result
  layerid,             \* find_layer_blobid's result
  \* LayerExtract's state:
  archive, blobid, skopeo, written, pipe, readerOpen, main, result, worker,
  cur, rem, found, chunk, chan, rxOpen, consumer, received, progress,
  observer, published, faults

LL == INSTANCE LayerLocator WITH located <- layerid

LX == INSTANCE LayerExtract WITH
        Archives <- {ArchiveOf[i] : i \in Images}, TargetBlob <- "none"

ownVars == <<tag, seen, pushes, sigverify, insecureDefault, stage, manifest,
             digest, layerid>>

lxVars == <<archive, blobid, skopeo, written, pipe, readerOpen, main, result,
            worker, cur, rem, found, chunk, chan, rxOpen, consumer, received,
            progress, observer, published, faults>>

vars == <<ownVars, lxVars>>

NoManifest == [layers |-> <<>>]

Init ==
  /\ tag \in Images
  /\ seen = {tag}
  /\ pushes = 0
  /\ sigverify \in SigModes
  /\ insecureDefault \in BOOLEAN
  /\ stage = "idle"
  /\ manifest = NoManifest
  /\ digest = "none"
  /\ layerid = LL!NotCalled
  /\ LX!Fresh(<<>>, "none")

-----------------------------------------------------------------------------
(* Mutant: the ContainerPolicy mode is let through unchecked.             *)
check_policy_skip ==
  /\ stage = "idle"
  /\ stage' = "policy_checked"
  /\ UNCHANGED <<tag, seen, pushes, sigverify, insecureDefault, manifest,
                 digest, layerid, lxVars>>

(* import() refuses ContainerPolicy when the system policy's default is    *)
(* insecureAcceptAnything; other modes skip the policy file entirely.      *)
check_policy ==
  /\ stage = "idle"
  /\ stage' = IF sigverify = "policy" /\ insecureDefault THEN "failed"
              ELSE "policy_checked"
  /\ UNCHANGED <<tag, seen, pushes, sigverify, insecureDefault, manifest,
                 digest, layerid, lxVars>>

(* container_policy_is_default_insecure()? fails to read the policy.       *)
policy_read_error ==
  /\ stage = "idle"
  /\ sigverify = "policy"
  /\ stage' = "failed"
  /\ UNCHANGED <<tag, seen, pushes, sigverify, insecureDefault, manifest,
                 digest, layerid, lxVars>>

(* skopeo inspect --raw of the image the reference names now; the digest  *)
(* is computed over the raw bytes it printed.                              *)
fetch_manifest ==
  /\ stage = "policy_checked"
  /\ manifest' = Manifests[tag]
  /\ digest' = DigestOf[tag]
  /\ stage' = "manifest_fetched"
  /\ UNCHANGED <<tag, seen, pushes, sigverify, insecureDefault, layerid, lxVars>>

(* skopeo exits non-zero, or its output is not a manifest.                 *)
fetch_manifest_fail ==
  /\ stage = "policy_checked"
  /\ stage' = "failed"
  /\ UNCHANGED <<tag, seen, pushes, sigverify, insecureDefault, manifest,
                 digest, layerid, lxVars>>

(* let layerid = find_layer_blobid(manifest)?                              *)
select_layer ==
  /\ stage = "manifest_fetched"
  /\ layerid' = LL!find_layer_blobid(manifest)
  /\ stage' = IF layerid'.ok THEN "layer_selected" ELSE "failed"
  /\ UNCHANGED <<tag, seen, pushes, sigverify, insecureDefault, manifest,
                 digest, lxVars>>

(* Mutant: the copy is never pointed at the archive (no spawn).          *)
start_fetch_no_spawn ==
  /\ stage = "layer_selected"
  /\ stage' = "fetching"
  /\ blobid' = layerid.value
  /\ UNCHANGED <<tag, seen, pushes, sigverify, insecureDefault, manifest,
                 digest, layerid>>
  /\ UNCHANGED <<archive, skopeo, written, pipe, readerOpen, main, result,
                 worker, cur, rem, found, chunk, chan, rxOpen, consumer,
                 received, progress, observer, published, faults>>

(* fetch_layer up to skopeo::spawn: skopeo copy of the image the reference *)
(* names now, into the fifo, with blob_symlink_target from layerid.  The   *)
(* rest of LayerExtract's state still has the values Init gave it.         *)
start_fetch ==
  /\ stage = "layer_selected"
  /\ stage' = "fetching"
  /\ archive' = ArchiveOf[tag]
  /\ blobid' = layerid.value
  /\ UNCHANGED <<tag, seen, pushes, sigverify, insecureDefault, manifest,
                 digest, layerid>>
  /\ UNCHANGED <<skopeo, written, pipe, readerOpen, main, result, worker, cur,
                 rem, found, chunk, chan, rxOpen, consumer, received, progress,
                 observer, published, faults>>

(* The temp dir, mkfifo or the spawn fails (an early `?`).                 *)
fetch_setup_fail ==
  /\ stage = "layer_selected"
  /\ stage' = "failed"
  /\ UNCHANGED <<tag, seen, pushes, sigverify, insecureDefault, manifest,
                 digest, layerid, lxVars>>

(* A step of the layer fetch, the worker, import_tar or the join.          *)
FetchStep(A) == stage = "fetching" /\ A /\ UNCHANGED ownVars

Done == stage = "failed" \/ (stage = "fetching" /\ main = "done")

(* The registry moves the reference to another image.                      *)
registry_push ==
  /\ ~Done
  /\ pushes < MaxPushes
  /\ tag' \in Images \ {tag}
  /\ seen' = seen \cup {tag'}
  /\ pushes' = pushes + 1
  /\ UNCHANGED <<sigverify, insecureDefault, stage, manifest, digest, layerid,
                 lxVars>>

Prefix == check_policy \/ fetch_manifest \/ select_layer \/ start_fetch

Next ==
  \/ Prefix
  \/ policy_read_error \/ fetch_manifest_fail \/ fetch_setup_fail
  \/ FetchStep(LX!NextWithEarlyExit)

Fairness ==
  /\ WF_vars(Prefix)
  /\ WF_vars(FetchStep(LX!Skopeo)) /\ WF_vars(FetchStep(LX!Worker))
  /\ WF_vars(FetchStep(LX!Consumer)) /\ WF_vars(FetchStep(LX!Main))

(* The reference does not move during the call.                            *)
Spec == Init /\ [][Next]_vars /\ Fairness

(* The registry may update the reference while the call runs.             *)
SpecWithPush == Init /\ [][Next \/ registry_push]_vars /\ Fairness

-----------------------------------------------------------------------------
Succeeded == stage = "fetching" /\ result = "ok"

CommitLayerOf ==
  [i \in Images |-> LET r == LL!find_layer_blobid(Manifests[i])
                    IN IF r.ok THEN r.value ELSE "none"]

IA == INSTANCE ImportAbstract WITH
        CommitLayer <- CommitLayerOf,
        allowed <- ~(sigverify = "policy" /\ insecureDefault),
        status <- IF Done THEN "done" ELSE "running",
        reported <- IF Succeeded THEN digest ELSE "none",
        imported <- IF Succeeded THEN archive[received[1].e].blob ELSE "none"

TypeOK ==
  /\ tag \in Images /\ seen \subseteq Images /\ pushes \in 0..MaxPushes
  /\ sigverify \in SigModes /\ insecureDefault \in BOOLEAN
  /\ stage \in {"idle", "policy_checked", "manifest_fetched", "layer_selected",
                "fetching", "failed"}
  /\ manifest \in {NoManifest} \cup {Manifests[i] : i \in Images}
  /\ stage = "fetching" => archive \in {ArchiveOf[i] : i \in Images}
  /\ Len(pipe) <= PipeCap /\ Len(chan) <= ChanCap

(* import() implements ImportAbstract's steps: a successful result pairs    *)
(* the digest of a manifest with a commit built from that manifest's one   *)
(* layer, under a policy that allows the import, and nothing changes once  *)
(* it returned.  That the call returns is ImportReturns.                   *)
ImportRefines == IA!Safety

(* import() returns through every failure and interleaving of its steps,   *)
(* except in one state: skopeo exited before opening the fifo, and         *)
(* fetch_layer waits in File::open (the extract_early_exit_hang run).      *)
EarlyExitHang == stage = "fetching" /\ main = "open" /\ skopeo = "failed"

ImportReturns == <>(Done \/ EarlyExitHang)

=============================================================================
