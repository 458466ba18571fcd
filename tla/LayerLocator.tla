---------------------------- MODULE LayerLocator ----------------------------
(***************************************************************************)
(* find_layer_blobid of ostree-ext/lib/src/container/import.rs: the one    *)
(* layer of an image manifest that carries the ostree commit.              *)
(*                                                                         *)
(* A manifest is its `layers` sequence; a layer is [media_type, digest].   *)
(* A digest string "<algorithm>:<hex>" is the pair <<algorithm, hex>>, so  *)
(* strip_prefix("sha256:") succeeds exactly when the algorithm is sha256.  *)
(* The spec below applies the function to one fetched manifest; checked    *)
(* over every manifest of a bounded length it compares the code's         *)
(* filter / count / first formulation with a set-based reference.          *)
(***************************************************************************)
EXTENDS Integers, Sequences, FiniteSets

CONSTANTS
  LayerMediaTypes,  \* {DOCKER_TYPE_LAYER, OCI_TYPE_LAYER}
  Manifests         \* the manifests skopeo inspect may return

VARIABLES
  manifest,         \* the parsed manifest
  located           \* NotCalled before the call, then its Result

Ok(hash) == [ok |-> TRUE, value |-> hash]
Err(why) == [ok |-> FALSE, value |-> why]
NotCalled == Err("none")

(* Mutant: the first eligible layer is used without counting the others.  *)
find_layer_blobid_first(m) ==
  LET layers == SelectSeq(m.layers, LAMBDA l : l.media_type \in LayerMediaTypes)
  IN IF layers = <<>> THEN Err("no_layers")
     ELSE IF layers[1].digest[1] = "sha256" THEN Ok(layers[1].digest[2])
     ELSE Err("not_sha256")

(* Mutant: the digest is returned without strip_prefix.                   *)
find_layer_blobid_keep_prefix(m) ==
  LET layers == SelectSeq(m.layers, LAMBDA l : l.media_type \in LayerMediaTypes)
      n == Len(layers)
  IN IF n = 0 THEN Err("no_layers")
     ELSE IF n > 1 THEN Err("ambiguous")
     ELSE Ok(layers[1].digest[1] \o ":" \o layers[1].digest[2])

(* Filter the layers by media type, then: none is an error, more than one  *)
(* is an error, else the digest without its "sha256:" prefix.              *)
find_layer_blobid(m) ==
  LET layers == SelectSeq(m.layers, LAMBDA l : l.media_type \in LayerMediaTypes)
      n == Len(layers)
  IN IF n = 0 THEN Err("no_layers")
     ELSE IF n > 1 THEN Err("ambiguous")
     ELSE IF layers[1].digest[1] = "sha256" THEN Ok(layers[1].digest[2])
     ELSE Err("not_sha256")

Init ==
  /\ manifest \in Manifests
  /\ located = NotCalled

(* import(): let layerid = find_layer_blobid(manifest)?                    *)
Locate ==
  /\ located = NotCalled
  /\ located' = find_layer_blobid(manifest)
  /\ UNCHANGED manifest

Spec == Init /\ [][Locate]_<<manifest, located>>

-----------------------------------------------------------------------------
(* The reference (spec 4.4): the eligible layers form a set; exactly one   *)
(* is required, zero and several are distinct errors, and the result is    *)
(* the bare hex of a sha256 digest.                                        *)
Eligible(m) == {i \in DOMAIN m.layers : m.layers[i].media_type \in LayerMediaTypes}

Reference(m) ==
  CASE Eligible(m) = {} -> Err("no_layers")
    [] Cardinality(Eligible(m)) > 1 -> Err("ambiguous")
    [] OTHER -> LET d == m.layers[CHOOSE i \in Eligible(m) : TRUE].digest
                IN IF d[1] = "sha256" THEN Ok(d[2]) ELSE Err("not_sha256")

(* The hex parts of all layer digests.                                     *)
Hexes == UNION {{m.layers[i].digest[2] : i \in DOMAIN m.layers} : m \in Manifests}

TypeOK ==
  /\ manifest \in Manifests
  /\ located \in [ok : {TRUE}, value : Hexes]
                \cup [ok : {FALSE}, value : {"none", "no_layers", "ambiguous", "not_sha256"}]

(* find_layer_blobid agrees with the reference on every manifest: an      *)
(* image with several ostree-layer candidates, or none, is refused rather  *)
(* than resolved to one of them, and an accepted digest loses exactly its  *)
(* "sha256:" prefix.                                                       *)
LocateMatchesReference == located # NotCalled => located = Reference(manifest)

=============================================================================
