------------------------- MODULE MCContainerImport -------------------------
(***************************************************************************)
(* Five images.  I1 and I2 carry one ostree layer each (l1, l2); IAmb has *)
(* two eligible layers, IGz only a compressed one, I512 a sha512 layer     *)
(* digest.  skopeo copy writes a single-layer image as the layer, its      *)
(* legacy <id>/layer.tar link, then the manifest.                          *)
(***************************************************************************)
EXTENDS ContainerImport, TLC

CONSTANTS I1, I2, IAmb, IGz, I512

Layer(media, algo, hex) == [media_type |-> media, digest |-> <<algo, hex>>]

MCManifests ==
  I1 :> [layers |-> <<Layer("docker_layer", "sha256", "l1")>>] @@
  I2 :> [layers |-> <<Layer("oci_layer", "sha256", "l2")>>] @@
  IAmb :> [layers |-> <<Layer("oci_layer", "sha256", "l1"),
                        Layer("oci_layer", "sha256", "l2")>>] @@
  IGz :> [layers |-> <<Layer("oci_layer_gzip", "sha256", "l1")>>] @@
  I512 :> [layers |-> <<Layer("docker_layer", "sha512", "l1")>>]

MCDigestOf ==
  I1 :> "sha256:m1" @@ I2 :> "sha256:m2" @@ IAmb :> "sha256:ma" @@
  IGz :> "sha256:mg" @@ I512 :> "sha256:m5"

Entry(tar, type, layerlink, link, blob, size) ==
  [tar |-> tar, type |-> type, layerlink |-> layerlink, link |-> link,
   blob |-> blob, size |-> size]

SingleLayerArchive(id) ==
  << Entry(TRUE, "regular", FALSE, "none", id, 2),
     Entry(TRUE, "symlink", TRUE, id, "none", 0),
     Entry(FALSE, "regular", FALSE, "none", "none", 1) >>

(* Only I1 and I2 get as far as skopeo copy.                               *)
MCArchiveOf ==
  [i \in {I1, I2, IAmb, IGz, I512} |->
     IF i = I2 THEN SingleLayerArchive("l2") ELSE SingleLayerArchive("l1")]

=============================================================================
