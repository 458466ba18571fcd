--------------------------- MODULE MCLayerExtract ---------------------------
(***************************************************************************)
(* docker-archives for LayerExtract.  skopeo's docker-archive writer puts  *)
(* each layer first as <digest>.tar, then legacy <id>/layer.tar links and  *)
(* the manifest.                                                           *)
(***************************************************************************)
EXTENDS LayerExtract

Entry(tar, type, layerlink, link, blob, size) ==
  [tar |-> tar, type |-> type, layerlink |-> layerlink, link |-> link,
   blob |-> blob, size |-> size]

Layer == Entry(TRUE, "regular", FALSE, "none", "target", 2)
OtherLayer == Entry(TRUE, "regular", FALSE, "none", "other", 1)
GoodLink == Entry(TRUE, "symlink", TRUE, "target", "none", 0)
BadLink == Entry(TRUE, "symlink", TRUE, "other", "none", 0)
Manifest == Entry(FALSE, "regular", FALSE, "none", "none", 1)

(* A single-layer image; one whose layer.tar link names another blob, from *)
(* a producer writing it before the layer; one with a further non-ostree   *)
(* layer after ours; one without our layer.                                *)
MCArchives ==
  { <<Layer, GoodLink, Manifest>>,
    <<BadLink, Layer>>,
    <<Layer, OtherLayer>>,
    <<Manifest>> }

(* An image whose other layer precedes ours in the archive.                *)
MCDecoyArchives == { <<OtherLayer, Layer, GoodLink>> }

(* skopeo's own order: the layer, then a layer.tar link naming another blob. *)
MCLateLinkArchives == { <<Layer, BadLink, Manifest>> }

=============================================================================
