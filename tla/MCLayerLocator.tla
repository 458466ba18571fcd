--------------------------- MODULE MCLayerLocator ---------------------------
(***************************************************************************)
(* All manifests of up to three layers over two eligible media types, one  *)
(* other (a compressed layer), two sha256 digests and one sha512 digest.   *)
(***************************************************************************)
EXTENDS LayerLocator, SequencesExt

MCLayerMediaTypes == {"docker_layer", "oci_layer"}

MCLayers ==
  [media_type : MCLayerMediaTypes \cup {"oci_layer_gzip"},
   digest : {<<"sha256", "a1">>, <<"sha256", "b2">>, <<"sha512", "c3">>}]

MCManifests == {[layers |-> ls] : ls \in BoundedSeq(MCLayers, 3)}

=============================================================================
