CONSTANTS
  LayerMediaTypes <- MCLayerMediaTypes
  Manifests <- MCManifests

SPECIFICATION Spec

\* One call per manifest: the system stops after it.
CHECK_DEADLOCK FALSE

INVARIANTS
  TypeOK
  LocateMatchesReference
