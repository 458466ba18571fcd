CONSTANTS
  I1 = I1
  I2 = I2
  IAmb = IAmb
  IGz = IGz
  I512 = I512
  Images = {I1, I2, IAmb, IGz, I512}
  Manifests <- MCManifests
  DigestOf <- MCDigestOf
  ArchiveOf <- MCArchiveOf
  LayerMediaTypes = {"docker_layer", "oci_layer"}
  SigModes = {"remote", "policy", "policy_insecure"}
  MaxPushes = 1
  LayerNeeded = 1
  PipeCap = 2
  ChanCap = 2

SPECIFICATION SpecWithPush

\* import() stops once it returned.
CHECK_DEADLOCK FALSE


PROPERTY
  ImportRefines
