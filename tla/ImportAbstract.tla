--------------------------- MODULE ImportAbstract ---------------------------
(***************************************************************************)
(* What container::import() promises its caller (spec 4.7, 3): one call   *)
(* ends exactly once, and a successful result { ostree_commit,            *)
(* image_digest } describes one image: the commit is built from that       *)
(* image's single ostree layer, the digest is that image's manifest        *)
(* digest, the image was the one the reference named at some point during  *)
(* the call, and the signature policy allowed the import.                  *)
(*                                                                         *)
(* The registry may move the reference to another image at any time       *)
(* while the call runs.                                                    *)
(***************************************************************************)
CONSTANTS
  Images,       \* the images a reference may name
  DigestOf,     \* image -> its manifest digest
  CommitLayer   \* image -> the blob id of its one ostree layer, or "none"
                \*          when its manifest does not have exactly one

VARIABLES
  tag,          \* the image the reference names now
  seen,         \* the images it has named since the call began
  allowed,      \* the signature-verification mode permits importing
  status,       \* "running" | "done"
  reported,     \* image_digest of a successful result, else "none"
  imported      \* the layer the successful result's commit came from

avars == <<tag, seen, allowed, status, reported, imported>>

Init ==
  /\ tag \in Images
  /\ seen = {tag}
  /\ allowed \in BOOLEAN
  /\ status = "running"
  /\ reported = "none"
  /\ imported = "none"

Move ==
  /\ status = "running"
  /\ tag' \in Images
  /\ seen' = seen \cup {tag'}
  /\ UNCHANGED <<allowed, status, reported, imported>>

Succeed ==
  /\ status = "running"
  /\ allowed
  /\ \E img \in seen :
       /\ CommitLayer[img] # "none"
       /\ reported' = DigestOf[img]
       /\ imported' = CommitLayer[img]
  /\ status' = "done"
  /\ UNCHANGED <<tag, seen, allowed>>

Fail ==
  /\ status = "running"
  /\ status' = "done"
  /\ UNCHANGED <<tag, seen, allowed, reported, imported>>

Next == Move \/ Succeed \/ Fail

(* What the call may do, without the promise that it returns.            *)
Safety == Init /\ [][Next]_avars

(* The call returns: it may always fail, so weak fairness makes it end.    *)
Spec == Init /\ [][Next]_avars /\ WF_avars(Succeed \/ Fail)

=============================================================================
