--------------------------- MODULE ExportAbstract ---------------------------
(***************************************************************************)
(* What export_commit promises the importer that replays its tar stream    *)
(* (spec 4.3, 6): the stream only grows; every entry can be applied when   *)
(* it arrives (its parent directory is already there, a hardlink's target  *)
(* is an earlier file or symlink, and a path is not written again unless   *)
(* it is a content-addressed object whose bytes cannot differ); no entry   *)
(* lies outside the commit's expected paths; and the call ends, either     *)
(* with exactly the expected paths written, or with an error that leaves   *)
(* the partial stream in place.                                            *)
(***************************************************************************)
EXTENDS Integers, Sequences

VARIABLES
  stream,       \* the tar entries written, [path, type, link, mode]
  status,       \* "running" | "done" | "failed"
  expected,     \* the paths a complete export of the commit holds
  rewritable    \* the content-addressed paths that may be written again

(* expected and rewritable are fixed by the commit and the export options: *)
(* no step changes them.                                                   *)
avars == <<stream, status, expected, rewritable>>

Parent(p) == SubSeq(p, 1, Len(p) - 1)

Paths(s) == {s[i].path : i \in DOMAIN s}

(* Entry e can be applied after the entries s.                             *)
Admissible(s, e) ==
  /\ e.path \in expected
  /\ Len(e.path) >= 1 =>
       \E i \in DOMAIN s : s[i].path = Parent(e.path) /\ s[i].type = "dir"
  /\ e.type = "hardlink" =>
       \E i \in DOMAIN s : s[i].path = e.link /\ s[i].type \in {"regular", "symlink"}
  /\ e.path \in Paths(s) => e.path \in rewritable

(* The step only appends admissible entries to the stream.               *)
Appends ==
  /\ Len(stream') >= Len(stream)
  /\ SubSeq(stream', 1, Len(stream)) = stream
  /\ \A k \in (Len(stream) + 1)..Len(stream') :
       Admissible(SubSeq(stream', 1, k - 1), stream'[k])

Init == stream = <<>> /\ status = "running"

Write ==
  /\ status = "running"
  /\ stream' # stream /\ Appends
  /\ UNCHANGED <<status, expected, rewritable>>

Finish ==
  /\ status = "running"
  /\ Appends /\ {stream'[i].path : i \in DOMAIN stream'} = expected
  /\ status' = "done"
  /\ UNCHANGED <<expected, rewritable>>

Fail ==
  /\ status = "running"
  /\ Appends
  /\ status' = "failed"
  /\ UNCHANGED <<expected, rewritable>>

Next == Write \/ Finish \/ Fail

(* The call returns, finished or failed.                                   *)
Returns == <>(status \in {"done", "failed"})

Spec == Init /\ [][Next]_avars /\ Returns

=============================================================================
