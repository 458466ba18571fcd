---------------------------- MODULE LayerExtract ----------------------------
(***************************************************************************)
(* The streaming layer fetch of ostree-ext/lib/src/container/import.rs:    *)
(* fetch_layer, find_layer_tar, find_layer_tar_sync, ProgressReader and    *)
(* the final join in import().                                             *)
(*                                                                         *)
(* Four activities run concurrently:                                       *)
(*  - skopeo, a subprocess copying the image as a docker-archive into a    *)
(*    named pipe (the environment: it may fail at any point);              *)
(*  - the blocking worker (find_layer_tar_sync) parsing that archive and   *)
(*    sending the layer's chunks on a bounded mpsc channel;                *)
(*  - the importer (crate::tar::import_tar) reading the channel;           *)
(*  - the main task: it opens the pipe, then joins the other three.        *)
(*                                                                         *)
(* The archive skopeo writes is a sequence of items: an entry header, one  *)
(* data chunk of an entry, or the end-of-archive marker.  One pipe read    *)
(* through ProgressReader moves one item and counts one byte unit.         *)
(***************************************************************************)
EXTENDS Integers, Sequences, SequencesExt, FiniteSets

CONSTANTS
  Archives,      \* docker-archives skopeo may produce: sequences of entries
                 \* [tar: ext is "tar", type: "regular"|"symlink"|"other",
                 \*  layerlink: file name is layer.tar, link: the blob id its
                 \*  target ../<id>.tar names, blob: the blob id of the
                 \*  entry's data ("none" for other files), size]
  TargetBlob,    \* the blobid argument of fetch_layer
  LayerNeeded,   \* leading chunks of the layer import_tar needs to finish
  PipeCap,       \* items the fifo holds before skopeo's write blocks
  ChanCap        \* capacity of tokio::sync::mpsc::channel(2)

ASSUME ChanCap = 2 /\ PipeCap >= 1 /\ LayerNeeded >= 1

VARIABLES
  archive,       \* the docker-archive of this run
  blobid,        \* fetch_layer's blobid: blob_symlink_target is ../<blobid>.tar
  skopeo,        \* "start" | "opening" | "writing" | "ok" | "failed" | "epipe"
  written,       \* items skopeo has written into the fifo
  pipe,          \* items in the fifo
  readerOpen,    \* the fifo's read end is open
  main,          \* "open" | "joining" | "done"
  result,        \* "none" | "ok" | the error import() returns: "import_tar",
                 \* "skopeo" (the waiter's) or "worker"
  worker,        \* "idle" | "scan" | "skip" | "read" | "send" | "ok" | "err"
  cur,           \* entry being read or skipped
  rem,           \* its data chunks not yet read
  found,
  chunk,         \* the chunk blocking_send is sending
  chan,          \* chunks in the mpsc channel
  rxOpen,        \* the channel's receiver is alive
  consumer,      \* "reading" | "ok" | "err"
  received,      \* data chunks import_tar has read, in order
  progress,      \* ProgressReader.progress: "some" | "none"
  observer,      \* the progress watch receiver is alive
  published,     \* the value last stored in the watch channel
  faults         \* parties that failed on their own, not as a knock-on of
                 \* another's failure (history)

vars == <<archive, blobid, skopeo, written, pipe, readerOpen, main, result, worker,
          cur, rem, found, chunk, chan, rxOpen, consumer, received, progress,
          observer, published, faults>>

-----------------------------------------------------------------------------
Hdr(e) == [kind |-> "hdr", e |-> e, k |-> 0]
Chunk(e, k) == [kind |-> "data", e |-> e, k |-> k]
EOA == [kind |-> "eoa", e |-> 0, k |-> 0]
Empty == [kind |-> "empty", e |-> 0, k |-> 0]

(* The byte stream of a docker-archive, as items.                          *)
Items(A) ==
  FlattenSeq([i \in 1..Len(A) |-> <<Hdr(i)>> \o [k \in 1..A[i].size |-> Chunk(i, k)]])
  \o <<EOA>>

Stream == Items(archive)

WriterClosed == skopeo \in {"ok", "failed", "epipe"}

(* ProgressReader::poll_read after a successful read of n bytes: add to    *)
(* the last published state and send; drop the sender once send fails.     *)
ProgressRead(n) ==
  /\ UNCHANGED observer
  /\ IF progress = "some"
     THEN IF observer
          THEN published' = published + n /\ UNCHANGED progress
          ELSE progress' = "none" /\ UNCHANGED published
     ELSE UNCHANGED <<progress, published>>

(* The worker returns an error: the archive, and with it the fifo's read   *)
(* end, is dropped; so is the channel sender.                              *)
WorkerFails ==
  /\ worker' = "err"
  /\ readerOpen' = FALSE

-----------------------------------------------------------------------------
(* The state fetch_layer(imgref, b) starts from, skopeo writing a.        *)
Fresh(a, b) ==
  /\ archive = a
  /\ blobid = b
  /\ skopeo = "start"
  /\ written = 0
  /\ pipe = <<>>
  /\ readerOpen = FALSE
  /\ main = "open"
  /\ result = "none"
  /\ worker = "idle"
  /\ cur = 0
  /\ rem = 0
  /\ found = FALSE
  /\ chunk = Empty
  /\ chan = <<>>
  /\ rxOpen = TRUE
  /\ consumer = "reading"
  /\ received = <<>>
  /\ progress = "some"
  /\ observer = TRUE
  /\ published = 0
  /\ faults = {}

Init == \E a \in Archives : Fresh(a, TargetBlob)

skopeoVars == <<skopeo, written>>
workerVars == <<worker, cur, rem, found, chunk>>
consumerVars == <<consumer, received>>
progressVars == <<progress, observer, published>>

(* Party p fails on its own account.                                       *)
Blame(p) == faults' = faults \cup {p}

-----------------------------------------------------------------------------
(* skopeo copy ... docker-archive:<fifo>, spawned by fetch_layer.          *)

(* The process runs up to opening its destination.                         *)
skopeo_start ==
  /\ skopeo = "start"
  /\ skopeo' = "opening"
  /\ UNCHANGED <<faults, archive, blobid, written, pipe, readerOpen, main, result, workerVars,
                 chan, rxOpen, consumerVars, progressVars>>

(* It exits non-zero before opening its destination: skopeo copy loads    *)
(* the signature policy and parses both references before it creates the  *)
(* docker-archive destination (and it may be killed).  Registry errors     *)
(* come later, after the fifo is open, and are skopeo_fail.                *)
skopeo_fail_early ==
  /\ skopeo = "start"
  /\ skopeo' = "failed"
  /\ Blame("skopeo")
  /\ UNCHANGED <<archive, blobid, written, pipe, readerOpen, main, result, workerVars,
                 chan, rxOpen, consumerVars, progressVars>>

(* Mutant: writes never block on a full fifo.                             *)
skopeo_write_unbounded ==
  /\ skopeo = "writing"
  /\ written < Len(Stream)
  /\ readerOpen
  /\ pipe' = Append(pipe, Stream[written + 1])
  /\ written' = written + 1
  /\ UNCHANGED <<faults, archive, blobid, skopeo, readerOpen, main, result, workerVars, chan,
                 rxOpen, consumerVars, progressVars>>

(* One write of the next item; blocks while the fifo is full.             *)
skopeo_write ==
  /\ skopeo = "writing"
  /\ written < Len(Stream)
  /\ readerOpen
  /\ Len(pipe) < PipeCap
  /\ pipe' = Append(pipe, Stream[written + 1])
  /\ written' = written + 1
  /\ UNCHANGED <<faults, archive, blobid, skopeo, readerOpen, main, result, workerVars, chan,
                 rxOpen, consumerVars, progressVars>>

(* A write to a fifo whose read end is closed fails: EPIPE, non-zero exit. *)
skopeo_epipe ==
  /\ skopeo = "writing"
  /\ written < Len(Stream)
  /\ ~readerOpen
  /\ skopeo' = "epipe"
  /\ UNCHANGED <<faults, archive, blobid, written, pipe, readerOpen, main, result, workerVars,
                 chan, rxOpen, consumerVars, progressVars>>

skopeo_exit ==
  /\ skopeo = "writing"
  /\ written = Len(Stream)
  /\ skopeo' = "ok"
  /\ UNCHANGED <<faults, archive, blobid, written, pipe, readerOpen, main, result, workerVars,
                 chan, rxOpen, consumerVars, progressVars>>

(* A registry or network error mid-copy: the write end closes, exit != 0. *)
skopeo_fail ==
  /\ skopeo = "writing"
  /\ skopeo' = "failed"
  /\ Blame("skopeo")
  /\ UNCHANGED <<archive, blobid, written, pipe, readerOpen, main, result, workerVars,
                 chan, rxOpen, consumerVars, progressVars>>

-----------------------------------------------------------------------------
(* fetch_layer: File::open(fifo).await returns once skopeo has opened the  *)
(* write end; the reader is wrapped in a ProgressReader and find_layer_tar *)
(* spawns the blocking worker.  The waiter future is only built here: it   *)
(* is first polled in the final join.                                      *)
open_fifo ==
  /\ main = "open"
  /\ skopeo = "opening"
  /\ skopeo' = "writing"
  /\ readerOpen' = TRUE
  /\ main' = "joining"
  /\ worker' = "scan"
  /\ UNCHANGED <<faults, archive, blobid, written, pipe, result, cur, rem, found, chunk, chan,
                 rxOpen, consumerVars, progressVars>>

-----------------------------------------------------------------------------
(* find_layer_tar_sync, on its spawn_blocking thread.                      *)

(* archive.entries() yields the next header.                               *)
TakeHeader(e) ==
  /\ worker = "scan"
  /\ pipe # <<>>
  /\ Head(pipe).kind = "hdr"
  /\ Head(pipe).e = e
  /\ pipe' = Tail(pipe)
  /\ ProgressRead(1)

BadLayerLink(E) == E.tar /\ E.type = "symlink" /\ E.layerlink /\ E.link # blobid

(* An entry that is passed over: everything once found, entries not ending *)
(* in .tar, symlinks other than a wrong layer.tar link, other types.  The  *)
(* iterator reads its data to reach the next header.                       *)
worker_pass_entry ==
  \E e \in DOMAIN archive :
    /\ TakeHeader(e)
    /\ \/ found
       \/ ~archive[e].tar
       \/ archive[e].type = "other"
       \/ archive[e].type = "symlink" /\ ~BadLayerLink(archive[e])
    /\ cur' = e
    /\ rem' = archive[e].size
    /\ worker' = IF archive[e].size = 0 THEN "scan" ELSE "skip"
    /\ UNCHANGED <<faults, archive, blobid, skopeoVars, readerOpen, main, result, found, chunk,
                   chan, rxOpen, consumerVars>>

(* A layer.tar symlink not pointing at ../<blobid>.tar is an error.        *)
worker_bad_link ==
  \E e \in DOMAIN archive :
    /\ TakeHeader(e)
    /\ ~found
    /\ BadLayerLink(archive[e])
    /\ WorkerFails
    /\ Blame("worker")
    /\ UNCHANGED <<archive, blobid, skopeoVars, main, result, cur, rem, found, chunk,
                   chan, rxOpen, consumerVars>>

(* Mutant: the `if found { continue }` dropped, a later .tar is streamed.  *)
worker_layer_entry_again ==
  \E e \in DOMAIN archive :
    /\ TakeHeader(e)
    /\ archive[e].tar
    /\ archive[e].type = "regular"
    /\ cur' = e
    /\ rem' = archive[e].size
    /\ worker' = "read"
    /\ UNCHANGED <<faults, archive, blobid, skopeoVars, readerOpen, main, result, found, chunk,
                   chan, rxOpen, consumerVars>>

(* The first regular .tar entry is taken as the layer and streamed.        *)
worker_layer_entry ==
  \E e \in DOMAIN archive :
    /\ TakeHeader(e)
    /\ ~found
    /\ archive[e].tar
    /\ archive[e].type = "regular"
    /\ cur' = e
    /\ rem' = archive[e].size
    /\ worker' = "read"
    /\ UNCHANGED <<faults, archive, blobid, skopeoVars, readerOpen, main, result, found, chunk,
                   chan, rxOpen, consumerVars>>

(* Reading (and discarding) one chunk of a passed-over entry.              *)
worker_skip ==
  /\ worker = "skip"
  /\ pipe # <<>>
  /\ pipe' = Tail(pipe)
  /\ ProgressRead(1)
  /\ rem' = rem - 1
  /\ worker' = IF rem = 1 THEN "scan" ELSE "skip"
  /\ UNCHANGED <<faults, archive, blobid, skopeoVars, readerOpen, main, result, cur, found,
                 chunk, chan, rxOpen, consumerVars>>

(* The end-of-archive marker ends the entries loop.                        *)
worker_end ==
  /\ worker = "scan"
  /\ pipe # <<>>
  /\ Head(pipe) = EOA
  /\ pipe' = Tail(pipe)
  /\ ProgressRead(1)
  /\ \/ found /\ worker' = "ok" /\ UNCHANGED <<readerOpen, faults>>
     \/ ~found /\ WorkerFails /\ Blame("worker")
  /\ UNCHANGED <<archive, blobid, skopeoVars, main, result, cur, rem, found, chunk,
                 chan, rxOpen, consumerVars>>

(* The fifo reports end of file (skopeo exited, nothing buffered).  At a   *)
(* header boundary tar ends the iteration; inside an entry it is an error. *)
worker_eof ==
  /\ worker \in {"scan", "skip", "read"}
  /\ worker = "read" => rem > 0
  /\ pipe = <<>>
  /\ WriterClosed
  /\ ProgressRead(0)
  /\ \/ worker = "scan" /\ found /\ worker' = "ok" /\ UNCHANGED readerOpen
     \/ (worker # "scan" \/ ~found) /\ WorkerFails
  /\ UNCHANGED <<faults, archive, blobid, skopeoVars, pipe, main, result, cur, rem, found, chunk,
                 chan, rxOpen, consumerVars>>

(* entry.read(&mut buf): the next chunk of the layer, or n == 0 at its end. *)
worker_read ==
  /\ worker = "read"
  /\ \/ /\ rem = 0
        /\ chunk' = Empty
        /\ UNCHANGED <<pipe, rem, progressVars>>
     \/ /\ rem > 0
        /\ pipe # <<>>
        /\ chunk' = Head(pipe)
        /\ pipe' = Tail(pipe)
        /\ rem' = rem - 1
        /\ ProgressRead(1)
  /\ worker' = "send"
  /\ UNCHANGED <<faults, archive, blobid, skopeoVars, readerOpen, main, result, cur, found, chan,
                 rxOpen, consumerVars>>

(* Mutants of the send: a closed receiver propagated as the worker's error *)
(* (send(..)?); a closed receiver ending the worker at once, returning the *)
(* reader without reading the rest of the archive.                         *)
worker_send_propagate ==
  /\ worker = "send"
  /\ \/ /\ ~rxOpen
        /\ WorkerFails
        /\ UNCHANGED <<found, chan>>
     \/ /\ rxOpen
        /\ Len(chan) < ChanCap
        /\ chan' = Append(chan, chunk)
        /\ found' = (chunk = Empty)
        /\ worker' = IF chunk = Empty THEN "scan" ELSE "read"
        /\ UNCHANGED readerOpen
  /\ UNCHANGED <<faults, archive, blobid, skopeoVars, pipe, main, result, cur, rem,
                 chunk, rxOpen, consumerVars, progressVars>>

worker_send_stop ==
  /\ worker = "send"
  /\ \/ /\ ~rxOpen
        /\ found' = TRUE
        /\ worker' = "ok"
        /\ UNCHANGED chan
     \/ /\ rxOpen
        /\ Len(chan) < ChanCap
        /\ chan' = Append(chan, chunk)
        /\ found' = (chunk = Empty)
        /\ worker' = IF chunk = Empty THEN "scan" ELSE "read"
  /\ UNCHANGED <<faults, archive, blobid, skopeoVars, pipe, readerOpen, main, result, cur, rem,
                 chunk, rxOpen, consumerVars, progressVars>>

(* tx_buf.blocking_send(chunk): blocks while the channel is full, fails    *)
(* once the receiver is gone.  A failed send or the final empty chunk      *)
(* marks the layer found and returns to the entries loop.                  *)
worker_send ==
  /\ worker = "send"
  /\ \/ /\ ~rxOpen
        /\ found' = TRUE
        /\ worker' = IF rem > 0 THEN "skip" ELSE "scan"
        /\ UNCHANGED chan
     \/ /\ rxOpen
        /\ Len(chan) < ChanCap
        /\ chan' = Append(chan, chunk)
        /\ found' = (chunk = Empty)
        /\ worker' = IF chunk = Empty THEN "scan" ELSE "read"
  /\ UNCHANGED <<faults, archive, blobid, skopeoVars, pipe, readerOpen, main, result, cur, rem,
                 chunk, rxOpen, consumerVars, progressVars>>

-----------------------------------------------------------------------------
(* import_tar reading the StreamReader over the channel (modelled from its *)
(* contract: it reads one tar stream and yields a commit).                 *)

(* import_tar sees only a tar stream: whichever entry's data the worker   *)
(* sends, it finishes once that stream's leading chunks are in.           *)
EntryChunks(e) == [k \in 1..archive[e].size |-> Chunk(e, k)]

TargetIdx == {i \in DOMAIN archive : archive[i].blob = blobid}

TargetChunks ==
  IF TargetIdx = {} THEN <<>> ELSE EntryChunks(CHOOSE i \in TargetIdx : TRUE)

Needed == SubSeq(TargetChunks, 1, LayerNeeded)

(* StreamReader skips empty chunks.                                        *)
consumer_recv ==
  /\ consumer = "reading"
  /\ chan # <<>>
  /\ chan' = Tail(chan)
  /\ received' = IF Head(chan).kind = "data" THEN Append(received, Head(chan)) ELSE received
  /\ UNCHANGED <<faults, archive, blobid, skopeoVars, pipe, readerOpen, main, result, workerVars,
                 rxOpen, consumer, progressVars>>

(* The inner tar is complete: import_tar returns and drops the reader.     *)
consumer_finish ==
  /\ consumer = "reading"
  /\ received # <<>>
  /\ received = SubSeq(EntryChunks(received[1].e), 1, LayerNeeded)
  /\ consumer' = "ok"
  /\ rxOpen' = FALSE
  /\ chan' = <<>>
  /\ UNCHANGED <<faults, archive, blobid, skopeoVars, pipe, readerOpen, main, result, workerVars,
                 received, progressVars>>

(* The channel is closed and drained: a stream cut at a chunk boundary may *)
(* still parse as a (truncated) tar, anything else is an error.            *)
consumer_eof ==
  /\ consumer = "reading"
  /\ chan = <<>>
  /\ worker \in {"ok", "err"}
  /\ \/ received # <<>> /\ IsPrefix(received, EntryChunks(received[1].e)) /\ consumer' = "ok"
     \/ consumer' = "err"
  /\ IF consumer' = "err" /\ worker = "ok" THEN Blame("import_tar") ELSE UNCHANGED faults
  /\ rxOpen' = FALSE
  /\ UNCHANGED <<archive, blobid, skopeoVars, pipe, readerOpen, main, result, workerVars,
                 chan, received, progressVars>>

(* import_tar fails on its own (invalid content, repository error).        *)
consumer_fail ==
  /\ main = "joining"
  /\ consumer = "reading"
  /\ consumer' = "err"
  /\ Blame("import_tar")
  /\ rxOpen' = FALSE
  /\ chan' = <<>>
  /\ UNCHANGED <<archive, blobid, skopeoVars, pipe, readerOpen, main, result, workerVars,
                 received, progressVars>>

-----------------------------------------------------------------------------
(* Mutant: the waiter's result is not checked.                            *)
join_ignore_waiter ==
  /\ main = "joining"
  /\ consumer \in {"ok", "err"}
  /\ worker \in {"ok", "err"}
  /\ WriterClosed
  /\ result' = CASE consumer = "err" -> "import_tar"
                 [] worker = "err" -> "worker"
                 [] OTHER -> "ok"
  /\ main' = "done"
  /\ readerOpen' = FALSE
  /\ UNCHANGED <<faults, archive, blobid, skopeoVars, pipe, workerVars, chan, rxOpen,
                 consumerVars, progressVars>>

(* import(): tokio::join!(import_tar, worker) where worker is              *)
(* tokio::join!(find_layer_tar's worker, waiter); then ostree_commit?,     *)
(* waiter?, worker?.  The returned fifo reader is dropped last.            *)
join ==
  /\ main = "joining"
  /\ consumer \in {"ok", "err"}
  /\ worker \in {"ok", "err"}
  /\ WriterClosed
  /\ result' = CASE consumer = "err" -> "import_tar"
                 [] skopeo # "ok" -> "skopeo"
                 [] worker = "err" -> "worker"
                 [] OTHER -> "ok"
  /\ main' = "done"
  /\ readerOpen' = FALSE
  /\ UNCHANGED <<faults, archive, blobid, skopeoVars, pipe, workerVars, chan, rxOpen,
                 consumerVars, progressVars>>

(* The caller drops its progress receiver.                                 *)
observer_drop ==
  /\ observer
  /\ observer' = FALSE
  /\ UNCHANGED <<faults, archive, blobid, skopeoVars, pipe, readerOpen, main, result, workerVars,
                 chan, rxOpen, consumerVars, progress, published>>

-----------------------------------------------------------------------------
Skopeo == skopeo_start \/ skopeo_write \/ skopeo_epipe \/ skopeo_exit

Worker ==
  \/ worker_pass_entry \/ worker_bad_link \/ worker_layer_entry \/ worker_skip
  \/ worker_end \/ worker_eof \/ worker_read \/ worker_send

Consumer == consumer_recv \/ consumer_finish \/ consumer_eof

Main == open_fifo \/ join

Next ==
  \/ Skopeo \/ skopeo_fail
  \/ Worker
  \/ Consumer \/ consumer_fail
  \/ Main
  \/ observer_drop

(* The subprocess, the blocking thread and the tasks each keep running     *)
(* while they can; failures and the observer's departure are not forced.  *)
Spec ==
  /\ Init /\ [][Next]_vars
  /\ WF_vars(Skopeo) /\ WF_vars(Worker) /\ WF_vars(Consumer) /\ WF_vars(Main)

(* The same system when skopeo may also exit before opening the fifo.      *)
NextWithEarlyExit == Next \/ skopeo_fail_early

SpecWithEarlyExit ==
  /\ Init /\ [][NextWithEarlyExit]_vars
  /\ WF_vars(Skopeo) /\ WF_vars(Worker) /\ WF_vars(Consumer) /\ WF_vars(Main)

-----------------------------------------------------------------------------
(* Properties.                                                             *)

(* The archive holds the layer as a regular .tar entry.                   *)
LayerPresent == \E i \in TargetIdx : archive[i].tar /\ archive[i].type = "regular"

(* ... and no layer.tar link in it points at another blob.                 *)
ArchiveValid ==
  /\ LayerPresent
  /\ ~\E i \in DOMAIN archive : BadLayerLink(archive[i])

Parties == {"import_tar", "skopeo", "worker"}

Failed == result \in Parties

(* What has been handed towards import_tar: read by it or queued for it.   *)
Forwarded == received \o SelectSeq(chan, LAMBDA c : c.kind = "data")

TypeOK ==
  /\ archive \in Archives
  /\ skopeo \in {"start", "opening", "writing", "ok", "failed", "epipe"}
  /\ written \in 0..Len(Stream)
  /\ Len(pipe) <= PipeCap /\ Len(chan) <= ChanCap
  /\ main \in {"open", "joining", "done"} /\ result \in {"none", "ok"} \cup Parties
  /\ worker \in {"idle", "scan", "skip", "read", "send", "ok", "err"}
  /\ consumer \in {"reading", "ok", "err"}
  /\ progress \in {"some", "none"} /\ published \in Nat
  /\ faults \subseteq Parties

(* The worker hands import_tar the layer's chunks and nothing else: what   *)
(* was forwarded is a prefix of the layer entry's data, in order, with no  *)
(* chunk of a later entry mixed in after the layer was found.              *)
ForwardsOnlyTarget == IsPrefix(Forwarded, TargetChunks)

(* import() reports success only if skopeo exited 0, the archive held the *)
(* layer, and import_tar read the whole layer it needed: a worker or       *)
(* waiter error is never lost in the join, even when import_tar accepted a *)
(* stream that ended early.                                                *)
OkMeansComplete ==
  result = "ok" => /\ skopeo = "ok"
                   /\ LayerPresent
                   /\ IsPrefix(Needed, received)

(* A layer.tar link to another blob is rejected (spec 4.6): an import of   *)
(* an archive holding one never succeeds.                                  *)
BadLinkRejected ==
  result = "ok" => ~\E i \in DOMAIN archive : BadLayerLink(archive[i])

(* With a valid archive, the import only fails because skopeo or           *)
(* import_tar failed: the worker drains the archive after the layer, so    *)
(* skopeo never sees a broken pipe even when import_tar stops reading.     *)
NoSpuriousFailure ==
  (Failed /\ ArchiveValid) => (skopeo = "failed" \/ consumer = "err")

(* The error import() returns is that of a party that failed on its own   *)
(* (spec 5: an error from either background activity is surfaced; 7: a    *)
(* skopeo failure carries its diagnostic output), not the knock-on error  *)
(* of import_tar reading a stream another party cut short.  The joins in   *)
(* import() and fetch_layer decide which error wins.                       *)
ErrorNamesFault == Failed => result \in faults

(* Every import ends: the pipe open, the worker, import_tar, skopeo and    *)
(* the join all complete.                                                  *)
Termination == <>(main = "done")

=============================================================================
