# TLA+ models of the ostree ⇄ container tar code

This directory models the two source files of the repository with TLA+ and
checks them with TLC:

- `src/lib/src/tar/export.rs`: the export of an ostree commit as a tar stream.
- `src/ostree-ext/lib/src/container/import.rs`: the import of a commit from a
  container image. It streams one layer out of a `skopeo copy` running as a
  subprocess.

## 1. Inventory

### Components

| Component | Source | State it keeps | Operations |
|---|---|---|---|
| Path layout | export.rs 36–99 | none (pure) | `object_path`, `v0_xattrs_path`, `v0_xattrs_object_path`, `v1_xattrs_object_path`, `v1_xattrs_link_object_path`, `map_path`, `symlink_is_denormal` |
| Attribute codec | export.rs 288–336 | `wrote_xattrs` | `append_xattrs` (format 0 and format 1) |
| Archive writer | export.rs 43–52, 101–511 | the tar builder `out`, `wrote_initdirs`, `wrote_dirtree`, `wrote_dirmeta`, `wrote_content`, `options` | `export_commit`, `impl_export`, `write_commit`, `write_repo_structure`, `append`, `append_content`, `append_dir`, `append_dirtree`, `append_default_*`, `filter_mode` |
| Manifest fetcher | import.rs 63–96 | none | `fetch_manifest_info`, `fetch_manifest` (runs `skopeo inspect --raw` and hashes the output) |
| Layer locator | import.rs 265–291 | none (pure) | `find_layer_blobid` |
| Progress reader | import.rs 14–61 | `progress: Option<watch::Sender>` and the watch value | `poll_read` |
| Layer extractor | import.rs 98–203 | the tar iterator, `found`, the 8 KiB buffer, the `mpsc::channel(2)` | `find_layer_tar` (spawns the worker and bridges the channel to an `AsyncRead`), `find_layer_tar_sync` |
| Import orchestrator | import.rs 205–254, 293–334 | the temp dir, the fifo, the skopeo child, the futures it joins | `fetch_layer`, `import` |
| External: object store | (ostree) | the repository | `require_rev`, `load_commit`, `load_variant`, `load_file`, `read_commit_detached_metadata` |
| External: skopeo | (subprocess) | its own process | writes a docker-archive into the fifo and exits 0 or non-zero |
| External: importer | `crate::tar::import_tar` (in the repo, not under src/) | the target repository | reads one tar stream and returns a commit |

### How the parts interact

**Export** runs on one thread and never runs concurrently. `export_commit`
resolves the rev and creates a `tar::Builder`. `write_commit` then does these
steps in order:

1. It writes the root directory `./`.
2. It writes the repository structure under `sysroot/ostree/repo`: the
   ancestor directories, 256 shard directories, `tmp`, `refs`, the v0
   `xattrs` directory and the config file.
3. It writes the commit, the detached metadata and the root dirmeta.
4. It recurses through `append_dirtree`. For each file it calls
   `append_content`, which writes the xattrs (`append_xattrs`) before the
   content object. It then hardlinks the checkout path to the object. For
   each subdirectory it writes the dirmeta, the directory entry, and recurses.

Each export owns four sets that stop an object from being written twice.

**Import** calls these steps in order: the policy check, then
`fetch_manifest`, then `find_layer_blobid`, then `fetch_layer`.
`fetch_layer` creates a fifo in a temp dir and spawns
`skopeo copy <img> docker-archive:<fifo>`. It then opens the fifo for
reading, which blocks until skopeo opens the write end. It wraps the reader
in a `ProgressReader` and calls `find_layer_tar`. That function starts
`find_layer_tar_sync` on a `spawn_blocking` thread. The thread parses the
outer archive and sends the first regular `.tar` entry chunk by chunk on a
bounded `mpsc` channel with capacity 2. After that it reads and discards the
rest of the archive, so skopeo never writes into a closed pipe. The channel
is exposed as an `AsyncRead` (a `StreamReader`) and given to `import_tar`.
`import` joins three things:

- `import_tar`;
- the worker thread;
- the `waiter` future, which collects skopeo's exit status.

It waits for all three, then checks their results in a fixed order:
`import_tar`'s first, then the waiter's, then the worker's. It returns the
first error it meets in that order.

### What is hard

- **Export: ordering and deduplication.** The code relies on these orderings:
  - the root directory before the repository structure;
  - shard directories before any objects in them;
  - xattrs before content;
  - an object before every hardlink that points to it, including when an
    earlier directory already wrote that object.

  Deduplication must not drop anything, and the stream must not repeat a
  path. Shared subtrees, shared file contents and shared xattrs test this.
- **Import: three concurrent activities and a subprocess.** The three are the
  worker thread, the `import_tar` task and the skopeo process. They are
  connected by a kernel pipe and a bounded channel, and any of them may stop
  early:
  - skopeo may fail before it opens the fifo, or partway through the copy;
  - `import_tar` may finish or fail before the channel is drained;
  - the worker may hit an error.

  Getting this right needs four things: the join must not lose an error, the
  drain must prevent `EPIPE`, backpressure must not deadlock, and every path
  must terminate.

### Properties per component

- Path layout and archive writer:
  - the export implements ExportAbstract:
    - each step only appends entries an importer can apply in order:
      parents first, hardlinks to earlier objects, no path twice except
      shared xattrs blobs, nothing outside the commit;
    - a finished export holds exactly the expected paths;
    - every export returns;
  - xattrs come before content;
  - every checkout path and file object gives back the store's type,
    symlink target and mode. In format 1 the type bits are restored from
    the entry type;
  - in the `export_long_denormal_symlink` run only: an export fails only on
    input it cannot express (an unknown format version, or an object that
    does not load).
- Layer extractor, progress reader and orchestrator join:
  - only the target layer's bytes are forwarded, in order;
  - success implies that skopeo succeeded and the layer was fully imported;
  - the import never fails because of the extractor when the archive is valid;
  - bad `layer.tar` links are rejected;
  - the error returned is that of a party that failed on its own, not a
    knock-on error (`ErrorNamesFault`);
  - the import terminates.
- Layer locator: the result is the digest of the one eligible layer, without
  its prefix. Zero or several eligible layers are an error.
- Orchestrator: every step of `import()` is a step of the abstract
  `ImportAbstract` (`ImportRefines`, the safety part). `import()` returns in
  every behaviour except the `File::open` hang (`ImportReturns`). A
  successful result pairs one image's manifest digest with
  a commit built from that image's one layer, under a policy that allows the
  import.

## 2. Plan

Modules, in the order they are built. The most important behaviour comes
first.

1. **TarExport** (done): the whole archive writer, the attribute codec and
   the path layout as operators. `MCTarExport` gives it a small commit.
2. **LayerExtract** (done): it composes skopeo (the environment), the fifo,
   `find_layer_tar_sync`, the channel, the `import_tar` consumer and the join
   in `import`. `ProgressReader` is the `ProgressRead` operator inside it.
   `MCLayerExtract` gives it the docker-archives.
3. **ContainerImport** and **LayerLocator** (done): the sequence in `import`, which is the
   policy check, then `fetch_manifest`, then `find_layer_blobid`, then
   `fetch_layer`. It uses `INSTANCE LayerExtract` for the fetch, and
   `find_layer_blobid` is an operator over manifests. A run checks it
   against a reference definition over all manifests with up to three
   layers.
4. **ImportAbstract** (done): an abstract specification of
   `import()`. The import ends once, with a commit only if the whole layer
   was delivered and every party succeeded. ContainerImport is shown to
   refine it with `INSTANCE ... WITH`, and `ImportAbstract!Safety` is
   checked as a PROPERTY. The return is checked separately, because of the
   hang.
5. **ExportAbstract** (done): the tar stream as an append-only sequence of
   entries that an importer can apply. TarExport is shown to refine it.
6. Extensions of the existing models:
   - a commit with both `/etc` and `/usr/etc`, where `map_path` makes the two
     collide (done);
   - long denormal symlink targets, which `set_link_name_literal` rejects
     (done);
   - `filter_mode`: format 0 keeps the type bits in the mode, format 1
     drops them (done);
   - a configuration with a second consumer chunk size (later).

## 3. Modules

### TarExport.tla (export.rs)

**State.** The variables mirror `OstreeTarWriter`:

- `out` is the tar stream. Each entry has a path (a sequence of path
  components), a type and a link target.
- `wrote_initdirs`, `wrote_dirtree`, `wrote_dirmeta`, `wrote_content` and
  `wrote_xattrs` match the struct's fields.
- `version` is `options.format_version`.

The store stands outside the model's state:

- the constants `Trees`, `Files`, `RootTree` and `RootMeta` describe it;
- `broken` holds the file objects whose `load_file` returns no metadata or
  xattrs;
- `detached` says whether the commit has detached metadata.

A checksum is modelled as the pair `<<first two hex characters, rest>>`, as
`split_at(2)` produces. Contents and ownership are left out because they
never decide control flow.

**Modes.** Every entry carries its header's mode:

- Scaffolding entries use the fixed 0755 and 0644 of `append_default_*`.
- `append_dir` entries (`DirEntry`) and content objects use `filter_mode`
  of the store's mode.
- The checkout hardlinks (`CheckoutLink`) use the header `append_content`
  returns.

`filter_mode` keeps the whole mode in format 0 and clears the `S_IFMT` bits
otherwise. It is written `mode - (mode & S_IFMT)` with the Bitwise module,
which equals `mode & !S_IFMT` and stays inside TLC's integers. The commit's
modes include a setuid file and a sticky directory, so a mask that is too
wide shows.

**The recursion.** `append_dirtree` is an explicit stack of frames. Each
frame holds the mapped directory path, the dirtree, `is_root`, and the
positions reached in the file and directory loops.

**Actions.**

| Action | Models |
|---|---|
| `write_commit` | `write_commit` up to and including the first step of the root `append_dirtree`, together with `write_repo_structure` and the `append` calls. An unsupported format version fails at the config file, after the root directory and the structure directories have been written. |
| `append_file` | one iteration of the file loop: the whole `append_content` (load, dedup, `append_xattrs`, regular or symlink entry), then the checkout hardlink |
| `append_subdir` | one iteration of the subdirectory loop: dirmeta, directory entry and the head of the recursive call |
| `skip_sysroot` | the root-level `sysroot` `continue` |
| `return_dirtree` | return from a nested `append_dirtree` |
| `finish` | the root call returning, then `tar.finish()` |

`append_xattrs` is the operator `XattrsEntries`. It keeps the code's keying:
it tests membership with the xattrs digest but inserts the file's checksum.
Its `bail!` on an unknown version is not modelled because it cannot be
reached: `write_repo_structure` rejects the version before any content is
written. The tar crate's `append_link` normalization is modelled by what it
does (`NormalizedLinkName` drops repeated separators).

**Long symlink targets.** Each file record has a `long` flag: its target
is longer than the 100 bytes of the ustar link field. `LiteralFails(c)` is a
denormal symlink with a long target. For it `set_link_name_literal`
(export.rs:384) errors after the xattrs were written. `append_file` then
ends the export with `pc = "failed"`. The normal path, `append_link`, would
have written a GNU long-link entry, so long normal targets do not fail.

**Commit used (`MCTarExport`).**

- Two files share content: F1 appears at `/a` and at `/usr/bin`.
- Two files share non-empty xattrs: F1 and F2.
- Two symlinks have empty xattrs. One of them is the denormal
  `../../..//sbin/chkconfig`.
- Two directories share one empty dirtree, and several directories share a
  dirmeta.
- `/usr/etc` is mapped to `/etc`.
- The root has a `sysroot` directory.

Init also chooses the format version from {0, 1, 2}, whether the commit has
detached metadata, and whether F3 fails to load. This gives 12 initial
states. The shard directories are the four shards used, not all 256. Every
ordering and dedup case above happens in each of versions 0 and 1.

Two variants of the commit are also used:

- `MCFilesLong`: the same objects, with F3's denormal target over 100 bytes.
- `MCTreesEtc` with root `T5`: a commit with both `/etc` and `/usr/etc`.

### LayerExtract.tla (import.rs)

**Processes.**

- `skopeo`: start, then opening, then writing, then one of ok, failed or
  epipe.
- The main task: opening the fifo, then `joining`, then `done`.
- The `worker` (`find_layer_tar_sync`): `scan`, `skip`, `read` or `send`,
  then `ok` or `err`. `cur`, `rem`, `found` and `chunk` hold its locals.
- The `consumer` (`import_tar`): `reading`, then `ok` or `err`.

**Channels.**

- The fifo is `pipe`, bounded by `PipeCap`. `readerOpen` says whether its
  read end is open.
- The mpsc channel is `chan`, bounded by `ChanCap` = 2. `rxOpen` says whether
  its receiver is alive.

**The stream.** skopeo's docker-archive is a sequence of items: an entry
header, one data chunk, or the end-of-archive marker. One pipe read moves
one item. Each entry records these facts, because they are exactly what the
worker branches on:

- whether its name ends in `.tar`;
- its tar type;
- whether its name is `layer.tar`;
- for a `layer.tar` symlink, the blob id its `../<id>.tar` target names;
- for a layer, its blob id;
- its size.

The variable `blobid` is the `blobid` argument, that is, the blob the
`layer.tar` check compares with. It is set once: from the constant
`TargetBlob` in LayerExtract's own runs, and from `layerid` when
ContainerImport starts the fetch. `Fresh(a, b)` is the state `fetch_layer`
starts in for archive `a` and blob `b`.

**Progress.** `ProgressRead(n)` is `ProgressReader::poll_read`. It adds the
bytes read to the last published value, sends the total, and drops the
sender once a send fails. `observer_drop` is the caller dropping its
receiver.

**Main-task actions.**

- `open_fifo`: `File::open` completes only after skopeo has opened the write
  end. It then spawns the worker.
- `join`: the joins in `import()` and `fetch_layer`. It succeeds only if
  `import_tar`, the worker and skopeo all succeeded. Otherwise `result`
  names the error returned, in the code's order: `import_tar` (the
  `ostree_commit?` at import.rs:327), then the waiter (the `waiter?` at
  :249), then the worker. After that the reader is dropped.

**History.** `faults` records the parties that failed on their own account,
like the `faulty` flag of a crash-fault protocol spec:

- skopeo's failures (`skopeo_fail`, `skopeo_fail_early`);
- a bad link and a missing layer (the worker);
- `consumer_fail`, and an `import_tar` that rejects a stream the worker
  completed.

These are knock-on failures, and they are not recorded:

- the worker's EOF after skopeo failed;
- skopeo's `EPIPE` after the worker closed the pipe;
- `import_tar`'s error on a stream that was cut short.

**Worker actions.**

- `worker_pass_entry`, `worker_bad_link` and `worker_layer_entry`: the three
  outcomes of reading a header.
- `worker_skip`: reading through an entry that is passed over.
- `worker_end`: the end-of-archive marker.
- `worker_eof`: end of file on the pipe.
- `worker_read`: `entry.read`.
- `worker_send`: `blocking_send`. It blocks while the channel is full. It
  fails once the receiver is gone, and then the layer is marked found.

**Consumer actions.** `import_tar` is not under src/, so it is modelled from
its contract:

- `consumer_recv`: reads a chunk. The `StreamReader` skips empty chunks.
- `consumer_finish`: finishes after the first `LayerNeeded` chunks of the
  entry it was given, then drops the reader. The consumer does not know
  which blob it should get: it accepts whatever tar it is handed.
- `consumer_eof`: the stream ends. A stream cut at a chunk boundary may still
  be accepted.
- `consumer_fail`: fails for its own reasons, once `fetch_layer` has returned
  and `import_tar` runs.

**Archives used (`MCLayerExtract`).**

- A normal single-layer image: the layer, then a `layer.tar` link, then the
  manifest.
- A producer that writes a bad `layer.tar` link before the layer.
- An image with another layer after ours.
- An archive without our layer.

The layer has two chunks, and `import_tar` needs only the first. So
`import_tar` can drop the receiver while the worker still holds a chunk.
`PipeCap` = 2 is smaller than the items that are still unread at that point,
so skopeo really blocks on a full pipe.

### ExportAbstract.tla (what `export_commit` promises)

This module states what an importer that replays the stream relies on.

**State.**

- `stream`: the entries written so far.
- `status`: `running`, `done` or `failed`.
- `expected` and `rewritable`: fixed sets that no step changes.

**Actions.**

- `Write`: appends one or more entries.
- `Finish`: leaves exactly `expected`.
- `Fail`: may append, then stops.

An entry is admissible after the entries already in the stream when all of
these hold:

- its path is expected;
- its parent directory is already in the stream;
- a hardlink's target is an earlier regular file or symlink;
- its path is new, or is a content-addressed xattrs blob.

The last rule tolerates the known duplicate xattrs blobs (run
`export_duplicate_xattrs`) and nothing else. `Returns` (`<>` done or failed)
says that the call ends.

**Refinement mapping.**

- `stream` is `out`.
- `status` is running while `pc` is `start` or `walk`.
- `expected` is `ExpectedPaths`.
- `rewritable` is the xattrs blob paths.

`Write`, `Finish` and `Fail` constrain `stream'` by a predicate, not by an
equality. TLC therefore cannot evaluate their `ENABLED` through the mapping,
so the liveness is stated as `<>` rather than as weak fairness.
ImportAbstract's actions set every primed variable by an equality, which is
why it can keep weak fairness.

### LayerLocator.tla (import.rs 265–291)

`find_layer_blobid(m)` is an operator:

1. It keeps the layers whose media type is in `LayerMediaTypes` (the Docker
   and OCI uncompressed layer types) with `SelectSeq`.
2. No layers gives `Err("no_layers")`. More than one gives
   `Err("ambiguous")`.
3. The one layer's digest `<<algorithm, hex>>` gives `Ok(hex)` for sha256.
   Any other algorithm gives `Err("not_sha256")`.

A digest is the pair that `strip_prefix("sha256:")` splits.

The module's one action, `Locate`, calls it on a manifest from
`Manifests`. `Reference(m)` restates the rule over the set of eligible
indices, without sequences.

`MCLayerLocator` enumerates every manifest of up to three layers. The media
types are docker, OCI and OCI+gzip. The digests are two sha256 digests and
one sha512 digest. There are 1,640 manifests.

### ImportAbstract.tla (what `import()` promises)

There are three actions:

- `Move`: the registry moves the tag to any image; `seen` records every image
  the tag has named.
- `Succeed`: if the policy allows, the call ends with the digest and layer of
  one image in `seen`, provided that image has exactly one ostree layer.
- `Fail`: the call may end with an error at any time.

Weak fairness on `Succeed \/ Fail` says that the call returns (`Spec`).
`Safety` is the same specification without that promise.
ContainerImport is checked against `Safety`. The code breaks the promise
when skopeo exits before it opens the fifo, so ContainerImport states the
return on its own, with that one exception (`ImportReturns`).

### ContainerImport.tla (import.rs 79–96, 205–233, 303–334)

This module composes the `import()` sequence with LayerExtract.

**State.**

- `tag` and `seen`: the registry.
- `sigverify` and `insecureDefault`: the `SignatureSource` and what
  `container_policy_is_default_insecure` returns.
- `stage`: where `import()` is.
- `manifest`, `digest` and `layerid`: its locals.
- All of LayerExtract's variables. `LX == INSTANCE LayerExtract WITH
  Archives <- the images' archives` reuses its actions. `LL == INSTANCE
  LayerLocator` supplies `find_layer_blobid`.

**Actions.** Each `?` of `import()` is its own failing action:

| Action | Models |
|---|---|
| `check_policy`, `policy_read_error` | the refusal of `ContainerPolicy` under an `insecureAcceptAnything` default, and the failing read |
| `fetch_manifest`, `fetch_manifest_fail` | `skopeo inspect --raw` of the image the tag names now, or its failure |
| `select_layer` | `find_layer_blobid`, failing on its errors |
| `start_fetch`, `fetch_setup_fail` | `fetch_layer` up to the spawn: skopeo copies the image the tag names now, checked against `layerid` |
| `FetchStep(A)` | any LayerExtract step, up to and including the join, including skopeo exiting before it opens the fifo (`LX!NextWithEarlyExit`) |
| `registry_push` | the tag moving to another image, at most `MaxPushes` times (only in `SpecWithPush`) |

**Refinement mapping** onto ImportAbstract:

- `status` is `"done"` when a step failed or the join returned.
- `allowed` is the negation of `ContainerPolicy` with the insecure default.
- On success, `reported` is the fetched `digest` and `imported` is the blob
  id of the entry `import_tar` received.
- `CommitLayer` is `find_layer_blobid` applied to each image's manifest.

**Images used (`MCContainerImport`).**

- I1: one Docker layer `l1`.
- I2: one OCI layer `l2`.
- IAmb: two layers.
- IGz: only a gzip layer.
- I512: a sha512 digest.

Every archive is a well-formed single-layer docker-archive: I2's carries
`l2` and the others carry `l1`. The signature modes are the three
`SignatureSource` variants. There is at most one push.

## 4. Runs

| Run | Config | Expect | What it shows |
|---|---|---|---|
| `export` | `MCTarExport.cfg` | pass | Checks TypeOK, XattrsBeforeContent, CheckoutRestored and ExportRefines (`ExportAbstract!Spec`), for format versions 0, 1 and 2, with no broken file or any one of the four file objects failing to load. A failing export still returns, and the partial stream it leaves is an admissible prefix. The expected paths come from `TreePaths`, which recomputes them by direct recursion over the tree. The expected objects come from `TreeObjects`, which does the same. |
| `export_duplicate_xattrs` | `MCTarExport_dup.cfg` | violation | NoDuplicatePaths fails. Two files with equal xattrs make `append_xattrs` write the same xattrs blob path twice, because it inserts the file checksum but tests the blob digest (export.rs:307 and :321). In format 1 this happens for every pair of files with empty xattrs. |
| `extract` | `MCLayerExtract.cfg` | pass | Checks TypeOK, ForwardsOnlyTarget, OkMeansComplete, NoSpuriousFailure and Termination. skopeo may fail mid-copy, `import_tar` may stop or fail at any point, and the observer may disconnect. |
| `extract_early_exit_hang` | `MCLayerExtract_hang.cfg` | violation | Termination fails when skopeo exits before it opens its destination, for example because it cannot load the signature policy. `File::open(fifo).await` (import.rs:231) then blocks forever, and the waiter that would report the failure is never polled. |
| `extract_decoy_layer` | `MCLayerExtract_decoy.cfg` | violation | ForwardsOnlyTarget fails. The worker streams the first regular `.tar` entry whatever its name (import.rs:183), so another layer placed before ours is handed to `import_tar`. |
| `extract_error_masked` | `MCLayerExtract_cause.cfg` | violation | ErrorNamesFault fails in 7 states. skopeo opens the fifo and then fails, for example on a registry or authentication error. The worker gets EOF, and `import_tar` fails on the empty stream. `import()` checks `ostree_commit?` first (import.rs:327), so it returns `import_tar`'s parse error and drops skopeo's exit status and stderr. A join that checks the waiter and the worker before `import_tar` satisfies the property. |
| `locate_layer` | `MCLayerLocator.cfg` | pass | Checks TypeOK and LocateMatchesReference. For all 1,640 manifests `find_layer_blobid` returns what `Reference` says. |
| `import` | `MCContainerImport.cfg` | pass | Checks TypeOK, ImportRefines (`ImportAbstract!Safety`) and ImportReturns. The registry does not push. skopeo may fail at any point, including before it opens the fifo. On success `import()` pairs the manifest digest with the layer of the same image, and never under a refused policy. `import()` returns in every behaviour except one: skopeo exited before opening the fifo, and `fetch_layer` waits in `File::open` (the `extract_early_exit_hang` finding). Without that exception the property fails. |
| `import_tag_moved` | `MCContainerImport_push.cfg` | violation | ImportRefines fails. The tag is resolved twice: once by `skopeo inspect` (import.rs:314) and once by `skopeo copy` (:318). A push in between makes the result report I1's digest with a commit from I2's layer `l2`. The worker forwards the first `.tar` whatever its blob id, and after that it skips the `layer.tar` link check. |
| `export_long_denormal_symlink` | `MCTarExport_longlink.cfg` | violation | ExportFailsOnlyOnBadInput fails. A well-formed commit whose denormal symlink target is over 100 bytes makes `set_link_name_literal` (export.rs:384) error, so the export fails. |
| `export_etc_collision` | `MCTarExport_etc.cfg` | violation | UniquePaths fails. With both `/etc` and `/usr/etc`, `map_path` (export.rs:443, :466) writes `./etc` twice, and its files twice. Only `sysroot` is special-cased against duplicates (:460). |
| `extract_late_bad_link` | `MCLayerExtract_latelink.cfg` | violation | BadLinkRejected fails. The `layer.tar` check (import.rs:165–181) runs only until the layer is found; after that `if found { continue }` skips it. A wrong link in skopeo's usual position, after the layer, is accepted. |

**Fairness.** Each process has weak fairness on its normal steps:

- skopeo: start, write, epipe, exit;
- the worker: every step;
- `import_tar`: receive, finish, end of file;
- the main task: open, join.

The worker is an OS thread from `spawn_blocking`, skopeo is a process, and
the two tasks are tokio futures that are woken when their channel or pipe
is ready. None of them can be stopped forever while it can still act.

ContainerImport adds weak fairness on its sequential prefix (the policy
check, the manifest fetch, the layer selection and the spawn). These are
consecutive awaits of one future. Each of LayerExtract's processes keeps its
own weak fairness, and a registry push has none.

These steps have no fairness, because they may never happen: skopeo's and
`import_tar`'s own failures, and the observer dropping its receiver. Export
is a sequential loop, so `WF_vars(Next)` holds.

**Deadlock.** Every run sets `CHECK_DEADLOCK FALSE` because both programs
really do stop. Instead, a state stuck before the end is caught by:

- `Termination` (LayerExtract);
- the `<>` return of ExportAbstract;
- `ImportReturns` (ContainerImport).

## 5. Not modelled

Left out:

- Object contents, uid/gid, the tar headers'
  encoding, GNU long names and the 8 KiB buffer size. They are data that
  never change control flow.
- `async_read_to_sync` and the tempdir guard.
- A failing `File::open(fifo)` after `skopeo::spawn` (import.rs:231). It
  needs descriptor or memory exhaustion, because the fifo was just created in
  a private directory. The `?` would drop the `Child` without waiting on it,
  and skopeo would stay blocked opening the write end. It is listed as a
  hazard without a property.
- The digest computation and JSON parsing in `fetch_manifest`. They are
  abstracted to a per-image `DigestOf` and `Manifests`, and any of their
  failures is `fetch_manifest_fail`.
- `fetch_manifest_info` as an entry point of its own. It is
  `fetch_manifest` with the manifest discarded, so it adds no state.
- `import_tar`'s internals. The model has only its contract, so `consumer_*`
  is marked `spec_modelled` in the map.
- skopeo and the object store. They are external programs outside src/.
  skopeo is the environment process of LayerExtract: it writes the archive,
  or fails at any point. The store is the constants of TarExport: the trees,
  files, modes and xattrs digests, plus the set of objects whose load fails.
  Nothing of their own state is modelled.

After this, what is left of the code is declarations, imports and the unit
tests of export.rs (lines 512–570). Those tests check the path functions on
fixed inputs.
