----------------------------- MODULE TarExport -----------------------------
(***************************************************************************)
(* The ostree commit -> tar stream encoder of lib/src/tar/export.rs.       *)
(*                                                                         *)
(* One export call (export_commit) walks a commit's directory tree and     *)
(* appends tar entries to a caller-owned stream.  The stream is `out`, a   *)
(* sequence of entries; each entry is a path (a sequence of components),   *)
(* a tar entry type, for links a link target, and the header's mode.       *)
(* Object contents and ownership are abstracted away: they never decide    *)
(* control.                                                                *)
(*                                                                         *)
(* The recursion of append_dirtree is an explicit stack of frames; one     *)
(* action is one loop iteration of append_dirtree (a file entry, a         *)
(* subdirectory entry) or the return from it.                              *)
(***************************************************************************)
EXTENDS Integers, Sequences, SequencesExt, FiniteSets, Bitwise

CONSTANTS
  CommitCsum,     \* the checksum require_rev resolves the exported rev to
  RootTree,       \* the commit's root dirtree checksum  (commit.6)
  RootMeta,       \* the commit's root dirmeta checksum  (commit.7)
  Trees,          \* dirtree checksum -> [files: Seq(<<name, file>>),
                  \*                      dirs: Seq(<<name, dirtree, dirmeta>>)]
  Files,          \* file checksum -> [type: {"regular","symlink"},
                  \*                   target: symlink target components,
                  \*                   long: the target is over 100 bytes,
                  \*                   mode: unix::mode, type bits included,
                  \*                   xattrs: the file's xattrs blob]
  DirMode,        \* dirmeta checksum -> its mode, type bits included
  EmptyXattrs,    \* the empty xattrs blob
  XattrsDigest,   \* xattrs blob -> its sha256, as a checksum
  ShardDirs,      \* the object shard directories, in the order written
  FormatVersions, \* ExportOptions.format_version values to explore
  BrokenChoices   \* sets of file checksums whose load_file lacks meta/xattrs

(* A checksum is a pair <<first two hex chars, rest>>: split_at(2).        *)
ASSUME \A c \in DOMAIN Files \cup DOMAIN Trees : c[1] \in ToSet(ShardDirs)
ASSUME \A b \in DOMAIN XattrsDigest : XattrsDigest[b][1] \in ToSet(ShardDirs)

VARIABLES
  version,        \* self.options.format_version
  broken,         \* file objects the repo cannot fully load
  detached,       \* read_commit_detached_metadata returns Some
  out,            \* the tar stream written so far
  wrote_initdirs,
  wrote_dirtree,
  wrote_dirmeta,
  wrote_content,
  wrote_xattrs,
  stack,          \* append_dirtree activation frames, innermost last
  pc              \* "start" | "walk" | "done" | "failed"

vars == <<version, broken, detached, out, wrote_initdirs, wrote_dirtree,
          wrote_dirmeta, wrote_content, wrote_xattrs, stack, pc>>

-----------------------------------------------------------------------------
(* Path layout (object_path, the xattrs paths, map_path).                  *)

SYSROOT == "sysroot"
OSTREEDIR == <<"sysroot", "ostree">>
RepoDir == OSTREEDIR \o <<"repo">>

Suffix == [commit |-> "commit", commitmeta |-> "commitmeta",
           dirtree |-> "dirtree", dirmeta |-> "dirmeta", file |-> "file"]

object_path(objtype, checksum) ==
  RepoDir \o <<"objects", checksum[1], checksum[2] \o "." \o Suffix[objtype]>>

v0_xattrs_path(checksum) == RepoDir \o <<"xattrs", checksum[1] \o checksum[2]>>

v0_xattrs_object_path(checksum) ==
  RepoDir \o <<"objects", checksum[1], checksum[2] \o ".file.xattrs">>

v1_xattrs_object_path(checksum) ==
  RepoDir \o <<"objects", checksum[1], checksum[2] \o ".file-xattrs">>

v1_xattrs_link_object_path(checksum) ==
  RepoDir \o <<"objects", checksum[1], checksum[2] \o ".file-xattrs-link">>

(* Convert ./usr/etc back to ./etc (component-wise strip_prefix).          *)
map_path(p) ==
  IF Len(p) >= 2 /\ SubSeq(p, 1, 2) = <<"usr", "etc">>
  THEN <<"etc">> \o SubSeq(p, 3, Len(p))
  ELSE p

(* A symlink target is its text split at "/"; "//" is an empty component   *)
(* strictly inside the sequence.                                           *)
symlink_is_denormal(target) == \E i \in 2..(Len(target) - 1) : target[i] = ""

(* What the tar crate's set_link_name (append_link) stores: the target is  *)
(* re-assembled from Path::components, which drops repeated separators.    *)
NormalizedLinkName(target) ==
  <<target[1]>> \o SelectSeq(Tail(target), LAMBDA x : x # "")

-----------------------------------------------------------------------------
(* Tar entries.                                                            *)

(* Convert the ostree mode to the tar mode: format 0 keeps the file type   *)
(* bits, later formats clear them: mode & !S_IFMT on a u32, which is mode  *)
(* minus its S_IFMT bits.                                                  *)
S_IFMT == 61440   \* 0o170000

(* Mutant: later formats keep only the permission bits (mode & 0o777).   *)
filter_mode_perm_only(mode) == IF version = 0 THEN mode ELSE mode % 512

filter_mode(mode) == IF version = 0 THEN mode ELSE mode - (mode & S_IFMT)

(* append_default_dir, append_default_data, append_default_hardlink: root  *)
(* owned, mode 0755 for directories and 0644 otherwise.                    *)
Dir(path) == [path |-> path, type |-> "dir", link |-> <<>>, mode |-> 493]
Data(path) == [path |-> path, type |-> "regular", link |-> <<>>, mode |-> 420]
Hardlink(path, target) == [path |-> path, type |-> "hardlink", link |-> target, mode |-> 420]

(* append_dir: a checkout directory with its dirmeta's filtered mode.      *)
DirEntry(path, meta) ==
  [path |-> path, type |-> "dir", link |-> <<>>, mode |-> filter_mode(DirMode[meta])]

(* The checkout hardlink append_dirtree writes with the header             *)
(* append_content returned: the file object's filtered mode.               *)
CheckoutLink(path, c) ==
  [path |-> path, type |-> "hardlink", link |-> object_path("file", c),
   mode |-> filter_mode(Files[c].mode)]

(* append(): commits and commitmeta always, dirtree/dirmeta once per set.   *)
AppendObj(objtype, checksum, set) ==
  IF checksum \in set THEN <<>> ELSE <<Data(object_path(objtype, checksum))>>

(* write_repo_structure, up to (excluding) the repository config file.     *)
RepoStructureDirs(v) ==
  <<Dir(<<"sysroot">>), Dir(OSTREEDIR), Dir(RepoDir), Dir(RepoDir \o <<"objects">>)>>
  \o [i \in 1..Len(ShardDirs) |-> Dir(RepoDir \o <<"objects", ShardDirs[i]>>)]
  \o <<Dir(RepoDir \o <<"tmp">>), Dir(RepoDir \o <<"tmp", "cache">>)>>
  \o <<Dir(RepoDir \o <<"refs">>), Dir(RepoDir \o <<"refs", "heads">>),
       Dir(RepoDir \o <<"refs", "mirrors">>), Dir(RepoDir \o <<"refs", "remotes">>)>>
  \o (IF v = 0 THEN <<Dir(RepoDir \o <<"xattrs">>)>> ELSE <<>>)

RepoConfigPath(v) == IF v = 0 THEN <<SYSROOT, "config">> ELSE RepoDir \o <<"config">>

(* The per-file xattrs link path (keyed by the file's checksum) and the    *)
(* shared blob path (keyed by the blob's digest).                          *)
XattrsLinkPath(c) ==
  IF version = 0 THEN v0_xattrs_object_path(c) ELSE v1_xattrs_link_object_path(c)

XattrsBlobPath(xc) ==
  IF version = 0 THEN v0_xattrs_path(xc) ELSE v1_xattrs_object_path(xc)

(* append_xattrs: the entries written and the new wrote_xattrs.  The       *)
(* membership test uses the blob's digest, the insertion the file's        *)
(* checksum, as in the code.                                               *)
XattrsEntries(c, set) ==
  LET blob == Files[c].xattrs
      xc == XattrsDigest[blob]
      blobpath == XattrsBlobPath(xc)
      linkpath == XattrsLinkPath(c)
  IN IF blob = EmptyXattrs /\ version = 0
     THEN <<<<>>, set>>
     ELSE <<(IF xc \notin set THEN <<Data(blobpath)>> ELSE <<>>)
              \o <<Hardlink(linkpath, blobpath)>>,
            IF xc \notin set THEN set \cup {c} ELSE set>>

(* Mutant: the denormal branch dropped, every target goes to append_link. *)
ContentEntry_no_literal(c) ==
  [path |-> object_path("file", c), type |-> Files[c].type,
   link |-> IF Files[c].type = "regular" THEN <<>> ELSE NormalizedLinkName(Files[c].target),
   mode |-> filter_mode(Files[c].mode)]

(* The content object itself: a regular file or a symlink entry.           *)
ContentEntry(c) ==
  LET t == Files[c].target
  IN [path |-> object_path("file", c), type |-> Files[c].type,
      link |-> CASE Files[c].type = "regular" -> <<>>
                 [] symlink_is_denormal(t)    -> t
                 [] OTHER                     -> NormalizedLinkName(t),
      mode |-> filter_mode(Files[c].mode)]

(* set_link_name_literal copies the target into the 100-byte ustar        *)
(* linkname field and errors when it does not fit; append_link would have  *)
(* used a GNU long-link entry instead.                                     *)
LiteralFails(c) ==
  Files[c].type = "symlink" /\ symlink_is_denormal(Files[c].target) /\ Files[c].long

Frame(dirpath, tree, isRoot) ==
  [dirpath |-> dirpath, tree |-> tree, isRoot |-> isRoot, fi |-> 1, di |-> 1]

Top == stack[Len(stack)]

-----------------------------------------------------------------------------
Init ==
  /\ version \in FormatVersions
  /\ broken \in BrokenChoices
  /\ detached \in BOOLEAN
  /\ out = <<>>
  /\ wrote_initdirs = FALSE
  /\ wrote_dirtree = {}
  /\ wrote_dirmeta = {}
  /\ wrote_content = {}
  /\ wrote_xattrs = {}
  /\ stack = <<>>
  /\ pc = "start"

(* export_commit -> write_commit: the root directory entry, the repository *)
(* structure, the commit, its detached metadata, the root dirmeta, and the *)
(* first step of append_dirtree(".", root) which writes the root dirtree.  *)
(* An unsupported format version fails at the config file, after the root  *)
(* directory and the structure's directories have been written.            *)
write_commit ==
  /\ pc = "start"
  /\ LET prefix == <<DirEntry(<<>>, RootMeta)>> \o RepoStructureDirs(version)
     IN \/ /\ version \in {0, 1}
           /\ out' = out \o prefix \o <<Data(RepoConfigPath(version))>>
                     \o <<Data(object_path("commit", CommitCsum))>>
                     \o (IF detached THEN <<Data(object_path("commitmeta", CommitCsum))>> ELSE <<>>)
                     \o AppendObj("dirmeta", RootMeta, wrote_dirmeta)
                     \o AppendObj("dirtree", RootTree, wrote_dirtree)
           /\ wrote_initdirs' = TRUE
           /\ wrote_dirmeta' = wrote_dirmeta \cup {RootMeta}
           /\ wrote_dirtree' = wrote_dirtree \cup {RootTree}
           /\ stack' = <<Frame(<<>>, RootTree, TRUE)>>
           /\ pc' = "walk"
        \/ /\ version \notin {0, 1}
           /\ out' = out \o prefix
           /\ pc' = "failed"
           /\ UNCHANGED <<wrote_initdirs, wrote_dirmeta, wrote_dirtree, stack>>
  /\ UNCHANGED <<version, broken, detached, wrote_content, wrote_xattrs>>

(* Mutant of the file loop: the content object before its xattrs.        *)
append_file_content_first ==
  /\ pc = "walk"
  /\ Top.fi <= Len(Trees[Top.tree].files)
  /\ LET name == Trees[Top.tree].files[Top.fi][1]
         c == Trees[Top.tree].files[Top.fi][2]
         xa == XattrsEntries(c, wrote_xattrs)
     IN /\ c \notin broken
        /\ out' = out \o (IF c \notin wrote_content THEN <<ContentEntry(c)>> \o xa[1] ELSE <<>>)
                      \o <<CheckoutLink(map_path(Top.dirpath \o <<name>>), c)>>
        /\ wrote_content' = wrote_content \cup {c}
        /\ wrote_xattrs' = IF c \notin wrote_content THEN xa[2] ELSE wrote_xattrs
        /\ stack' = [stack EXCEPT ![Len(stack)].fi = @ + 1]
  /\ UNCHANGED <<version, broken, detached, wrote_initdirs, wrote_dirtree, wrote_dirmeta, pc>>

(* One iteration of append_dirtree's file loop: append_content (load_file, *)
(* then, if unseen, xattrs first and the content object), then the         *)
(* hardlink at the mapped logical path.  A denormal symlink target too     *)
(* long for the header fails after the file's xattrs were written.         *)
append_file ==
  /\ pc = "walk"
  /\ Top.fi <= Len(Trees[Top.tree].files)
  /\ LET name == Trees[Top.tree].files[Top.fi][1]
         c == Trees[Top.tree].files[Top.fi][2]
         xa == XattrsEntries(c, wrote_xattrs)
         fresh == c \notin wrote_content
     IN \/ /\ c \in broken
           /\ pc' = "failed"
           /\ UNCHANGED <<out, wrote_content, wrote_xattrs, stack>>
        \/ /\ c \notin broken
           /\ fresh /\ LiteralFails(c)
           /\ out' = out \o xa[1]
           /\ wrote_content' = wrote_content \cup {c}
           /\ wrote_xattrs' = xa[2]
           /\ pc' = "failed"
           /\ UNCHANGED stack
        \/ /\ c \notin broken
           /\ ~(fresh /\ LiteralFails(c))
           /\ out' = out \o (IF fresh THEN xa[1] \o <<ContentEntry(c)>> ELSE <<>>)
                         \o <<CheckoutLink(map_path(Top.dirpath \o <<name>>), c)>>
           /\ wrote_content' = wrote_content \cup {c}
           /\ wrote_xattrs' = IF fresh THEN xa[2] ELSE wrote_xattrs
           /\ stack' = [stack EXCEPT ![Len(stack)].fi = @ + 1]
           /\ UNCHANGED pc
  /\ UNCHANGED <<version, broken, detached, wrote_initdirs, wrote_dirtree, wrote_dirmeta>>

(* Mutants of the subdirectory loop: the root "sysroot" check dropped; the *)
(* dirtree and dirmeta checksums of the entry swapped.                     *)
append_subdir_no_skip ==
  /\ pc = "walk"
  /\ Top.fi > Len(Trees[Top.tree].files)
  /\ Top.di <= Len(Trees[Top.tree].dirs)
  /\ LET d == Trees[Top.tree].dirs[Top.di]
         sub == map_path(Top.dirpath \o <<d[1]>>)
     IN /\ out' = out \o AppendObj("dirmeta", d[3], wrote_dirmeta) \o <<DirEntry(sub, d[3])>>
                      \o AppendObj("dirtree", d[2], wrote_dirtree)
        /\ wrote_dirmeta' = wrote_dirmeta \cup {d[3]}
        /\ wrote_dirtree' = wrote_dirtree \cup {d[2]}
        /\ stack' = Append([stack EXCEPT ![Len(stack)].di = @ + 1], Frame(sub, d[2], FALSE))
  /\ UNCHANGED <<version, broken, detached, wrote_initdirs, wrote_content, wrote_xattrs, pc>>

append_subdir_swapped ==
  /\ pc = "walk"
  /\ Top.fi > Len(Trees[Top.tree].files)
  /\ Top.di <= Len(Trees[Top.tree].dirs)
  /\ LET d == Trees[Top.tree].dirs[Top.di]
         sub == map_path(Top.dirpath \o <<d[1]>>)
     IN /\ ~(Top.isRoot /\ d[1] = SYSROOT)
        /\ out' = out \o AppendObj("dirmeta", d[2], wrote_dirmeta) \o <<DirEntry(sub, d[3])>>
                      \o AppendObj("dirtree", d[3], wrote_dirtree)
        /\ wrote_dirmeta' = wrote_dirmeta \cup {d[2]}
        /\ wrote_dirtree' = wrote_dirtree \cup {d[3]}
        /\ stack' = Append([stack EXCEPT ![Len(stack)].di = @ + 1], Frame(sub, d[3], FALSE))
  /\ UNCHANGED <<version, broken, detached, wrote_initdirs, wrote_content, wrote_xattrs, pc>>

(* One iteration of the subdirectory loop: the dirmeta object, the         *)
(* directory entry, and the recursive append_dirtree's dirtree object.     *)
append_subdir ==
  /\ pc = "walk"
  /\ Top.fi > Len(Trees[Top.tree].files)
  /\ Top.di <= Len(Trees[Top.tree].dirs)
  /\ LET d == Trees[Top.tree].dirs[Top.di]
         sub == map_path(Top.dirpath \o <<d[1]>>)
     IN /\ ~(Top.isRoot /\ d[1] = SYSROOT)
        /\ out' = out \o AppendObj("dirmeta", d[3], wrote_dirmeta) \o <<DirEntry(sub, d[3])>>
                      \o AppendObj("dirtree", d[2], wrote_dirtree)
        /\ wrote_dirmeta' = wrote_dirmeta \cup {d[3]}
        /\ wrote_dirtree' = wrote_dirtree \cup {d[2]}
        /\ stack' = Append([stack EXCEPT ![Len(stack)].di = @ + 1], Frame(sub, d[2], FALSE))
  /\ UNCHANGED <<version, broken, detached, wrote_initdirs, wrote_content, wrote_xattrs, pc>>

(* Mutant: the skip `continue`s without advancing to the next entry.      *)
skip_sysroot_no_advance ==
  /\ pc = "walk"
  /\ Top.fi > Len(Trees[Top.tree].files)
  /\ Top.di <= Len(Trees[Top.tree].dirs)
  /\ LET d == Trees[Top.tree].dirs[Top.di]
     IN /\ Top.isRoot /\ d[1] = SYSROOT
        /\ out' = out \o AppendObj("dirmeta", d[3], wrote_dirmeta)
        /\ wrote_dirmeta' = wrote_dirmeta \cup {d[3]}
        /\ UNCHANGED stack
  /\ UNCHANGED <<version, broken, detached, wrote_initdirs, wrote_dirtree,
                 wrote_content, wrote_xattrs, pc>>

(* The root-level "sysroot" directory: its dirmeta is still appended, then *)
(* the entry is skipped because the repository structure owns that path.  *)
skip_sysroot ==
  /\ pc = "walk"
  /\ Top.fi > Len(Trees[Top.tree].files)
  /\ Top.di <= Len(Trees[Top.tree].dirs)
  /\ LET d == Trees[Top.tree].dirs[Top.di]
     IN /\ Top.isRoot /\ d[1] = SYSROOT
        /\ out' = out \o AppendObj("dirmeta", d[3], wrote_dirmeta)
        /\ wrote_dirmeta' = wrote_dirmeta \cup {d[3]}
        /\ stack' = [stack EXCEPT ![Len(stack)].di = @ + 1]
  /\ UNCHANGED <<version, broken, detached, wrote_initdirs, wrote_dirtree,
                 wrote_content, wrote_xattrs, pc>>

(* append_dirtree returns to its caller, the enclosing directory's loop.   *)
return_dirtree ==
  /\ pc = "walk"
  /\ Len(stack) > 1
  /\ Top.fi > Len(Trees[Top.tree].files)
  /\ Top.di > Len(Trees[Top.tree].dirs)
  /\ stack' = Front(stack)
  /\ UNCHANGED <<version, broken, detached, out, wrote_initdirs, wrote_dirtree,
                 wrote_dirmeta, wrote_content, wrote_xattrs, pc>>

(* The root append_dirtree returns: write_commit, impl_export and          *)
(* tar.finish() complete.                                                  *)
finish ==
  /\ pc = "walk"
  /\ Len(stack) = 1
  /\ Top.fi > Len(Trees[Top.tree].files)
  /\ Top.di > Len(Trees[Top.tree].dirs)
  /\ stack' = <<>>
  /\ pc' = "done"
  /\ UNCHANGED <<version, broken, detached, out, wrote_initdirs, wrote_dirtree,
                 wrote_dirmeta, wrote_content, wrote_xattrs>>

Next ==
  \/ write_commit
  \/ append_file
  \/ append_subdir
  \/ skip_sysroot
  \/ return_dirtree
  \/ finish

(* Export is a sequential loop on the caller's thread: it always proceeds. *)
Spec == Init /\ [][Next]_vars /\ WF_vars(Next)

-----------------------------------------------------------------------------
(* Reference: the set of paths an export of the commit must produce,       *)
(* computed by direct recursion over the tree.                             *)

WritesXattrs(c) == version = 1 \/ Files[c].xattrs # EmptyXattrs

FilePaths(c, path) ==
  {object_path("file", c), path}
  \cup (IF WritesXattrs(c)
        THEN {XattrsLinkPath(c), XattrsBlobPath(XattrsDigest[Files[c].xattrs])}
        ELSE {})

RECURSIVE TreePaths(_, _, _)
TreePaths(t, dirpath, isRoot) ==
  LET T == Trees[t]
      SubPaths(d) ==
        LET sub == map_path(dirpath \o <<d[1]>>)
        IN {object_path("dirmeta", d[3])}
           \cup (IF isRoot /\ d[1] = SYSROOT THEN {}
                 ELSE {sub} \cup TreePaths(d[2], sub, FALSE))
  IN {object_path("dirtree", t)}
     \cup UNION {FilePaths(f[2], map_path(dirpath \o <<f[1]>>)) : f \in ToSet(T.files)}
     \cup UNION {SubPaths(d) : d \in ToSet(T.dirs)}

ExpectedPaths ==
  {e.path : e \in ToSet(RepoStructureDirs(version))}
  \cup {<<>>, RepoConfigPath(version), object_path("commit", CommitCsum),
        object_path("dirmeta", RootMeta)}
  \cup (IF detached THEN {object_path("commitmeta", CommitCsum)} ELSE {})
  \cup TreePaths(RootTree, <<>>, TRUE)

Written == {out[i].path : i \in DOMAIN out}

(* What an importer rebuilds from a header: format 0 stores the whole mode; *)
(* later formats take the type bits from the tar entry type.              *)
TypeBits == [regular |-> 32768, symlink |-> 40960, dir |-> 16384]

Restore(m, kind) == IF version = 0 THEN m ELSE TypeBits[kind] | m

(* The object every entry with store metadata must restore: its type, its  *)
(* symlink target and its mode, type bits included.                        *)
StoreObject(c) ==
  [type |-> Files[c].type, mode |-> Files[c].mode,
   link |-> IF Files[c].type = "symlink" THEN Files[c].target ELSE <<>>]

RECURSIVE TreeObjects(_, _, _)
TreeObjects(t, dirpath, isRoot) ==
  LET T == Trees[t]
      FileObjects(f) ==
        {<<object_path("file", f[2]), StoreObject(f[2])>>,
         <<map_path(dirpath \o <<f[1]>>), StoreObject(f[2])>>}
      SubObjects(d) ==
        LET sub == map_path(dirpath \o <<d[1]>>)
        IN IF isRoot /\ d[1] = SYSROOT THEN {}
           ELSE {<<sub, [type |-> "dir", mode |-> DirMode[d[3]], link |-> <<>>]>>}
                \cup TreeObjects(d[2], sub, FALSE)
  IN UNION {FileObjects(f) : f \in ToSet(T.files)} \cup UNION {SubObjects(d) : d \in ToSet(T.dirs)}

StoreObjects ==
  {<<<<>>, [type |-> "dir", mode |-> DirMode[RootMeta], link |-> <<>>]>>}
  \cup TreeObjects(RootTree, <<>>, TRUE)

IsXattrsBlob(p) == \E b \in DOMAIN XattrsDigest : p = XattrsBlobPath(XattrsDigest[b])

-----------------------------------------------------------------------------
(* Properties.                                                             *)

TypeOK ==
  /\ version \in FormatVersions
  /\ pc \in {"start", "walk", "done", "failed"}
  /\ \A i \in DOMAIN out : out[i].type \in {"dir", "regular", "symlink", "hardlink"}
  /\ wrote_dirtree \subseteq DOMAIN Trees
  /\ wrote_content \cup wrote_xattrs \subseteq DOMAIN Files
  /\ \A f \in DOMAIN stack : stack[f].tree \in DOMAIN Trees

(* append_content writes a file's xattrs link before the file object, so  *)
(* the importer has the xattrs when it materializes the content.           *)
XattrsBeforeContent ==
  \A i \in DOMAIN out, c \in DOMAIN Files :
    (out[i].path = object_path("file", c) /\ WritesXattrs(c)) =>
      \E j \in 1..(i - 1) : out[j].path = XattrsLinkPath(c)

(* No path is written twice except an xattrs blob (see NoDuplicatePaths): *)
(* the dedup sets hold for dirtree, dirmeta and content objects, shared    *)
(* subtrees still get each checkout path once, and the root "sysroot"     *)
(* directory does not clash with the repository structure.                 *)
UniquePaths ==
  \A i, j \in DOMAIN out :
    (i < j /\ out[i].path = out[j].path) => IsXattrsBlob(out[i].path)

(* A tar stream for containers cannot hold duplicate paths: every path,    *)
(* the xattrs objects included, is written at most once per export.        *)
NoDuplicatePaths ==
  \A i, j \in DOMAIN out : i < j => out[i].path # out[j].path

(* An export fails only on a commit it cannot express (spec 4.3, 6): an    *)
(* unsupported format version, or an object load_file cannot fully load.  *)
(* Denormal symlinks, whatever their length, round-trip; they are not a    *)
(* reason to fail.                                                         *)
ExportFailsOnlyOnBadInput == pc = "failed" => (version \notin {0, 1} \/ broken # {})

(* Every checkout path and file object restores the store's object when an *)
(* importer replays the stream (spec 4.3, 6 and 7): a checkout hardlink     *)
(* resolves to the object entry of its own file, that entry has the file's *)
(* type and its symlink target byte for byte (denormal "//" targets are    *)
(* not normalized), and the mode, with the type bits taken from the entry  *)
(* type in format 1, is the store's, setuid, setgid and sticky included.   *)
CheckoutRestored ==
  \A i \in DOMAIN out, po \in StoreObjects :
    out[i].path = po[1] =>
      \E j \in 1..i :
        /\ out[j].path = IF out[i].type = "hardlink" THEN out[i].link ELSE out[i].path
        /\ out[j].type = po[2].type
        /\ out[j].link = po[2].link
        /\ Restore(out[i].mode, out[j].type) = po[2].mode

-----------------------------------------------------------------------------
(* Refinement: the stream as ExportAbstract's append-only stream.          *)
EA == INSTANCE ExportAbstract WITH
        stream <- out,
        status <- CASE pc \in {"start", "walk"} -> "running"
                    [] pc = "done"              -> "done"
                    [] pc = "failed"            -> "failed",
        expected <- ExpectedPaths,
        rewritable <- {XattrsBlobPath(XattrsDigest[b]) : b \in DOMAIN XattrsDigest}

(* export_commit implements ExportAbstract: every step only appends        *)
(* entries an importer can apply in order (parents first, hardlinks to     *)
(* earlier objects, no path twice but shared xattrs blobs, none outside    *)
(* the commit), a finished export holds exactly the expected paths, and    *)
(* every export ends, by finishing or by an error.                         *)
ExportRefines == EA!Spec

=============================================================================
