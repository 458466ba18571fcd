---------------------------- MODULE MCTarExport ----------------------------
(***************************************************************************)
(* A small commit for TarExport:                                           *)
(*   /          files a -> F1, lnk -> F4;  dirs sysroot, usr, var          *)
(*   /usr       files bin -> F1 (shared content); dirs etc, lib            *)
(*   /usr/etc   files conf -> F2, sysv -> F3 (denormal "//" symlink)       *)
(*   /sysroot   files x -> F2 (skipped by the exporter)                    *)
(*   /var, /usr/lib  the same empty dirtree T3                             *)
(* F1 and F2 carry the same non-empty xattrs XS; F3 and F4 empty xattrs.   *)
(***************************************************************************)
EXTENDS TarExport

MCCommit == <<"c0", "mt">>
T0 == <<"a1", "t0">>
T1 == <<"a1", "t1">>
T2 == <<"b2", "t2">>
T3 == <<"b2", "t3">>
T4 == <<"a1", "t4">>
M0 == <<"a1", "m0">>
M1 == <<"b2", "m1">>
F1 == <<"a1", "f1">>
F2 == <<"b2", "f2">>
F3 == <<"b2", "f3">>
F4 == <<"a1", "f4">>

MCTrees ==
  T0 :> [files |-> <<<<"a", F1>>, <<"lnk", F4>>>>,
         dirs |-> <<<<"sysroot", T2, M1>>, <<"usr", T1, M0>>, <<"var", T3, M1>>>>]
  @@ T1 :> [files |-> <<<<"bin", F1>>>>,
            dirs |-> <<<<"etc", T4, M1>>, <<"lib", T3, M1>>>>]
  @@ T2 :> [files |-> <<<<"x", F2>>>>, dirs |-> <<>>]
  @@ T3 :> [files |-> <<>>, dirs |-> <<>>]
  @@ T4 :> [files |-> <<<<"conf", F2>>, <<"sysv", F3>>>>, dirs |-> <<>>]

MCFiles ==
  F1 :> [type |-> "regular", target |-> <<>>, long |-> FALSE, mode |-> 33261, xattrs |-> "XS"]
  @@ F2 :> [type |-> "regular", target |-> <<>>, long |-> FALSE, mode |-> 35309, xattrs |-> "XS"]
  @@ F3 :> [type |-> "symlink", target |-> <<"..", "..", "..", "", "sbin", "chkconfig">>,
            long |-> FALSE, mode |-> 41471, xattrs |-> "XE"]
  @@ F4 :> [type |-> "symlink", target |-> <<"..", "usr", "bin", "blah">>, long |-> FALSE, mode |-> 41471,
            xattrs |-> "XE"]

(* The same objects, the denormal target of F3 over 100 bytes long.       *)
MCFilesLong == [MCFiles EXCEPT ![F3].long = TRUE]

(* A commit with both /etc and /usr/etc: the root T5 has etc -> T4 too.   *)
T5 == <<"b2", "t5">>

MCTreesEtc ==
  MCTrees @@ T5 :> [files |-> <<<<"a", F1>>>>,
                    dirs |-> <<<<"etc", T4, M1>>, <<"usr", T1, M0>>>>]

(* Modes: F1 0o100755, F2 setuid 0o104755, F3 and F4 0o120777; M0 0o40755, *)
(* M1 sticky 0o41777.                                                      *)
MCDirMode == M0 :> 16877 @@ M1 :> 17407

MCXattrsDigest == "XS" :> <<"a1", "5e">> @@ "XE" :> <<"e3", "b0">>

MCShardDirs == <<"a1", "b2", "c0", "e3">>

MCBrokenChoices == {{}, {F3}}

(* Every single file object load_file may fail on.                        *)
MCBrokenAny == {{}} \cup {{f} : f \in {F1, F2, F3, F4}}

=============================================================================
