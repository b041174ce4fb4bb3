-------------------------------- MODULE Roots --------------------------------
(***************************************************************************)
(* The regions of the filesystem (enum aidr_root of mon_files.bpf.c), by   *)
(* the first component of a path.                                          *)
(***************************************************************************)

\* root_of: the whole first component decides, so /homework is not HOME.
RootOf(c) ==
    CASE c \in {"home", "root"} -> "HOME"
      [] c \in {"usr", "bin", "sbin", "lib", "lib64"} -> "USR"
      [] c \in {"var", "run"} -> "VAR"
      [] c \in {"mnt", "media"} -> "MNT"
      [] c = "etc" -> "ETC"
      [] c = "tmp" -> "TMP"
      [] c = "proc" -> "PROC"
      [] c = "sys" -> "SYS"
      [] OTHER -> "OTHER"
=============================================================================
