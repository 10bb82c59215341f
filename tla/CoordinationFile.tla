-------------------------- MODULE CoordinationFile --------------------------
(***************************************************************************)
(* The coordination file /dev/shm/switch_file, through which a program     *)
(* under test tells the controllers what to do.  Two writers exist, both   *)
(* called write_coordination_file and neither atomic:                      *)
(*                                                                         *)
(*  - the mapping writer (the epoll_wait, fstat, read and readlink demos)  *)
(*    resizes the file with ftruncate and then copies the data into a      *)
(*    mapping of it; a failure after shm_open unlinks the file;            *)
(*  - the truncating writer (the accept demo) opens the file with O_TRUNC  *)
(*    and then calls write.                                                *)
(*                                                                         *)
(* A content is an atom: the text a reader gets after strip().             *)
(***************************************************************************)

Zero   == "0"          \* what a test writes when its window is over
Empty  == ""           \* a file just created, or opened with O_TRUNC
Torn   == "<torn>"     \* resized but not copied: text no reader compares equal
Absent == "<absent>"   \* unlinked: open() raises FileNotFoundError

(* One command of the demos begins with another one.                        *)
BeginsWith(old, data) ==
  old = "iago_attack_readlink" /\ data = "iago_attack_read"

(* ftruncate to the length of data leaves the old text cut or padded with   *)
(* NUL bytes, which strip() keeps: it reads as data only if it was data or  *)
(* began with it.                                                           *)
Resized(old, data) ==
  IF old = data \/ BeginsWith(old, data) THEN data ELSE Torn

(* ftruncate or mmap failed: the error paths close and shm_unlink the file. *)
AfterFailedMap == Absent
=============================================================================
