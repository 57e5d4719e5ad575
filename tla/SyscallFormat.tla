---------------------------- MODULE SyscallFormat ----------------------------
(***************************************************************************)
(* libbpfstrace/libbpfstrace.c: the text of an openat, as                   *)
(* format_openat_flags and format_syscall_args put it together in buffers   *)
(* of fixed size.                                                           *)
(*                                                                         *)
(* Data.  Flags are the set of the positions of their bits (arm64); a text  *)
(* is its length, and the flags it names.                                   *)
(***************************************************************************)
EXTENDS Integers, Sequences

(* The arguments of APPEND_FLAG in the order of the calls: bits of the      *)
(* constant, and length of its name.                                        *)
Table ==
  << [bits |-> {6}, name |-> 7],       \* O_CREAT
     [bits |-> {7}, name |-> 6],       \* O_EXCL
     [bits |-> {8}, name |-> 8],       \* O_NOCTTY
     [bits |-> {9}, name |-> 7],       \* O_TRUNC
     [bits |-> {10}, name |-> 8],      \* O_APPEND
     [bits |-> {11}, name |-> 10],     \* O_NONBLOCK
     [bits |-> {12}, name |-> 7],      \* O_DSYNC
     [bits |-> {12, 20}, name |-> 6],  \* O_SYNC, which contains O_DSYNC
     [bits |-> {19}, name |-> 9],      \* O_CLOEXEC
     [bits |-> {14}, name |-> 11],     \* O_DIRECTORY
     [bits |-> {15}, name |-> 10] >>   \* O_NOFOLLOW

O_SYNC == {12, 20}
O_ACCMODE == {0, 1}
Bits == O_ACCMODE \cup UNION {Table[i].bits : i \in DOMAIN Table}

(* Mutant: flagbuf is a little too small.                                   *)
FlagBuf_100 == 100
FlagBuf == 256
CallBuf == 512

(* Mutant: O_WRONLY is tested as a bit.                                     *)
Access_bit(f) == IF 0 \in f THEN {0} ELSE f \cap O_ACCMODE

(* flags & O_ACCMODE, compared with O_RDONLY, O_WRONLY, O_RDWR.             *)
Access(f) == f \cap O_ACCMODE

(* O_RDONLY, O_WRONLY, O_RDWR, and 0x3 for what is none of them.            *)
AccessText(a) == IF a = O_ACCMODE THEN 3 ELSE IF a = {1} THEN 6 ELSE 8

(* if (flags & f) off += snprintf(buf + off, sz - off, "|%s", #f): one      *)
(* common bit is enough.  The result is the length the text has uncut.      *)
APPEND_FLAG(r, flags, f) ==
  IF flags \cap f.bits = {} THEN r
  ELSE [off |-> r.off + 1 + f.name, named |-> r.named \cup f.bits]

(* off and the flags named, after the first n calls of the table.           *)
Appended(flags) ==
  LET a[n \in 0..Len(Table)] ==
        IF n = 0 THEN [off |-> AccessText(Access(flags)), named |-> Access(flags)]
        ELSE APPEND_FLAG(a[n - 1], flags, Table[n])
  IN a

format_openat_flags(flags) == Appended(flags)[Len(Table)]

(* The length of the call: name and literal text, the longest numbers, the  *)
(* path of str_len bytes with its '\0', or else its pointer, and the flags. *)
OpenatLength(captured, str_len, off) ==
  20 + 23 + off + IF captured THEN 40 + str_len - 1 ELSE 38 + 18
=============================================================================
