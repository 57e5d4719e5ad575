---------------------------- MODULE StraceCapture ----------------------------
(***************************************************************************)
(* What libbpfstrace prints of the memory a system call points to: from     *)
(* maybe_capture_string and maybe_capture_sockaddr at the entry of the call *)
(* (libbpfstrace.bpf.c), through the record, to arg_string and              *)
(* format_sockaddr in user space (libbpfstrace.c).  One call is followed;   *)
(* the other threads of the process may rewrite the memory meanwhile.       *)
(*                                                                         *)
(* Data.  An object is what an argument points to.  Its version tells what  *)
(* was in it when it was read, so "port and address of the first version of *)
(* the object of args[1]" is <<1, 0>>.                                      *)
(***************************************************************************)
EXTENDS SyscallFormat, FiniteSetsExt

CONSTANTS
  MaxWrites,   \* bound on the rewrites by other threads
  Texts,       \* sizes of a string with its '\0'; 0: unreadable
  Lengths,     \* values of a length argument, an unsigned long long
  Rooms,       \* readable bytes at a pointer
  Families,    \* values of the first two bytes of an address
  Flags        \* flags of openat, as the positions of their bits

ASSUME CaptureAssumption ==
  /\ MaxWrites \in Nat
  /\ Texts \subseteq Nat /\ Lengths \subseteq Nat /\ Rooms \subseteq Nat
  /\ Families \subseteq Nat /\ Flags \subseteq SUBSET Nat

AF_UNSPEC == 0
AF_INET == 2
AF_INET6 == 10

SYSCALL_STR_LEN == 256
SizeFamily == 2                                  \* sizeof(family)
SizeOf(f) == IF f = AF_INET THEN 16 ELSE 28      \* sockaddr_in, sockaddr_in6

PathCalls == {"openat", "openat2", "execve"}
AddrCalls == {"connect", "bind", "sendto"}
Calls == PathCalls \cup AddrCalls \cup {"other"}

(* Where the kernel's interface has the path, the address and its length.   *)
PathArg(n) == IF n = "execve" THEN 0 ELSE 1
AddrArg(n) == IF n = "sendto" THEN 4 ELSE 1
AddrLenArg(n) == IF n = "sendto" THEN 5 ELSE 2

VARIABLES
  nr,      \* the system call
  set,     \* which of the pointer arguments 0, 1, 4 are not NULL
  lens,    \* lens[i]: the value of args[i], for the lengths 2 and 5
  text,    \* text[i]: size of the string args[i] points to; 0: unreadable
  flags,   \* the flags of openat
  room,    \* room[i]: readable bytes at args[i]
  fam,     \* fam[i]: the family stored at args[i] at this moment
  ver,     \* ver[i]: how often that memory was rewritten
  pc,      \* the next step
  s,       \* struct enter_state, later the record
  famver,  \* history: the version the family was read from
  touched, \* history: most bytes asked for through the address pointer
  out,     \* what is printed for the path and for the address
  open     \* what is printed for the flags of openat, and the length of it all

call == <<nr, set, lens, text, flags, room>>
vars == <<call, fam, ver, pc, s, famver, touched, out, open>>

Pointers == {0, 1, 4}
Nothing == <<"nothing">>
NoOpen == [off |-> 0, named |-> {}, length |-> 0]

Empty == [str_len |-> 0, sa_family |-> 0, sa_addr |-> Nothing, sa_valid |-> FALSE]

(* The pointer arguments the programs might follow.                         *)
Followed(n) ==
  CASE n \in PathCalls -> {0, 1} [] n = "sendto" -> {1, 4}
    [] n \in {"connect", "bind"} -> {1} [] OTHER -> {}

(* Any values of S at the arguments I, the value d at the others.           *)
Free(I, D, S, d) == {f \in [D -> S \cup {d}] : \A i \in D \ I : f[i] = d}

(* A call is entered.  Inputs without a role for it have a fixed value.     *)
Init ==
  /\ nr \in Calls
  /\ set \in SUBSET Followed(nr)
  /\ lens \in Free(IF nr \in AddrCalls THEN {2, AddrLenArg(nr)} ELSE {},
                   {2, 5}, Lengths, 1)
  /\ text \in Free(IF nr \in PathCalls THEN Followed(nr) ELSE {}, Pointers, Texts, 2)
  /\ flags \in IF nr = "openat" THEN Flags ELSE {{}}
  /\ room \in Free(IF nr \in AddrCalls THEN Followed(nr) ELSE {}, Pointers, Rooms, 28)
  /\ fam \in Free(IF nr \in AddrCalls THEN Followed(nr) ELSE {}, Pointers, Families, AF_UNSPEC)
  /\ ver = [i \in Pointers |-> 0]
  /\ pc = "string" /\ s = Empty
  /\ famver = 0 /\ touched = 0 /\ out = [path |-> Nothing, addr |-> Nothing]
  /\ open = NoOpen
-----------------------------------------------------------------------------
(***************************************************************************)
(* handle_sys_enter.                                                        *)
(***************************************************************************)

(* Mutant: the size of the buffer is not passed to the read.                *)
Copied_uncut(n) == n

(* bpf_probe_read_user_str returns the bytes copied, the '\0' included, or  *)
(* a negative number, for which str_len stays 0; a longer string is cut.    *)
Copied(n) == Min({n, SYSCALL_STR_LEN})

maybe_capture_string ==
  LET p == IF nr = "execve" THEN 0 ELSE 1 IN
  /\ pc = "string"
  /\ s' = IF nr \in PathCalls /\ p \in set THEN [s EXCEPT !.str_len = Copied(text[p])] ELSE s
  /\ pc' = "family"
  /\ UNCHANGED <<call, fam, ver, famver, touched, out, open>>

(* The two variables of maybe_capture_sockaddr that depend on the call.     *)
uaddr == 1
len == IF nr = "sendto" THEN lens[5] ELSE lens[2]

(* bpf_probe_read_user(_, n, uaddr) succeeds.                               *)
Readable(n) == n <= room[uaddr]

(* Mutants: the length is not compared; a length of exactly the size is     *)
(* refused.                                                                 *)
Enough_any(size) == TRUE
Enough_more(size) == len > size
Enough(size) == len >= size

(* maybe_capture_sockaddr up to the first read, of the family.              *)
capture_family ==
  LET ok == /\ nr \in AddrCalls /\ uaddr \in set
            /\ Enough(SizeFamily) /\ Readable(SizeFamily) IN
  /\ pc = "family"
  /\ \/ /\ ok
        /\ s' = [s EXCEPT !.sa_family = fam[uaddr]]
        /\ famver' = ver[uaddr] /\ touched' = SizeFamily
        /\ pc' = "struct"
     \/ /\ ~ok
        /\ pc' = "exit"
        /\ UNCHANGED <<s, famver, touched>>
  /\ UNCHANGED <<call, fam, ver, out, open>>

(* Mutant: every other family is read as IPv6.                              *)
Parsed_any(f) == TRUE
Parsed(f) == f \in {AF_INET, AF_INET6}

(* The second read, of the structure of the family read before; the family  *)
(* inside the structure is not looked at.                                   *)
capture_struct ==
  LET f == s.sa_family
      try == Parsed(f) /\ Enough(SizeOf(f))
  IN
  /\ pc = "struct"
  /\ touched' = IF try THEN SizeOf(f) ELSE touched
  /\ s' = IF try /\ Readable(SizeOf(f))
          THEN [s EXCEPT !.sa_addr = <<uaddr, ver[uaddr]>>, !.sa_valid = TRUE] ELSE s
  /\ pc' = "exit"
  /\ UNCHANGED <<call, fam, ver, famver, out, open>>

(* Another thread of the process writes an address over the object.         *)
Rewrite(i) ==
  /\ pc # "done"
  /\ ver[i] < MaxWrites
  /\ \E f \in Families : fam' = [fam EXCEPT ![i] = f]
  /\ ver' = [ver EXCEPT ![i] = @ + 1]
  /\ UNCHANGED <<call, pc, s, famver, touched, out, open>>
-----------------------------------------------------------------------------
(***************************************************************************)
(* User space, once handle_sys_exit has copied s into the record.           *)
(***************************************************************************)

(* Mutant: a string that fills the buffer is refused.                       *)
arg_string_below(e) == e.str_len > 0 /\ e.str_len < SYSCALL_STR_LEN

arg_string(e) == e.str_len > 0 /\ e.str_len <= SYSCALL_STR_LEN

format_sockaddr(e) ==
  CASE ~e.sa_valid -> << >>      \* "NULL"
    [] e.sa_valid /\ e.sa_family \in {AF_INET, AF_INET6} ->
         <<e.sa_family, e.sa_addr[1], e.sa_addr[2]>>
    [] OTHER -> <<e.sa_family>>

(* handle_event, as far as path, address and flags go: a path that was not  *)
(* captured is printed as the pointer.                                      *)
format_syscall_args ==
  /\ pc = "exit"
  /\ out' = [path |-> IF nr \notin PathCalls THEN Nothing
                      ELSE IF arg_string(s) THEN <<"text">> ELSE <<"pointer">>,
             addr |-> IF nr \in AddrCalls THEN format_sockaddr(s) ELSE Nothing]
  /\ LET f == format_openat_flags(flags) IN
     open' = IF nr # "openat" THEN open
             ELSE [off |-> f.off, named |-> f.named,
                   length |-> OpenatLength(arg_string(s), s.str_len, f.off)]
  /\ pc' = "done"
  /\ UNCHANGED <<call, fam, ver, s, famver, touched>>

Next ==
  \/ maybe_capture_string \/ capture_family \/ capture_struct
  \/ format_syscall_args
  \/ \E i \in set : Rewrite(i)

Spec == Init /\ [][Next]_vars
-----------------------------------------------------------------------------
(* Every variable that changes has its type.                                *)
TypeOK ==
  /\ fam \in [Pointers -> Families \cup {AF_UNSPEC}] /\ ver \in [Pointers -> 0..MaxWrites]
  /\ pc \in {"string", "family", "struct", "exit", "done"}
  /\ s.str_len \in 0..SYSCALL_STR_LEN /\ s.sa_family \in Families \cup {AF_UNSPEC}
  /\ s.sa_valid \in BOOLEAN
  /\ famver \in 0..MaxWrites /\ touched \in {0, 2, 16, 28}

(* openat, openat2 and execve print the text exactly when the path argument *)
(* of the call is readable, the empty path and the cut one included.        *)
ReadablePathPrinted ==
  pc = "done" /\ nr \in PathCalls =>
    (out.path = <<"text">> <=> PathArg(nr) \in set /\ text[PathArg(nr)] > 0)

(* maybe_capture_sockaddr never asks for more bytes than the address length *)
(* the caller passed, wherever the call has that length.                    *)
ReadWithinLength ==
  touched > 0 => nr \in AddrCalls /\ touched <= lens[AddrLenArg(nr)]

(* With the memory left alone, connect and bind print exactly the addresses *)
(* that are complete: of a family the tool knows, as long as its structure, *)
(* and readable.                                                            *)
ConnectBindComplete ==
  pc = "done" /\ nr \in {"connect", "bind"} /\ ver[1] = 0 =>
    (out.addr = <<fam[1], 1, 0>> <=>
       /\ 1 \in set /\ fam[1] \in {AF_INET, AF_INET6}
       /\ SizeOf(fam[1]) <= Min({lens[2], room[1]}))

(* An address is printed as NULL or whole: with a known family, never the   *)
(* zeroes s starts with, and with family, port and address of one moment.   *)
(* Only a thread that rewrites the memory after the family was read can mix *)
(* the family of one address with the port of another.                      *)
NoHalfAddress ==
  pc = "done" /\ nr \in AddrCalls /\ out.addr # << >> =>
    /\ Head(out.addr) \in {AF_INET, AF_INET6} /\ Len(out.addr) = 3
    /\ ver[out.addr[2]] = famver =>
         Head(out.addr) = fam[out.addr[2]] /\ out.addr[3] = famver

(* For the longest path the programs capture, the longest numbers and any   *)
(* flags, the text of the flags fits into flagbuf, so sz - off never wraps  *)
(* around, and the call into callbuf, so nothing after the path is lost.    *)
TextFits == open.off < FlagBuf /\ open.length < CallBuf

(* The names printed stand for exactly the flags of the call that have a    *)
(* name, with one exception: either bit of O_SYNC alone prints O_SYNC.      *)
FlagsReadBack ==
  pc = "done" /\ nr = "openat" =>
    open.named = (flags \cap Bits) \cup IF flags \cap O_SYNC = {} THEN {} ELSE O_SYNC

(* What is printed as the address of a call, dest_addr of sendto included,  *)
(* comes from the address argument of the call.                             *)
AddressOfAddressArgument ==
  pc = "done" /\ nr \in AddrCalls /\ out.addr # << >> =>
    out.addr[2] = AddrArg(nr)
=============================================================================
