------------------------- MODULE StraceCaptureProofs -------------------------
(***************************************************************************)
(* The properties of StraceCapture hold for strings, lengths and readable   *)
(* memory of any size, any families, any flags and any number of rewrites   *)
(* by other threads.                                                        *)
(***************************************************************************)
EXTENDS StraceCapture, WellFoundedInduction, TLAPS

(***************************************************************************)
(* format_openat_flags.                                                     *)
(***************************************************************************)

(* Induction up to N, with the predicate as a set.                          *)
LEMMA UpTo ==
  ASSUME NEW N \in Nat, NEW S, 0 \in S, \A n \in 1..N : n - 1 \in S => n \in S
  PROVE  0..N \subseteq S
<1> DEFINE T == (0..N) \ S
           Less == {p \in Nat \X Nat : p[1] < p[2]}
<1> SUFFICES ASSUME T # {} PROVE FALSE
  OBVIOUS
<1>1. IsWellFoundedOn(Less, Nat)
  BY NatLessThanWellFounded DEF OpToRel
<1>2. PICK n \in T : \A m \in T : <<m, n>> \notin Less
  <2>1. T \subseteq Nat
    OBVIOUS
  <2> HIDE DEF T, Less
  <2> QED
    BY <1>1, <2>1, WFMin
<1>3. n \in 1..N /\ n - 1 \in T
  OBVIOUS
<1>4. <<n - 1, n>> \in Less
  BY <1>3
<1> QED
  BY <1>2, <1>3, <1>4

(* What APPEND_FLAG makes of the text before it, and of the first text.     *)
Start(f) == [off |-> AccessText(Access(f)), named |-> Access(f)]
Appends(a, f, n) ==
  a = [i \in 0..n |-> IF i = 0 THEN Start(f) ELSE APPEND_FLAG(a[i - 1], f, Table[i])]

(* The table of format_openat_flags has eleven rows.                        *)
LEMMA TableLen == Len(Table) = 11
BY DEF Table

(* The recursion of Appended has a solution: one more call appends to it.   *)
LEMMA AppendedDef == ASSUME NEW f PROVE Appends(Appended(f), f, 11)
<1> DEFINE S == {n \in 0..11 : \E a : Appends(a, f, n)}
<1>1. 0 \in S
  <2>1. Appends([i \in 0..0 |-> Start(f)], f, 0)
    BY DEF Appends
  <2> QED
    BY <2>1
<1>2. ASSUME NEW n \in 1..11, n - 1 \in S PROVE n \in S
  <2>1. PICK a : Appends(a, f, n - 1)
    BY <1>2
  <2> DEFINE b == [i \in 0..n |-> IF i < n THEN a[i] ELSE APPEND_FLAG(a[n - 1], f, Table[n])]
  <2>2. \A i \in 0..n - 1 : a[i] = IF i = 0 THEN Start(f) ELSE APPEND_FLAG(a[i - 1], f, Table[i])
    <3> HIDE DEF Start, APPEND_FLAG, Table
    <3> QED
      BY <2>1 DEF Appends
  <2>3. \A i \in 0..n : b[i] = IF i = 0 THEN Start(f) ELSE APPEND_FLAG(b[i - 1], f, Table[i])
    BY <2>2
  <2>4. Appends(b, f, n)
    <3> HIDE DEF b
    <3>1. b = [i \in 0..n |-> b[i]]
      BY DEF b
    <3> QED
      BY <2>3, <3>1, SMTT(30) DEF Appends
  <2> QED
    BY <2>4
<1>3. 11 \in S
  <2> HIDE DEF S
  <2> QED
    BY <1>1, <1>2, UpTo
<1>4. \E a : Appends(a, f, 11)
  BY <1>3
<1>5. Appended(f) = CHOOSE a : Appends(a, f, 11)
  BY TableLen DEF Appended, Appends, Start
<1> QED
  BY <1>4, <1>5

(* The table: no name is longer than 11, and only O_SYNC has two bits.      *)
LEMMA TableNames == \A i \in 1..11 : Table[i].name \in 1..11
BY DEF Table

Named(f, x, n) == \E i \in 1..n : x \in Table[i].bits /\ f \cap Table[i].bits # {}

(* The bits that the access mode and the rows name are the bits of the      *)
(* flags, with both bits of O_SYNC when one of them is set.                 *)
LEMMA TableBits ==
  ASSUME NEW f, NEW x
  PROVE  x \in Access(f) \/ Named(f, x, 11)
           <=> x \in (f \cap Bits) \cup IF f \cap O_SYNC = {} THEN {} ELSE O_SYNC
<1>1. Table[1].bits = {6} /\ Table[2].bits = {7} /\ Table[3].bits = {8} /\ Table[4].bits = {9}
  BY DEF Table
<1>2. Table[5].bits = {10} /\ Table[6].bits = {11} /\ Table[7].bits = {12} /\ Table[8].bits = {12, 20}
  BY DEF Table
<1>3. Table[9].bits = {19} /\ Table[10].bits = {14} /\ Table[11].bits = {15}
  BY DEF Table
<1>4. x \in Bits <=> x \in {0, 1} \/ \E i \in 1..11 : x \in Table[i].bits
  BY DEF Bits, O_ACCMODE, Table
<1> DEFINE M(i) == x \in Table[i].bits /\ f \cap Table[i].bits # {}
<1>5. Named(f, x, 11) <=>
        M(1) \/ M(2) \/ M(3) \/ M(4) \/ M(5) \/ M(6) \/ M(7) \/ M(8) \/ M(9) \/ M(10) \/ M(11)
  <2>1. Named(f, x, 11) <=> \E i \in 1..11 : M(i)
    BY DEF Named
  <2> HIDE DEF M
  <2> QED
    BY <2>1
<1>6. \A k : x \in {k} /\ f \cap {k} # {} <=> x = k /\ x \in f
  OBVIOUS
<1>7. Named(f, x, 11) <=> \/ x \in f /\ x \in {6, 7, 8, 9, 10, 11, 12, 19, 14, 15}
                          \/ x \in O_SYNC /\ f \cap O_SYNC # {}
  <2>1. /\ M(1) <=> x = 6 /\ x \in f
        /\ M(2) <=> x = 7 /\ x \in f
        /\ M(3) <=> x = 8 /\ x \in f
        /\ M(4) <=> x = 9 /\ x \in f
    BY <1>1, <1>6
  <2>2. /\ M(5) <=> x = 10 /\ x \in f
        /\ M(6) <=> x = 11 /\ x \in f
        /\ M(7) <=> x = 12 /\ x \in f
        /\ M(8) <=> x \in O_SYNC /\ f \cap O_SYNC # {}
    BY <1>2, <1>6 DEF O_SYNC
  <2>3. /\ M(9) <=> x = 19 /\ x \in f
        /\ M(10) <=> x = 14 /\ x \in f
        /\ M(11) <=> x = 15 /\ x \in f
    BY <1>3, <1>6
  <2> HIDE DEF M
  <2> QED
    BY <1>5, <2>1, <2>2, <2>3
<1>8. x \in Bits <=> x \in {0, 1, 6, 7, 8, 9, 10, 11, 12, 20, 19, 14, 15}
  BY <1>1, <1>2, <1>3, <1>4
<1>9. x \in Access(f) <=> x \in f /\ x \in {0, 1}
  BY DEF Access, O_ACCMODE
<1>10. x \in f /\ x \in O_SYNC => f \cap O_SYNC # {}
  OBVIOUS
<1>11. x \in O_SYNC <=> x = 12 \/ x = 20
  BY DEF O_SYNC
<1>12. x \in (f \cap Bits) \cup (IF f \cap O_SYNC = {} THEN {} ELSE O_SYNC)
         <=> (x \in f /\ x \in Bits) \/ (f \cap O_SYNC # {} /\ x \in O_SYNC)
  OBVIOUS
<1> HIDE DEF M
<1> QED
  BY <1>7, <1>8, <1>9, <1>10, <1>11, <1>12

(* After n calls the text is as long as n of the longest names at most, and *)
(* names what the first n rows of the table match.                          *)
LEMMA FlagText ==
  ASSUME NEW f
  PROVE  /\ format_openat_flags(f).off \in 0..140
         /\ format_openat_flags(f).named =
              (f \cap Bits) \cup IF f \cap O_SYNC = {} THEN {} ELSE O_SYNC
<1> DEFINE a == Appended(f)
           S == {n \in 0..11 :
                   /\ a[n].off \in 0..8 + 12 * n
                   /\ \A x : x \in a[n].named <=> x \in Access(f) \/ Named(f, x, n)}
<1>1. a[0] = Start(f)
  BY AppendedDef DEF Appends
<1>2. \A n \in 1..11 : a[n] = APPEND_FLAG(a[n - 1], f, Table[n])
  <2> HIDE DEF a
  <2>1. Appends(a, f, 11)
    BY AppendedDef DEF a
  <2> QED
    BY <2>1 DEF Appends
<1> HIDE DEF a
<1>3. 0 \in S
  BY <1>1 DEF Start, AccessText, Named
<1>4. ASSUME NEW n \in 1..11, n - 1 \in S PROVE n \in S
  <2>1. /\ a[n - 1].off \in 0..8 + 12 * (n - 1)
        /\ \A x : x \in a[n - 1].named <=> x \in Access(f) \/ Named(f, x, n - 1)
    BY <1>4
  <2>2. \A x : Named(f, x, n) <=> Named(f, x, n - 1) \/ (x \in Table[n].bits /\ f \cap Table[n].bits # {})
    BY DEF Named
  <2>3. CASE f \cap Table[n].bits = {}
    <3>1. a[n] = a[n - 1]
      BY <1>2, <2>3 DEF APPEND_FLAG
    <3> QED
      BY <2>1, <2>2, <2>3, <3>1
  <2>4. CASE f \cap Table[n].bits # {}
    <3>1. /\ a[n].off = a[n - 1].off + 1 + Table[n].name
          /\ a[n].named = a[n - 1].named \cup Table[n].bits
      BY <1>2, <2>4, SMTT(30) DEF APPEND_FLAG
    <3>2. a[n].off \in 0..8 + 12 * n
      BY <2>1, <3>1, TableNames
    <3>3. \A x : x \in a[n].named <=> x \in Access(f) \/ Named(f, x, n)
      BY <2>1, <2>2, <2>4, <3>1
    <3> QED
      BY <3>2, <3>3
  <2> QED
    BY <2>3, <2>4
<1>5. 11 \in S
  <2> HIDE DEF S
  <2> QED
    BY <1>3, <1>4, UpTo
<1>6. /\ a[11].off \in 0..140
      /\ \A x : x \in a[11].named <=> x \in Access(f) \/ Named(f, x, 11)
  BY <1>5
<1>7. format_openat_flags(f) = a[11]
  BY TableLen DEF format_openat_flags, a
<1>8. a[11].named = (f \cap Bits) \cup IF f \cap O_SYNC = {} THEN {} ELSE O_SYNC
  BY <1>6, TableBits
<1> QED
  BY <1>6, <1>7, <1>8
-----------------------------------------------------------------------------
(***************************************************************************)
(* The inductive invariant.                                                 *)
(***************************************************************************)

(* The inputs of the call, which no step changes.                           *)
CallOK ==
  /\ nr \in Calls
  /\ lens \in [{2, 5} -> Nat] /\ text \in [Pointers -> Nat] /\ room \in [Pointers -> Nat]

Captures ==
  [str_len : 0..SYSCALL_STR_LEN, sa_family : Families \cup {AF_UNSPEC},
   sa_addr : {Nothing} \cup ({uaddr} \X Nat), sa_valid : BOOLEAN]

(* Once maybe_capture_string has run, the length is that of the path.       *)
PathCaptured ==
  s.str_len = IF pc # "string" /\ nr \in PathCalls /\ PathArg(nr) \in set
              THEN Copied(text[PathArg(nr)]) ELSE 0

(* Between the two reads the family is known, and the memory may have       *)
(* changed only when its version has.                                       *)
FamilyRead ==
  /\ famver <= ver[uaddr]
  /\ pc \in {"string", "family"} => touched = 0 /\ ~s.sa_valid
  /\ pc = "struct" =>
       /\ nr \in AddrCalls /\ uaddr \in set /\ ~s.sa_valid
       /\ touched = SizeFamily /\ Enough(SizeFamily) /\ Readable(SizeFamily)
       /\ famver = ver[uaddr] => s.sa_family = fam[uaddr]

(* The memory holds an address of a known family that the length covers.    *)
Complete ==
  /\ uaddr \in set /\ Parsed(fam[uaddr])
  /\ Enough(SizeOf(fam[uaddr])) /\ Readable(SizeOf(fam[uaddr]))

(* What sa_valid stands for, with memory that is rewritten and without.     *)
AddressCaptured ==
  /\ s.sa_valid => /\ Parsed(s.sa_family)
                   /\ s.sa_addr \in {uaddr} \X Nat
                   /\ famver <= s.sa_addr[2] /\ s.sa_addr[2] <= ver[uaddr]
                   /\ famver = ver[uaddr] => s.sa_family = fam[uaddr]
  /\ pc \in {"exit", "done"} /\ nr \in AddrCalls /\ ver[uaddr] = 0 =>
       /\ s.sa_valid <=> Complete
       /\ s.sa_valid => s.sa_family = fam[uaddr]

(* What is printed is the formatted record.                                 *)
Formatted ==
  /\ pc # "done" => open = NoOpen
  /\ pc = "done" =>
       /\ out.path = IF nr \notin PathCalls THEN Nothing
                     ELSE IF arg_string(s) THEN <<"text">> ELSE <<"pointer">>
       /\ out.addr = IF nr \in AddrCalls THEN format_sockaddr(s) ELSE Nothing
       /\ open = IF nr # "openat" THEN NoOpen
                 ELSE LET f == format_openat_flags(flags) IN
                      [off |-> f.off, named |-> f.named,
                       length |-> OpenatLength(arg_string(s), s.str_len, f.off)]

CaptureInv ==
  /\ TypeOK /\ CallOK /\ s \in Captures /\ ReadWithinLength
  /\ PathCaptured /\ FamilyRead /\ AddressCaptured /\ Formatted

(* A string is cut at the size of the buffer.                               *)
LEMMA CopiedCut ==
  ASSUME NEW n \in Nat
  PROVE  Copied(n) \in 0..SYSCALL_STR_LEN /\ (Copied(n) > 0 <=> n > 0)
<1>1. Copied(n) = IF n <= SYSCALL_STR_LEN THEN n ELSE SYSCALL_STR_LEN
  BY DEF Copied, Min, SYSCALL_STR_LEN
<1> QED
  BY <1>1 DEF SYSCALL_STR_LEN

(* Nothing is captured when the call is entered.                            *)
LEMMA CaptureInit == Init => CaptureInv
<1> SUFFICES ASSUME Init PROVE CaptureInv
  OBVIOUS
<1>1. CallOK
  <2>1. lens \in [{2, 5} -> Lengths \cup {1}] /\ text \in [Pointers -> Texts \cup {2}]
        /\ room \in [Pointers -> Rooms \cup {28}] /\ nr \in Calls
    BY DEF Init, Free
  <2>2. Lengths \cup {1} \subseteq Nat /\ Texts \cup {2} \subseteq Nat /\ Rooms \cup {28} \subseteq Nat
    BY CaptureAssumption
  <2> QED
    BY <2>1, <2>2, Zenon DEF CallOK
<1>2. TypeOK
  <2>1. fam \in [Pointers -> Families \cup {AF_UNSPEC}]
    BY DEF Init, Free
  <2>2. ver \in [Pointers -> 0..MaxWrites] /\ famver \in 0..MaxWrites /\ touched \in {0, 2, 16, 28}
    BY CaptureAssumption DEF Init
  <2>3. pc = "string" /\ s.str_len = 0 /\ s.sa_family = AF_UNSPEC /\ s.sa_valid = FALSE
    BY DEF Init, Empty, AF_UNSPEC
  <2>4. s.str_len \in 0..SYSCALL_STR_LEN
    BY <2>3 DEF SYSCALL_STR_LEN
  <2> QED
    BY <2>1, <2>2, <2>3, <2>4, Zenon DEF TypeOK
<1>3. s \in Captures
  <2>1. 0 \in 0..SYSCALL_STR_LEN
    BY DEF SYSCALL_STR_LEN
  <2> QED
    BY <2>1, Zenon DEF Init, Empty, Captures, AF_UNSPEC
<1>4. ReadWithinLength /\ PathCaptured
  BY DEF Init, ReadWithinLength, PathCaptured, Empty
<1>5. FamilyRead /\ AddressCaptured /\ Formatted
  BY DEF Init, FamilyRead, AddressCaptured, Formatted, Empty, uaddr, Pointers
<1> QED
  BY <1>1, <1>2, <1>3, <1>4, <1>5 DEF CaptureInv

(* The first step sets str_len and nothing else.                            *)
LEMMA StringStep == CaptureInv /\ maybe_capture_string => CaptureInv'
<1> SUFFICES ASSUME CaptureInv, maybe_capture_string PROVE CaptureInv'
  OBVIOUS
<1>1. /\ TypeOK /\ CallOK /\ s \in Captures /\ ReadWithinLength
      /\ PathCaptured /\ FamilyRead /\ AddressCaptured /\ Formatted
  BY DEF CaptureInv
<1>2. /\ pc = "string" /\ pc' = "family"
      /\ UNCHANGED <<nr, set, lens, text, flags, room, fam, ver, famver, touched, out, open>>
  BY DEF maybe_capture_string, call
<1>3. PathArg(nr) \in Pointers
  BY DEF PathArg, Pointers
<1>4. Copied(text[PathArg(nr)]) \in 0..SYSCALL_STR_LEN
  BY <1>1, <1>3, CopiedCut DEF CallOK
<1>5. /\ s' \in Captures
      /\ s'.sa_family = s.sa_family /\ s'.sa_addr = s.sa_addr /\ s'.sa_valid = s.sa_valid
      /\ s'.str_len \in 0..SYSCALL_STR_LEN
  BY <1>1, <1>4 DEF maybe_capture_string, Captures, PathArg
<1>6. PathCaptured'
  <2>1. s.str_len = 0
    BY <1>1, <1>2 DEF PathCaptured
  <2>2. s'.str_len = IF nr \in PathCalls /\ PathArg(nr) \in set
                     THEN Copied(text[PathArg(nr)]) ELSE s.str_len
    BY <1>1 DEF maybe_capture_string, PathArg, Captures
  <2> QED
    BY <1>2, <2>1, <2>2 DEF PathCaptured
<1>7. TypeOK' /\ CallOK' /\ ReadWithinLength'
  BY <1>1, <1>2, <1>5 DEF TypeOK, CallOK, ReadWithinLength
<1>8. FamilyRead' /\ AddressCaptured' /\ Formatted'
  BY <1>1, <1>2, <1>5 DEF FamilyRead, AddressCaptured, Formatted, uaddr
<1> QED
  BY <1>5, <1>6, <1>7, <1>8 DEF CaptureInv

(* The family is read, or the call has no address to read.                  *)
LEMMA FamilyStep == CaptureInv /\ capture_family => CaptureInv'
<1> SUFFICES ASSUME CaptureInv, capture_family PROVE CaptureInv'
  OBVIOUS
<1>1. /\ TypeOK /\ CallOK /\ s \in Captures /\ ReadWithinLength
      /\ PathCaptured /\ FamilyRead /\ AddressCaptured /\ Formatted
  BY DEF CaptureInv
<1>2. /\ pc = "family"
      /\ UNCHANGED <<nr, set, lens, text, flags, room, fam, ver, out, open>>
  BY DEF capture_family, call
<1>3. uaddr \in Pointers /\ ver[uaddr] \in 0..MaxWrites /\ room[uaddr] \in Nat
      /\ fam[uaddr] \in Families \cup {AF_UNSPEC} /\ ~s.sa_valid /\ touched = 0
  BY <1>1, <1>2 DEF uaddr, Pointers, TypeOK, CallOK, FamilyRead
<1>4. len \in Nat /\ (nr \in AddrCalls => len = lens[AddrLenArg(nr)])
  BY <1>1 DEF len, CallOK, AddrLenArg, AddrCalls
<1> DEFINE ok == /\ nr \in AddrCalls /\ uaddr \in set
                 /\ Enough(SizeFamily) /\ Readable(SizeFamily)
<1>5. CASE ok
  <2>1. /\ s' = [s EXCEPT !.sa_family = fam[uaddr]] /\ famver' = ver[uaddr]
        /\ touched' = SizeFamily /\ pc' = "struct"
    BY <1>5 DEF capture_family
  <2>2. /\ s' \in Captures /\ s'.sa_family = fam[uaddr] /\ s'.sa_addr = s.sa_addr
        /\ s'.sa_valid = s.sa_valid /\ s'.str_len = s.str_len
    BY <1>1, <1>3, <2>1 DEF Captures
  <2>3. TypeOK'
    BY <1>1, <1>2, <1>3, <2>1, <2>2 DEF TypeOK, SizeFamily
  <2>4. ReadWithinLength'
    BY <1>2, <1>4, <1>5, <2>1 DEF ReadWithinLength, Enough, SizeFamily
  <2>5. PathCaptured' /\ Formatted' /\ CallOK'
    BY <1>1, <1>2, <2>1, <2>2 DEF PathCaptured, Formatted, CallOK
  <2>6. FamilyRead'
    BY <1>2, <1>3, <1>5, <2>1, <2>2 DEF FamilyRead, Enough, Readable, len, uaddr
  <2>7. AddressCaptured'
    BY <1>3, <2>1, <2>2 DEF AddressCaptured
  <2> QED
    BY <2>2, <2>3, <2>4, <2>5, <2>6, <2>7 DEF CaptureInv
<1>6. CASE ~ok
  <2>1. pc' = "exit" /\ s' = s /\ famver' = famver /\ touched' = touched
    BY <1>6 DEF capture_family
  <2>2. TypeOK' /\ CallOK' /\ ReadWithinLength' /\ PathCaptured' /\ Formatted'
    BY <1>1, <1>2, <2>1 DEF TypeOK, CallOK, ReadWithinLength, PathCaptured, Formatted
  <2>3. FamilyRead'
    BY <1>1, <1>2, <2>1 DEF FamilyRead, uaddr
  <2>4. nr \in AddrCalls => ~Complete
    BY <1>3, <1>4, <1>6 DEF Complete, Enough, Readable, SizeOf, SizeFamily
  <2>5. AddressCaptured'
    BY <1>2, <1>3, <2>1, <2>4 DEF AddressCaptured, Complete, Enough, Readable, len, uaddr
  <2> QED
    BY <1>1, <2>1, <2>2, <2>3, <2>5 DEF CaptureInv
<1> QED
  BY <1>5, <1>6

(* The structure of the family read before is read.                         *)
LEMMA StructStep == CaptureInv /\ capture_struct => CaptureInv'
<1> SUFFICES ASSUME CaptureInv, capture_struct PROVE CaptureInv'
  OBVIOUS
<1>1. /\ TypeOK /\ CallOK /\ s \in Captures /\ ReadWithinLength
      /\ PathCaptured /\ FamilyRead /\ AddressCaptured /\ Formatted
  BY DEF CaptureInv
<1>2. /\ pc = "struct" /\ pc' = "exit"
      /\ UNCHANGED <<nr, set, lens, text, flags, room, fam, ver, famver, out, open>>
  BY DEF capture_struct, call
<1>3. /\ uaddr \in Pointers /\ ver[uaddr] \in 0..MaxWrites /\ famver \in 0..MaxWrites
      /\ room[uaddr] \in Nat /\ touched = SizeFamily
      /\ nr \in AddrCalls /\ uaddr \in set /\ ~s.sa_valid /\ famver <= ver[uaddr]
  BY <1>1, <1>2 DEF uaddr, Pointers, TypeOK, CallOK, FamilyRead
<1>4. len \in Nat /\ len = lens[AddrLenArg(nr)]
  BY <1>1, <1>3 DEF len, CallOK, AddrLenArg, AddrCalls
<1> DEFINE try == Parsed(s.sa_family) /\ Enough(SizeOf(s.sa_family))
           got == try /\ Readable(SizeOf(s.sa_family))
<1>5. /\ touched' = IF try THEN SizeOf(s.sa_family) ELSE touched
      /\ s' = IF got THEN [s EXCEPT !.sa_addr = <<uaddr, ver[uaddr]>>, !.sa_valid = TRUE] ELSE s
  BY DEF capture_struct
<1>6. TypeOK' /\ ReadWithinLength'
  <2>1. touched' \in {0, 2, 16, 28} /\ touched' <= len
    BY <1>1, <1>2, <1>3, <1>4, <1>5 DEF SizeOf, SizeFamily, Enough, FamilyRead
  <2>2. s'.str_len = s.str_len /\ s'.sa_family = s.sa_family /\ s'.sa_valid \in BOOLEAN
    BY <1>1, <1>5 DEF Captures
  <2> QED
    BY <1>1, <1>2, <1>3, <1>4, <2>1, <2>2 DEF TypeOK, ReadWithinLength
<1>7. s' \in Captures /\ s'.str_len = s.str_len /\ s'.sa_family = s.sa_family
  <2>1. <<uaddr, ver[uaddr]>> \in {Nothing} \cup ({uaddr} \X Nat)
    BY <1>3
  <2> QED
    BY <1>1, <1>5, <2>1 DEF Captures
<1>8. got => s'.sa_addr = <<uaddr, ver[uaddr]>> /\ s'.sa_valid
  BY <1>1, <1>5 DEF Captures
<1>9. PathCaptured' /\ Formatted' /\ CallOK' /\ FamilyRead'
  BY <1>1, <1>2, <1>3, <1>7 DEF PathCaptured, Formatted, CallOK, FamilyRead, uaddr
<1>10. AddressCaptured'
  <2>1. s'.sa_valid <=> got
    BY <1>3, <1>5, <1>8
  <2>2. ver[uaddr] = 0 => s.sa_family = fam[uaddr]
    BY <1>1, <1>2, <1>3 DEF FamilyRead
  <2>3. ver[uaddr] = 0 => (got <=> Complete)
    BY <1>3, <2>2 DEF Complete
  <2>4. Complete' <=> Complete
    BY <1>2 DEF Complete, Enough, Readable, len, uaddr
  <2>5. s'.sa_valid => /\ Parsed(s'.sa_family)
                       /\ s'.sa_addr \in {uaddr} \X Nat
                       /\ famver <= s'.sa_addr[2] /\ s'.sa_addr[2] <= ver[uaddr]
    BY <1>3, <1>7, <1>8, <2>1
  <2>6. famver = ver[uaddr] => s'.sa_family = fam[uaddr]
    BY <1>1, <1>2, <1>7 DEF FamilyRead
  <2> QED
    BY <1>2, <1>7, <2>1, <2>2, <2>3, <2>4, <2>5, <2>6 DEF AddressCaptured, uaddr
<1> QED
  BY <1>6, <1>7, <1>9, <1>10 DEF CaptureInv

(* The record is printed; nothing of it changes.                            *)
LEMMA FormatStep == CaptureInv /\ format_syscall_args => CaptureInv'
<1> SUFFICES ASSUME CaptureInv, format_syscall_args PROVE CaptureInv'
  OBVIOUS
<1>1. /\ TypeOK /\ CallOK /\ s \in Captures /\ ReadWithinLength
      /\ PathCaptured /\ FamilyRead /\ AddressCaptured /\ Formatted
  BY DEF CaptureInv
<1>2. /\ pc = "exit" /\ pc' = "done"
      /\ UNCHANGED <<nr, set, lens, text, flags, room, fam, ver, s, famver, touched>>
  BY DEF format_syscall_args, call
<1>3. TypeOK' /\ CallOK' /\ s' \in Captures /\ ReadWithinLength' /\ PathCaptured'
  BY <1>1, <1>2 DEF TypeOK, CallOK, Captures, uaddr, ReadWithinLength, PathCaptured
<1>4. FamilyRead' /\ AddressCaptured'
  BY <1>1, <1>2 DEF FamilyRead, AddressCaptured, Complete, Enough, Readable, len, uaddr
<1>5. Formatted'
  <2>1. open = NoOpen
    BY <1>1, <1>2 DEF Formatted
  <2> QED
    BY <1>2, <2>1 DEF format_syscall_args, Formatted
<1> QED
  BY <1>3, <1>4, <1>5 DEF CaptureInv

(* Another thread rewrites the memory: its version increases.               *)
LEMMA RewriteStep == ASSUME CaptureInv, NEW i \in set, Rewrite(i) PROVE CaptureInv'
<1>1. /\ TypeOK /\ CallOK /\ s \in Captures /\ ReadWithinLength
      /\ PathCaptured /\ FamilyRead /\ AddressCaptured /\ Formatted
  BY DEF CaptureInv
<1>2. /\ pc # "done" /\ ver[i] < MaxWrites /\ ver' = [ver EXCEPT ![i] = @ + 1]
      /\ UNCHANGED <<nr, set, lens, text, flags, room, pc, s, famver, touched, out, open>>
  BY DEF Rewrite, call
<1>3. PICK f \in Families : fam' = [fam EXCEPT ![i] = f]
  BY DEF Rewrite
<1>4. /\ fam' \in [Pointers -> Families \cup {AF_UNSPEC}]
      /\ ver' \in [Pointers -> 0..MaxWrites]
  <2>1. fam' \in [Pointers -> Families \cup {AF_UNSPEC}]
    BY <1>1, <1>3 DEF TypeOK
  <2>2. i \in Pointers => ver[i] + 1 \in 0..MaxWrites
    BY <1>1, <1>2, CaptureAssumption DEF TypeOK
  <2> QED
    BY <1>1, <1>2, <2>1, <2>2 DEF TypeOK
<1>5. /\ uaddr \in Pointers /\ ver[uaddr] \in Nat /\ ver'[uaddr] \in Nat /\ famver \in Nat
      /\ \/ ver'[uaddr] = ver[uaddr] /\ fam'[uaddr] = fam[uaddr]
         \/ ver'[uaddr] = ver[uaddr] + 1
  BY <1>1, <1>2, <1>3, CaptureAssumption DEF TypeOK, uaddr, Pointers
<1>6. TypeOK' /\ CallOK' /\ s' \in Captures /\ ReadWithinLength' /\ PathCaptured' /\ Formatted'
  BY <1>1, <1>2, <1>4 DEF TypeOK, CallOK, Captures, uaddr, ReadWithinLength, PathCaptured, Formatted
<1>7. FamilyRead'
  <2>1. famver <= ver'[uaddr] /\ (famver = ver'[uaddr] => famver = ver[uaddr] /\ fam'[uaddr] = fam[uaddr])
    BY <1>1, <1>5 DEF FamilyRead
  <2>2. len' = len /\ uaddr' = uaddr
    BY <1>2 DEF len, uaddr
  <2>3. Enough(SizeFamily)' <=> Enough(SizeFamily)
    BY <2>2 DEF Enough
  <2>4. Readable(SizeFamily)' <=> Readable(SizeFamily)
    BY <1>2, <2>2 DEF Readable
  <2> QED
    BY <1>1, <1>2, <2>1, <2>2, <2>3, <2>4 DEF FamilyRead
<1>8. AddressCaptured'
  <2>1. s.sa_valid => s.sa_addr[2] \in Nat
    BY <1>1 DEF AddressCaptured
  <2>2. CASE ver'[uaddr] = ver[uaddr] /\ fam'[uaddr] = fam[uaddr]
    BY <1>1, <1>2, <2>2 DEF AddressCaptured, Complete, Enough, Readable, len, uaddr
  <2>3. CASE ver'[uaddr] = ver[uaddr] + 1
    <3>1. famver <= ver[uaddr]
      BY <1>1 DEF FamilyRead
    <3> QED
      BY <1>1, <1>2, <1>5, <2>1, <2>3, <3>1 DEF AddressCaptured, uaddr
  <2> QED
    BY <1>5, <2>2, <2>3
<1> QED
  BY <1>6, <1>7, <1>8 DEF CaptureInv

(* The invariant holds in every reachable state.                            *)
LEMMA CaptureInvariant == Spec => []CaptureInv
<1>1. ASSUME CaptureInv, UNCHANGED vars PROVE CaptureInv'
  <2>1. UNCHANGED <<nr, set, lens, text, flags, room, fam, ver, pc, s, famver, touched, out, open>>
    BY <1>1 DEF vars, call
  <2>2. TypeOK' /\ CallOK' /\ s' \in Captures' /\ ReadWithinLength'
    BY <1>1, <2>1 DEF CaptureInv, TypeOK, CallOK, Captures, uaddr, ReadWithinLength
  <2>3. PathCaptured' /\ Formatted'
    BY <1>1, <2>1 DEF CaptureInv, PathCaptured, Formatted
  <2>4. FamilyRead' /\ AddressCaptured'
    BY <1>1, <2>1 DEF CaptureInv, FamilyRead, AddressCaptured, Complete, Enough, Readable, len, uaddr
  <2> QED
    BY <2>2, <2>3, <2>4 DEF CaptureInv
<1>2. CaptureInv /\ [Next]_vars => CaptureInv'
  BY <1>1, StringStep, FamilyStep, StructStep, FormatStep, RewriteStep DEF Next
<1> QED
  BY <1>2, CaptureInit, PTL DEF Spec
-----------------------------------------------------------------------------
(***************************************************************************)
(* What is printed.                                                         *)
(***************************************************************************)

(* Every variable of the capture keeps its type, for inputs of any size.    *)
THEOREM CaptureTypes == Spec => []TypeOK
<1>1. CaptureInv => TypeOK
  BY DEF CaptureInv
<1> QED
  BY <1>1, CaptureInvariant, PTL

(* The text of a path is printed exactly when the path is readable, however *)
(* long it is.                                                              *)
THEOREM PathCorrect == Spec => []ReadablePathPrinted
<1>1. CaptureInv => ReadablePathPrinted
  <2> SUFFICES ASSUME CaptureInv, pc = "done", nr \in PathCalls
               PROVE  out.path = <<"text">> <=> PathArg(nr) \in set /\ text[PathArg(nr)] > 0
    BY DEF ReadablePathPrinted
  <2>1. PathArg(nr) \in Pointers /\ text \in [Pointers -> Nat]
    BY DEF CaptureInv, CallOK, PathArg, Pointers
  <2>2. /\ Copied(text[PathArg(nr)]) \in 0..SYSCALL_STR_LEN
        /\ Copied(text[PathArg(nr)]) > 0 <=> text[PathArg(nr)] > 0
    BY <2>1, CopiedCut
  <2>3. arg_string(s) <=> PathArg(nr) \in set /\ text[PathArg(nr)] > 0
    BY <2>2 DEF CaptureInv, PathCaptured, arg_string, SYSCALL_STR_LEN
  <2>4. out.path = IF arg_string(s) THEN <<"text">> ELSE <<"pointer">>
    BY DEF CaptureInv, Formatted
  <2> QED
    BY <2>3, <2>4
<1> QED
  BY <1>1, CaptureInvariant, PTL

(* No read goes past the address length of the call, for any length.        *)
THEOREM ReadsBounded == Spec => []ReadWithinLength
<1>1. CaptureInv => ReadWithinLength
  BY DEF CaptureInv
<1> QED
  BY <1>1, CaptureInvariant, PTL

(* connect and bind print exactly the complete addresses, for any length,   *)
(* any readable memory and any family.                                      *)
THEOREM AddressComplete == Spec => []ConnectBindComplete
<1>1. CaptureInv => ConnectBindComplete
  <2> SUFFICES ASSUME CaptureInv, pc = "done", nr \in {"connect", "bind"}, ver[1] = 0
               PROVE  out.addr = <<fam[1], 1, 0>> <=>
                        /\ 1 \in set /\ fam[1] \in {AF_INET, AF_INET6}
                        /\ SizeOf(fam[1]) <= Min({lens[2], room[1]})
    BY DEF ConnectBindComplete
  <2>1. lens[2] \in Nat /\ room[1] \in Nat /\ SizeOf(fam[1]) \in Nat /\ len = lens[2]
    BY DEF CaptureInv, CallOK, Pointers, SizeOf, len
  <2>2. SizeOf(fam[1]) <= Min({lens[2], room[1]})
          <=> SizeOf(fam[1]) <= lens[2] /\ SizeOf(fam[1]) <= room[1]
    BY <2>1 DEF Min
  <2>3. Complete <=> /\ 1 \in set /\ fam[1] \in {AF_INET, AF_INET6}
                     /\ SizeOf(fam[1]) <= lens[2] /\ SizeOf(fam[1]) <= room[1]
    BY <2>1 DEF Complete, Parsed, Enough, Readable, uaddr
  <2>4. nr \in AddrCalls /\ out.addr = format_sockaddr(s)
    BY DEF CaptureInv, Formatted, AddrCalls
  <2>5. /\ s.sa_valid <=> Complete
        /\ s.sa_valid => /\ s.sa_family = fam[1] /\ Parsed(s.sa_family)
                         /\ s.sa_addr[1] = 1 /\ s.sa_addr[2] = 0
    BY <2>4 DEF CaptureInv, AddressCaptured, TypeOK, uaddr, Pointers
  <2>6. CASE s.sa_valid
    BY <2>2, <2>3, <2>4, <2>5, <2>6 DEF format_sockaddr, Parsed
  <2>7. CASE ~s.sa_valid
    <3>1. out.addr = << >>
      BY <2>4, <2>7 DEF format_sockaddr
    <3> QED
      BY <2>2, <2>3, <2>5, <2>7, <3>1
  <2> QED
    BY <2>6, <2>7 DEF CaptureInv, TypeOK
<1> QED
  BY <1>1, CaptureInvariant, PTL

(* However often other threads rewrite the memory between the two reads, an *)
(* address that is printed has a known family, and family, port and address *)
(* are of one moment unless the memory changed after the first read.        *)
THEOREM AddressWhole == Spec => []NoHalfAddress
<1>1. CaptureInv => NoHalfAddress
  <2> SUFFICES ASSUME CaptureInv, pc = "done", nr \in AddrCalls, out.addr # << >>
               PROVE  /\ Head(out.addr) \in {AF_INET, AF_INET6} /\ Len(out.addr) = 3
                      /\ ver[out.addr[2]] = famver =>
                           Head(out.addr) = fam[out.addr[2]] /\ out.addr[3] = famver
    BY DEF NoHalfAddress
  <2>1. out.addr = format_sockaddr(s)
    BY DEF CaptureInv, Formatted
  <2>2. s.sa_valid
    BY <2>1 DEF format_sockaddr
  <2>3. /\ Parsed(s.sa_family) /\ s.sa_addr[1] = uaddr /\ s.sa_addr[2] \in Nat
        /\ famver <= s.sa_addr[2] /\ s.sa_addr[2] <= ver[uaddr]
        /\ famver = ver[uaddr] => s.sa_family = fam[uaddr]
    BY <2>2 DEF CaptureInv, AddressCaptured
  <2>4. out.addr = <<s.sa_family, s.sa_addr[1], s.sa_addr[2]>>
    BY <2>1, <2>2, <2>3 DEF format_sockaddr, Parsed
  <2>5. ver[uaddr] = famver => s.sa_addr[2] = famver
    BY <2>3 DEF CaptureInv, TypeOK
  <2> QED
    BY <2>3, <2>4, <2>5 DEF Parsed
<1> QED
  BY <1>1, CaptureInvariant, PTL

(* For any path and any flags the text of openat fits into its buffers.     *)
THEOREM OpenatFits == Spec => []TextFits
<1>1. CaptureInv => TextFits
  <2> SUFFICES ASSUME CaptureInv PROVE open.off < FlagBuf /\ open.length < CallBuf
    BY DEF TextFits
  <2>1. CASE open = NoOpen
    BY <2>1 DEF NoOpen, FlagBuf, CallBuf
  <2>2. CASE open # NoOpen
    <3> DEFINE f == format_openat_flags(flags)
    <3>1. open = [off |-> f.off, named |-> f.named,
                  length |-> OpenatLength(arg_string(s), s.str_len, f.off)]
      BY <2>2 DEF CaptureInv, Formatted
    <3>2. f.off \in Nat /\ f.off <= 140
      BY FlagText
    <3>3. s.str_len \in Nat /\ s.str_len <= 256
      BY DEF CaptureInv, TypeOK, SYSCALL_STR_LEN
    <3>4. open.off = f.off /\ open.length = OpenatLength(arg_string(s), s.str_len, f.off)
      BY <3>1
    <3> HIDE DEF f
    <3>5. open.length = 20 + 23 + f.off + 40 + s.str_len - 1 \/ open.length = 20 + 23 + f.off + 38 + 18
      BY <3>2, <3>3, <3>4 DEF OpenatLength
    <3> QED
      BY <3>2, <3>3, <3>4, <3>5 DEF FlagBuf, CallBuf
  <2> QED
    BY <2>1, <2>2
<1> QED
  BY <1>1, CaptureInvariant, PTL

(* The names printed for any flags of openat stand for those flags.         *)
THEOREM FlagsCorrect == Spec => []FlagsReadBack
<1>1. CaptureInv => FlagsReadBack
  <2> SUFFICES ASSUME CaptureInv, pc = "done", nr = "openat"
               PROVE  open.named = (flags \cap Bits) \cup IF flags \cap O_SYNC = {} THEN {} ELSE O_SYNC
    BY DEF FlagsReadBack
  <2>1. open.named = format_openat_flags(flags).named
    BY DEF CaptureInv, Formatted
  <2> QED
    BY <2>1, FlagText
<1> QED
  BY <1>1, CaptureInvariant, PTL

(* AddressOfAddressArgument, which fails for sendto, fails for no other     *)
(* call: connect and bind print the address their address argument points   *)
(* to.                                                                      *)
THEOREM OnlySendtoDiffers == Spec => [](nr # "sendto" => AddressOfAddressArgument)
<1>1. CaptureInv => (nr # "sendto" => AddressOfAddressArgument)
  <2> SUFFICES ASSUME CaptureInv, nr # "sendto", pc = "done", nr \in AddrCalls, out.addr # << >>
               PROVE  out.addr[2] = AddrArg(nr)
    BY DEF AddressOfAddressArgument
  <2>1. out.addr = format_sockaddr(s)
    BY DEF CaptureInv, Formatted
  <2>2. s.sa_valid
    BY <2>1 DEF format_sockaddr
  <2>3. Parsed(s.sa_family) /\ s.sa_addr[1] = 1
    BY <2>2 DEF CaptureInv, AddressCaptured, uaddr
  <2>4. out.addr = <<s.sa_family, s.sa_addr[1], s.sa_addr[2]>>
    BY <2>1, <2>2, <2>3 DEF format_sockaddr, Parsed
  <2> QED
    BY <2>3, <2>4 DEF AddrArg
<1> QED
  BY <1>1, CaptureInvariant, PTL
=============================================================================
