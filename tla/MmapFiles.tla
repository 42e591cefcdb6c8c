----------------------------- MODULE MmapFiles ------------------------------
(***************************************************************************)
(* Files read through mmap(): mmap_simple.c dumps a part of one, and       *)
(* mmap_fileio.c copies one to another.  Both look at the size once and    *)
(* rely on it; another process may cut off the end of a file afterwards,   *)
(* and the disk may be full when a page of the copy needs its first block. *)
(* The byte at position k of the source is k, zero bytes are 0, and the    *)
(* bytes that the destination had before are Old.                          *)
(***************************************************************************)
EXTENDS Integers, Sequences

CONSTANTS PAGE,    \* bytes of a page
          INT_MAX, \* largest int: hex_dump() is given its size as one
          MaxLen   \* bound on the sizes, offsets and lengths

\* The values the constants may have.
MmapFilesAssumption == PAGE \in Nat \ {0} /\ INT_MAX \in Nat /\ MaxLen \in Nat

Kinds == {"simple", "fileio"}
Old == MaxLen + 1

VARIABLES kind,
          pc,      \* "start", "stat", "extend", "loop", "exit0", "exit1", "bus"
          src,     \* size of the source
          cut,     \* the files, "src" and "dst", that another process has cut short
          off,     \* the part that is wanted starts after off bytes
          len,     \* and has len bytes
          pos,     \* bytes done
          dst      \* the destination, or what hex_dump() has shown

vars == <<kind, pc, src, cut, off, len, pos, dst>>

Init ==
  /\ kind \in Kinds /\ pc = "start" /\ src \in 0..MaxLen /\ cut = {}
  /\ off = 0 /\ len = 0 /\ pos = 0
  /\ \E k \in 0..MaxLen : dst = [b \in 1..(IF kind = "simple" THEN 0 ELSE k) |-> Old]

-----------------------------------------------------------------------------
\* The file is opened, or is not.
Open ==
  /\ pc = "start" /\ pc' \in {"stat", "exit1"}
  /\ UNCHANGED <<kind, src, cut, off, len, pos, dst>>

\* Mutant of Stat: the end of the part is not compared with the size.
Stat_NoCheck ==
  /\ pc = "stat"
  /\ IF kind = "simple"
       THEN \E o \in 0..MaxLen, l \in 0..MaxLen :
              off' = o /\ len' = l /\ pc' = IF src = 0 \/ l = 0 THEN "exit1" ELSE "loop"
       ELSE off' = 0 /\ len' = src /\ pc' = IF src = 0 THEN "exit1" ELSE "extend"
  /\ UNCHANGED <<kind, src, cut, pos, dst>>

\* The size is asked for and the arguments are checked; mmap() of mmap_simple.c,
\* which may fail.
Stat ==
  /\ pc = "stat"
  /\ IF kind = "simple"
       THEN \E o \in 0..MaxLen, l \in 0..MaxLen :
              /\ off' = o /\ len' = l
              /\ pc' \in {"exit1"} \cup IF src = 0 \/ l = 0 \/ o + l > src THEN {} ELSE {"loop"}
       ELSE off' = 0 /\ len' = src /\ pc' = IF src = 0 THEN "exit1" ELSE "extend"
  /\ UNCHANGED <<kind, src, cut, pos, dst>>

\* Mutant of Extend: one byte too few.
Extend_Short ==
  /\ pc = "extend"
  /\ \/ /\ dst' = [b \in 1..(IF Len(dst) > len - 1 THEN Len(dst) ELSE len - 1) |->
                     IF b \in DOMAIN dst /\ b # len - 1 THEN dst[b] ELSE 0]
        /\ pc' = "loop"
     \/ pc' = "exit1" /\ UNCHANGED dst
  /\ UNCHANGED <<kind, src, cut, off, len, pos>>

\* lseek() to len - 1 and write() of a NUL: the destination has at least len bytes;
\* both mmap() of mmap_fileio.c.
Extend ==
  /\ pc = "extend"
  /\ \/ /\ dst' = [b \in 1..(IF Len(dst) > len THEN Len(dst) ELSE len) |->
                     IF b \in DOMAIN dst /\ b # len THEN dst[b] ELSE 0]
        /\ pc' \in {"loop", "exit1"}
     \/ pc' = "exit1" /\ UNCHANGED dst
  /\ UNCHANGED <<kind, src, cut, off, len, pos>>

\* The pages of a mapping that has a byte of the file can be read.
Mapped(b, size) == b <= ((size + PAGE - 1) \div PAGE) * PAGE

\* A store that needs a new block of the disk: the first one to a page of the
\* destination, unless it is the page in which Extend has written its byte.
NewBlock(b) == (b - 1) % PAGE = 0 /\ (b - 1) \div PAGE # (len - 1) \div PAGE

\* An off_t as an int argument.
ToInt(n) ==
  LET m == n % (2 * (INT_MAX + 1))
  IN  IF m > INT_MAX THEN m - 2 * (INT_MAX + 1) ELSE m

\* The bytes of the loop: those of memcpy() are a size_t, those of hex_dump() an int.
Bytes == IF kind = "simple" THEN ToInt(len) ELSE len

\* One byte of memcpy() or hex_dump().  A byte stored behind the end of the
\* destination, in its last page, does not get into the file.
Byte ==
  /\ pc = "loop" /\ pos < Bytes
  /\ LET b == off + pos + 1
         v == IF b <= src THEN b ELSE 0
         mapped == Mapped(b, src) /\ (kind = "fileio" => Mapped(b, Len(dst)))
     IN  \/ /\ mapped
            /\ dst' = IF kind = "simple" THEN Append(dst, v)
                      ELSE [k \in 1..Len(dst) |-> IF k = b THEN v ELSE dst[k]]
            /\ pos' = pos + 1 /\ UNCHANGED pc
         \/ /\ ~ mapped \/ (kind = "fileio" /\ NewBlock(b))
            /\ pc' = "bus" /\ UNCHANGED <<dst, pos>>
  /\ UNCHANGED <<kind, src, cut, off, len>>

\* The end; the munmap() of mmap_simple.c may fail.
Done ==
  /\ pc = "loop" /\ pos >= Bytes
  /\ pc' \in {"exit0"} \cup IF kind = "simple" THEN {"exit1"} ELSE {}
  /\ UNCHANGED <<kind, src, cut, off, len, pos, dst>>

\* Another process truncates the source.
Truncate ==
  /\ pc \in {"extend", "loop"} /\ "src" \notin cut
  /\ \E s \in 0..(src - 1) : src' = s
  /\ cut' = cut \cup {"src"}
  /\ UNCHANGED <<kind, pc, off, len, pos, dst>>

\* Another process truncates the destination once it is mapped.
TruncateDst ==
  /\ pc = "loop" /\ kind = "fileio" /\ "dst" \notin cut
  /\ \E s \in 0..(Len(dst) - 1) : dst' = [b \in 1..s |-> dst[b]]
  /\ cut' = cut \cup {"dst"}
  /\ UNCHANGED <<kind, pc, src, off, len, pos>>

\* The programs.
mmap_simple == kind = "simple" /\ (Open \/ Stat \/ Byte \/ Done)
mmap_fileio == kind = "fileio" /\ (Open \/ Stat \/ Extend \/ Byte \/ Done)

Next == mmap_simple \/ mmap_fileio \/ Truncate \/ TruncateDst

Spec == Init /\ [][Next]_vars

-----------------------------------------------------------------------------
(* Properties.                                                             *)

\* Every variable has its type.
TypeOK ==
  /\ kind \in Kinds /\ pc \in {"start", "stat", "extend", "loop", "exit0", "exit1", "bus"}
  /\ {src, off, len, pos} \subseteq 0..MaxLen /\ cut \subseteq {"src", "dst"}

\* The bytes that are shown, or copied, are those of the wanted part of the source,
\* and all of them unless the destination was cut short, or the length does not fit in
\* an int; a copy leaves the rest of a longer destination as it was; only in a source
\* that was cut short are there zeros instead.
BytesExact ==
  pc = "exit0" =>
    /\ IF kind = "simple" THEN len <= INT_MAX => Len(dst) = len
                          ELSE "dst" \notin cut => Len(dst) >= len
    /\ \A k \in 1..Len(dst) :
         IF k <= len THEN dst[k] = off + k \/ ("src" \in cut /\ dst[k] = 0)
                     ELSE kind = "fileio" /\ dst[k] = Old

\* Only a file that was cut short after its size was asked for can cause SIGBUS; the
\* copy meets it also on a full disk, but not in its last page, which Extend wrote: a
\* copy of up to one page needs no block that it does not have.
BusExplained ==
  pc = "bus" =>
    "src" \in cut \/ (kind = "fileio" /\ ("dst" \in cut \/ pos + PAGE < len))

\* The program has ended.
Over == pc \in {"exit0", "exit1", "bus"}
=============================================================================
