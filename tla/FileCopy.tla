------------------------------ MODULE FileCopy ------------------------------
(***************************************************************************)
(* Copying with the restart library: r_read() and r_write() repeat an      *)
(* interrupted system call, r_write() also goes on after a short write.    *)
(* Two programs are built from them: rdwr_fileio.c, which copies a file    *)
(* over a file that may exist already, and copyfile() of the library,      *)
(* which counts the bytes and returns the count also after an error.       *)
(* One action is one system call.                                          *)
(***************************************************************************)
EXTENDS Integers, Sequences, FiniteSets

CONSTANTS N,          \* size of the source: its bytes are 1..N
          OldSize,    \* size of the old destination: its bytes are 0
          BLKSIZE,    \* size of the buffer
          INT_MAX,    \* largest int: the count of copyfile() is one
          MaxSignals  \* bound: signals that interrupt a call

\* The values the constants may have.
FileCopyAssumption ==
  /\ N \in Nat \ {0} /\ OldSize \in Nat /\ BLKSIZE \in Nat \ {0}
  /\ INT_MAX \in Nat /\ MaxSignals \in Nat

VARIABLES pc,       \* "read", "write", "ok" or "failed"
          rpos,     \* offset of fd_from
          dst,      \* contents of the destination
          wpos,     \* offset of fd_to
          size,     \* bytes in the buffer: those up to rpos
          total,    \* totalbytes of copyfile()
          signals   \* signals that have interrupted a call

vars == <<pc, rpos, dst, wpos, size, total, signals>>

Source == [i \in 1..N |-> i]

Init ==
  /\ pc = "read"
  /\ rpos = 0 /\ wpos = 0 /\ size = 0 /\ total = 0 /\ signals = 0
  /\ dst = [i \in 1..OldSize |-> 0]

\* What an int holds after it was given n: additions wrap, as they do in the code
\* that gcc generates for them.
ToInt(n) ==
  LET m == n % (2 * (INT_MAX + 1))
  IN  IF m > INT_MAX THEN m - 2 * (INT_MAX + 1) ELSE m

\* Bytes of the buffer that r_write() still has to write: bytestowrite.
ToWrite == rpos - wpos

-----------------------------------------------------------------------------
(* r_read().                                                               *)

ReadBytes ==
  /\ pc = "read" /\ rpos < N
  /\ \E k \in 1..BLKSIZE : rpos + k <= N /\ rpos' = rpos + k /\ size' = k
  /\ pc' = "write"
  /\ UNCHANGED <<dst, wpos, total, signals>>

\* Mutant of ReadEof: a short read is taken for the end of the file.
ReadEof_Short ==
  /\ pc = "read" /\ (rpos = N \/ size < BLKSIZE)
  /\ pc' = "ok"
  /\ UNCHANGED <<rpos, dst, wpos, size, total, signals>>

\* Mutant of ReadEof: end of file is read again, as if it were an interrupt.
ReadEof_Never ==
  /\ pc = "read" /\ rpos = N
  /\ UNCHANGED vars

ReadEof ==
  /\ pc = "read" /\ rpos = N
  /\ pc' = "ok"
  /\ UNCHANGED <<rpos, dst, wpos, size, total, signals>>

\* Mutant of Interrupted: EINTR in r_write() counts as written.
Interrupted_Counts ==
  /\ pc \in {"read", "write"} /\ signals < MaxSignals
  /\ signals' = signals + 1
  /\ pc' = "read"
  /\ UNCHANGED <<rpos, dst, wpos, size, total>>

\* EINTR: the call is made again.
Interrupted ==
  /\ pc \in {"read", "write"} /\ signals < MaxSignals
  /\ signals' = signals + 1
  /\ UNCHANGED <<pc, rpos, dst, wpos, size, total>>

\* Any other error.  rdwr_fileio.c goes on to r_write(fd_to, buf, -1), which
\* fails with nothing written.  copyfile() returns the total so far.
Error ==
  /\ pc \in {"read", "write"}
  /\ pc' = "failed"
  /\ UNCHANGED <<rpos, dst, wpos, size, total, signals>>

-----------------------------------------------------------------------------
(* r_write().                                                              *)

\* The file with k bytes of the source written at the offset.
Written(k) ==
  [i \in 1..(IF wpos + k > Len(dst) THEN wpos + k ELSE Len(dst)) |->
     IF i > wpos /\ i <= wpos + k THEN Source[i] ELSE dst[i]]

\* Mutant of WriteBytes: a short write is taken for a complete one.
WriteBytes_Once ==
  /\ pc = "write"
  /\ \E k \in 1..ToWrite :
       /\ dst' = Written(k) /\ wpos' = wpos + k
       /\ pc' = "read"
       /\ total' = ToInt(total + size)
  /\ UNCHANGED <<rpos, size, signals>>

\* Mutant of WriteBytes: the total of copyfile() is counted per call.
WriteBytes_Total ==
  /\ pc = "write"
  /\ \E k \in 1..ToWrite :
       /\ dst' = Written(k) /\ wpos' = wpos + k
       /\ pc' = IF k = ToWrite THEN "read" ELSE "write"
       /\ total' = ToInt(total + size)
  /\ UNCHANGED <<rpos, size, signals>>

WriteBytes ==
  /\ pc = "write"
  /\ \E k \in 1..ToWrite :
       /\ dst' = Written(k) /\ wpos' = wpos + k
       /\ pc' = IF k = ToWrite THEN "read" ELSE "write"
       /\ total' = IF k = ToWrite THEN ToInt(total + size) ELSE total
  /\ UNCHANGED <<rpos, size, signals>>

-----------------------------------------------------------------------------
r_read == ReadBytes \/ ReadEof
Next == r_read \/ WriteBytes \/ Interrupted \/ Error

Spec == Init /\ [][Next]_vars

-----------------------------------------------------------------------------
(* Properties.                                                             *)

\* Every variable has its type, and the offsets stay within the source.
TypeOK ==
  /\ pc \in {"read", "write", "ok", "failed"}
  /\ rpos \in 0..N /\ wpos \in 0..N /\ size \in 0..BLKSIZE
  /\ total \in (- INT_MAX - 1)..INT_MAX /\ signals \in 0..MaxSignals
  /\ dst \in Seq(0..N)

\* Nothing is lost between the reads and the writes: what has been read is
\* written or in the buffer, and the next read happens with an empty buffer.
Conserved ==
  /\ wpos <= rpos /\ rpos - wpos <= size
  /\ pc \in {"read", "ok"} => wpos = rpos

\* The result of copyfile() is honest as far as an int can be: it is the int of a
\* number c of bytes that are in the destination, a buffer less than all of them at
\* most, and c itself as long as the copy has not grown past INT_MAX.  On success it
\* is the int of the size.
TotalHonest ==
  /\ \E c \in 0..wpos :
       /\ wpos - c <= BLKSIZE /\ total = ToInt(c)
       /\ wpos <= INT_MAX => total = c
  /\ pc = "ok" => total = ToInt(N)

\* The destination receives the source in order, and the loop ends well only
\* when all of it is there, whatever signals and short writes happen.
Arrived == SubSeq(dst, 1, wpos)
Status ==
  CASE pc = "ok" -> "complete" [] pc = "failed" -> "broken" [] OTHER -> "going"
T == INSTANCE Transfer WITH sink <- Arrived, status <- Status
TransferStep == [T!Next]_<<Arrived, Status>>
=============================================================================
