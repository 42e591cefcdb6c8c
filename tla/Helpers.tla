------------------------------ MODULE Helpers -------------------------------
(***************************************************************************)
(* Pure computations of the repository, each checked against what it is    *)
(* meant to compute: simple_primegen() of primegen.c, which an alarm may   *)
(* cut short; timeval_subtract(), dec2bin() and hex_dump() of common.c,    *)
(* with the hex_dump() of mmap_simple.c, which starts at an offset; and    *)
(* the conversion of its argument in sigq_snd.c.  The sizes are constants, *)
(* so that their edges come within reach.                                  *)
(***************************************************************************)
EXTENDS Integers, Sequences

CONSTANTS Limits,      \* arguments of primegen
          Million,     \* microseconds in a second
          Secs,        \* seconds of a struct timeval
          LongBits,    \* bits of a long
          IntBits,     \* bits of an int
          Columns,     \* bytes on a line of hex_dump()
          Sizes,       \* sizes that are dumped
          Offsets,     \* where the dump of mmap_simple.c starts
          LabelBase,   \* the base of the labels of its lines
          LabelMax     \* the offsets that fit a label are 0..LabelMax - 1

\* The values the constants may have.
HelpersAssumption ==
  /\ {Million, LongBits, IntBits, Columns, LabelMax} \subseteq (Nat \ {0})
  /\ IntBits < LongBits /\ LabelBase \in Nat /\ LabelBase > 1 /\ Limits \cup Secs \cup Sizes \cup Offsets \subseteq Nat

Kinds == {"prime", "timeval", "dec2bin", "hex", "hexoff", "strtol"}

VARIABLES kind,
          pc,     \* "start", "loop", "exit0", "exit1", "killed"
          arg,    \* the arguments
          i,      \* loop index
          row,    \* hex_dump(): the line in the buffer, <<label, bytes>>
          out     \* the result, or what has been printed

vars == <<kind, pc, arg, i, row, out>>

Init == kind \in Kinds /\ pc = "start" /\ arg = <<>> /\ i = 0 /\ row = <<>> /\ out = <<>>

\* C's integers: wrapped to a width; division rounds towards zero.
Wrap(n, bits) == LET m == n % 2^bits IN IF m >= 2^(bits - 1) THEN m - 2^bits ELSE m
MinOf(bits) == - 2^(bits - 1)
MaxOf(bits) == 2^(bits - 1) - 1
Half(n) == IF n >= 0 THEN n \div 2 ELSE - ((- n) \div 2)

-----------------------------------------------------------------------------
(* primegen.c.                                                             *)

\* main(): a limit below 4 is refused; so is one above MAX, or a time out of range,
\* which fits stands for.
PrimeStart ==
  /\ kind = "prime" /\ pc = "start"
  /\ \E limit \in Limits, fits \in BOOLEAN :
       IF limit < 4 \/ ~ fits
         THEN pc' = "exit1" /\ arg' = <<limit>> /\ UNCHANGED <<i, out>>
         ELSE pc' = "loop" /\ arg' = <<limit>> /\ i' = 4 /\ out' = <<2, 3>>
  /\ UNCHANGED <<kind, row>>

\* Mutant of isprime: the number itself is among the divisors.
isprime_Itself(n, limit) == \A d \in 2..(limit \div 2 - 1) : n % d # 0

\* The inner loop.
isprime(n, limit) == \A d \in 2..(limit \div 2 - 1) : n # d => n % d # 0

\* One turn of the outer loop, or the end of the program.
PrimeLoop ==
  /\ kind = "prime" /\ pc = "loop"
  /\ IF i <= arg[1]
       THEN /\ out' = IF isprime(i, arg[1]) THEN Append(out, i) ELSE out
            /\ i' = i + 1 /\ UNCHANGED pc
       ELSE pc' = "exit0" /\ UNCHANGED <<i, out>>
  /\ UNCHANGED <<kind, arg, row>>

\* SIGALRM: buzz() raises SIGTERM.
buzz ==
  /\ kind = "prime" /\ pc = "loop" /\ pc' = "killed"
  /\ UNCHANGED <<kind, arg, i, row, out>>

-----------------------------------------------------------------------------
(* common.c.                                                               *)

\* Times that need not be normal, so that both carries happen.
Timevals == [sec : Secs, usec : (- Million)..(2 * Million)]

\* Mutant of Carried: the microseconds are borrowed, the second is not.
Carried_NoBorrow(x, y) == IF x.usec < y.usec THEN [y EXCEPT !.usec = @ - Million] ELSE y

\* y after the two carries.
Carried(x, y) ==
  LET n  == (y.usec - x.usec) \div Million + 1
      y1 == IF x.usec < y.usec THEN [sec |-> y.sec + n, usec |-> y.usec - Million * n] ELSE y
      m  == (x.usec - y1.usec) \div Million
  IN  IF x.usec - y1.usec > Million
        THEN [sec |-> y1.sec - m, usec |-> y1.usec + Million * m]
        ELSE y1

timeval_subtract ==
  /\ kind = "timeval" /\ pc = "start"
  /\ \E x \in Timevals, y \in Timevals :
       LET z == Carried(x, y) IN
         /\ arg' = <<x, y>>
         /\ out' = <<x.sec - z.sec, x.usec - z.usec, x.sec < z.sec>>
  /\ pc' = "exit0"
  /\ UNCHANGED <<kind, i, row>>

\* dec2bin(): temp[] is filled with the remainders, then the sign, and read backwards.
Dec2binStart ==
  /\ kind = "dec2bin" /\ pc = "start"
  /\ \E n \in MinOf(LongBits)..MaxOf(LongBits) :
       /\ arg' = <<n>> /\ i' = IF n < 0 THEN Wrap(- n, LongBits) ELSE n
  /\ row' = <<>> /\ pc' = "loop"
  /\ UNCHANGED <<kind, out>>

\* Mutant of Dec2binLoop: while, not do-while.
Dec2binLoop_While ==
  /\ kind = "dec2bin" /\ pc = "loop"
  /\ IF i > 0
       THEN row' = <<i % 2>> \o row /\ i' = Half(i) /\ UNCHANGED <<pc, out>>
       ELSE out' = <<IF arg[1] < 0 THEN "-" ELSE " ", row>> /\ pc' = "exit0" /\ UNCHANGED <<row, i>>
  /\ UNCHANGED <<kind, arg>>

\* One turn of the do-while; the last one adds the sign.  (The loop that reverses the
\* digits copies one byte more, from in front of temp[], which the NUL replaces.)
Dec2binLoop ==
  /\ kind = "dec2bin" /\ pc = "loop"
  /\ row' = <<i - 2 * Half(i)>> \o row
  /\ IF Half(i) > 0
       THEN i' = Half(i) /\ UNCHANGED <<pc, out>>
       ELSE i' = 0 /\ pc' = "exit0" /\ out' = <<IF arg[1] < 0 THEN "-" ELSE " ", row'>>
  /\ UNCHANGED <<kind, arg>>

\* The label of a line keeps the leading digits of its offset that fit.
Label[n \in Nat] == IF n < LabelMax THEN n ELSE Label[n \div LabelBase]

\* hex_dump(): the first line's label is 0, or the offset in mmap_simple.c.  Size and
\* offset are ints; MmapFiles has the conversion to them.
HexStart ==
  /\ kind \in {"hex", "hexoff"} /\ pc = "start"
  /\ \E size \in Sizes, off \in Offsets :
       /\ kind = "hex" => off = 0
       /\ arg' = <<size, off>> /\ row' = <<Label[off], <<>>>>
  /\ i' = 0 /\ out' = <<>> /\ pc' = "loop"
  /\ UNCHANGED kind

\* Mutant of HexByte: a full buffer is printed, and its labels count from 0.
HexByte_NoOffset ==
  /\ kind \in {"hex", "hexoff"} /\ pc = "loop" /\ i < arg[1]
  /\ IF Len(row[2]) = Columns
       THEN out' = Append(out, row) /\ row' = <<Label[i], <<i>>>>
       ELSE row' = <<row[1], Append(row[2], i)>> /\ UNCHANGED out
  /\ i' = i + 1
  /\ UNCHANGED <<kind, pc, arg>>

\* One byte; before it, a full line is printed and a new one begun.
HexByte ==
  /\ kind \in {"hex", "hexoff"} /\ pc = "loop" /\ i < arg[1]
  /\ IF Len(row[2]) = Columns
       THEN out' = Append(out, row) /\ row' = <<Label[i + arg[2]], <<i>>>>
       ELSE row' = <<row[1], Append(row[2], i)>> /\ UNCHANGED out
  /\ i' = i + 1
  /\ UNCHANGED <<kind, pc, arg>>

\* Mutant of HexEnd: the last line is printed only when it is not full.
HexEnd_Partial ==
  /\ kind \in {"hex", "hexoff"} /\ pc = "loop" /\ i = arg[1]
  /\ out' = IF Len(row[2]) \notin {0, Columns} THEN Append(out, row) ELSE out
  /\ pc' = "exit0"
  /\ UNCHANGED <<kind, arg, i, row>>

\* What is left in the buffer.
HexEnd ==
  /\ kind \in {"hex", "hexoff"} /\ pc = "loop" /\ i = arg[1]
  /\ out' = IF row[2] # <<>> THEN Append(out, row) ELSE out
  /\ pc' = "exit0"
  /\ UNCHANGED <<kind, arg, i, row>>

-----------------------------------------------------------------------------
(* sigq_snd.c: the number of the command line, <<>> if it has no digits.   *)

\* strtol(): out of range it gives the nearest long, and ERANGE.
Strtol(n) ==
  [val |-> IF n > MaxOf(LongBits) THEN MaxOf(LongBits)
           ELSE IF n < MinOf(LongBits) THEN MinOf(LongBits) ELSE n,
   erange |-> n \notin MinOf(LongBits)..MaxOf(LongBits)]

\* The long is cut to an int before it is compared with LONG_MAX and LONG_MIN, and
\* again with INT_MAX and INT_MIN.
SigqValue ==
  /\ kind = "strtol" /\ pc = "start"
  /\ \/ pc' = "exit1" /\ arg' = <<>> /\ UNCHANGED out
     \/ \E n \in (2 * MinOf(LongBits))..(2 * MaxOf(LongBits)) :
          LET v == Wrap(Strtol(n).val, IntBits)
              e == Strtol(n).erange
          IN  /\ arg' = <<n>>
              /\ IF e /\ v \in {MaxOf(LongBits), MinOf(LongBits), MaxOf(IntBits), MinOf(IntBits), 0}
                   THEN pc' = "exit1" /\ UNCHANGED out
                   ELSE pc' = "exit0" /\ out' = <<v>>
  /\ UNCHANGED <<kind, i, row>>

-----------------------------------------------------------------------------
\* The functions; the second hex_dump() is the one of mmap_simple.c.
simple_primegen == PrimeStart \/ PrimeLoop
dec2bin == Dec2binStart \/ Dec2binLoop
hex_dump == kind = "hex" /\ (HexStart \/ HexByte \/ HexEnd)
hex_dump_offset == kind = "hexoff" /\ (HexStart \/ HexByte \/ HexEnd)

Program ==
  \/ simple_primegen \/ timeval_subtract \/ dec2bin \/ hex_dump \/ hex_dump_offset
  \/ SigqValue

Next == Program \/ buzz

Spec == Init /\ [][Next]_vars

-----------------------------------------------------------------------------
(* Properties.                                                             *)

\* Every variable has its type.
TypeOK ==
  kind \in Kinds /\ pc \in {"start", "loop", "exit0", "exit1", "killed"} /\ i \in Int

Prime(n) == n > 1 /\ \A d \in 2..(n - 1) : n % d # 0
Primes(n) == SelectSeq([k \in 1..n |-> k], Prime)

\* primegen's description: "It generates primes from 2 to the number requested".
PrimesOnly == kind = "prime" /\ pc = "exit0" => out = Primes(arg[1])

\* What primegen has printed, when it ends or when the alarm ends it, are all the
\* primes below the number it has got to, unless the limit is 4 or 5.
PrimesSoFar == kind = "prime" /\ pc # "start" /\ arg[1] > 5 => out = Primes(i - 1)

\* timeval_subtract() gives the difference, for any two times.  It is normal, and the
\* result tells whether it is negative, unless x has exactly a second of microseconds
\* more than y, or whole seconds of them less: the comparisons then leave a tv_usec of
\* a million.  Times that are normal themselves never differ by so much.
DifferenceRight ==
  kind = "timeval" /\ pc = "exit0" =>
    LET d == (arg[1].sec - arg[2].sec) * Million + arg[1].usec - arg[2].usec
        u == arg[1].usec - arg[2].usec
    IN  /\ out[1] * Million + out[2] = d /\ out[2] \in 0..Million
        /\ out[2] = Million <=> u # 0 /\ u <= Million /\ u % Million = 0
        /\ out[2] # Million => out[3] = (d < 0)

Binary[s \in Seq({0, 1})] ==
  IF s = <<>> THEN 0 ELSE Binary[SubSeq(s, 1, Len(s) - 1)] * 2 + s[Len(s)]

\* dec2bin() writes the number, with no leading zero, but for the smallest long.
BinaryRight ==
  kind = "dec2bin" /\ pc = "exit0" /\ arg[1] # MinOf(LongBits) =>
    /\ (IF out[1] = "-" THEN - Binary[out[2]] ELSE Binary[out[2]]) = arg[1]
    /\ out[2] # <<>> /\ (Len(out[2]) > 1 => out[2][1] = 1)

\* hex_dump() prints every byte once and in order, on full lines but the last; the
\* label of a line is the offset of its first byte while labels are wide enough.
DumpRight ==
  kind \in {"hex", "hexoff"} /\ pc = "exit0" =>
    /\ Len(out) = (arg[1] + Columns - 1) \div Columns
    /\ \A n \in 1..Len(out) :
         LET first == (n - 1) * Columns
             bytes == IF n < Len(out) THEN Columns ELSE arg[1] - first
         IN  /\ out[n][2] = [c \in 1..bytes |-> first + c - 1]
             /\ first + arg[2] < LabelMax => out[n][1] = first + arg[2]

\* A number that is an int is sent as it is, and never refused.
ValueSent ==
  kind = "strtol" /\ pc # "start" /\ arg # <<>> =>
    (arg[1] \in MinOf(IntBits)..MaxOf(IntBits) => pc = "exit0" /\ out = arg)

\* The computation has ended.
Over == pc \in {"exit0", "exit1", "killed"}
=============================================================================
