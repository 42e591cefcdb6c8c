--------------------------- MODULE MCInputOutput ----------------------------
(***************************************************************************)
(* The input and output functions on small instances. A behaviour is one   *)
(* call: fd_write() of cpudtl_tstsvr.c, readblock(), readline(),           *)
(* readtimed() or copyfile() of the restart library, a program that maps a *)
(* file, or a function that computes or converts.                          *)
(***************************************************************************)
EXTENDS IoFunctions

CONSTANTS Limits, Secs, LongBits, IntBits, Columns, Sizes, Offsets, LabelBase, LabelMax

VARIABLE program     \* the program of this behaviour

VARIABLES arg, i, row, out   \* those of the functions that compute; see IoFunctions

Compute == INSTANCE Helpers WITH Million <- MILLION

vars == <<program, stream, short, pc, fn, size, input, num, ret, failed, signals, now,
          end, timeout, since, data, taken, rpos, dst, wpos, total, kind, src, cut, off,
          len, pos, arg, i, row, out>>

\* The variables that one program alone has, and their value when another runs.
ownLoops == <<stream, short, fn, input, num, failed>>
ownTimed == <<now, end, timeout, since, data, taken>>
ownCopy == <<rpos, wpos, total>>
ownMaps == <<src, cut, off, len, pos>>
ownCompute == <<arg, i, row, out>>

noLoops == stream = 0 /\ short = 0 /\ fn = 0 /\ input = 0 /\ num = 0 /\ failed = 0
noTimed == now = 0 /\ end = 0 /\ timeout = 0 /\ since = 0 /\ data = 0
           /\ taken = 0
noCopy == rpos = 0 /\ wpos = 0 /\ total = 0
noMaps == src = 0 /\ cut = 0 /\ off = 0 /\ len = 0 /\ pos = 0
noCompute == arg = 0 /\ i = 0 /\ row = 0 /\ out = 0

Init ==
  \/ /\ program = "loops" /\ Loops!Init /\ noTimed /\ noCopy /\ noMaps /\ noCompute
     /\ pc = 0 /\ dst = 0 /\ kind = 0
  \/ /\ program = "readtimed" /\ Timed!Init /\ noLoops /\ noCopy /\ noMaps /\ noCompute
     /\ size = 0 /\ signals = 0 /\ dst = 0 /\ kind = 0
  \/ /\ program = "copy" /\ Copy!Init /\ noLoops /\ noTimed /\ noMaps /\ noCompute
     /\ ret = 0 /\ kind = 0
  \/ /\ program = "mmap" /\ Maps!Init /\ noLoops /\ noTimed /\ noCopy /\ noCompute
     /\ size = 0 /\ ret = 0 /\ signals = 0
  \/ /\ program = "helpers" /\ Compute!Init /\ noLoops /\ noTimed /\ noCopy /\ noMaps
     /\ size = 0 /\ ret = 0 /\ signals = 0 /\ dst = 0

Next ==
  \/ /\ program = "loops" /\ Loops!Next
     /\ UNCHANGED <<program, ownTimed, ownCopy, ownMaps, ownCompute, pc, dst, kind>>
  \/ /\ program = "readtimed" /\ Timed!Next
     /\ UNCHANGED <<program, ownLoops, ownCopy, ownMaps, ownCompute, size, signals, dst,
                   kind>>
  \/ /\ program = "copy" /\ Copy!Next
     /\ UNCHANGED <<program, ownLoops, ownTimed, ownMaps, ownCompute, ret, kind>>
  \/ /\ program = "mmap" /\ Maps!Next
     /\ UNCHANGED <<program, ownLoops, ownTimed, ownCopy, ownCompute, size, ret, signals>>
  \/ /\ program = "helpers" /\ Compute!Next
     /\ UNCHANGED <<program, ownLoops, ownTimed, ownCopy, ownMaps, size, ret, signals,
                   dst>>

loops_vars == Loops!vars
timed_vars == Timed!vars
copy_vars == Copy!vars
maps_vars == Maps!vars
compute_vars == Compute!vars

Spec == Init /\ [][Next]_vars

\* The process runs, and time passes.
FairSpec ==
  /\ Spec
  /\ WF_loops_vars(program = "loops" /\ (Loops!Read \/ Loops!Write))
  /\ WF_timed_vars(program = "readtimed" /\ Timed!Tick)
  /\ WF_timed_vars(program = "readtimed"
                     /\ (Timed!Start \/ Timed!Gettimeout \/ Timed!Read))
  /\ WF_timed_vars(program = "readtimed" /\ Timed!SelectReturns)
  /\ WF_copy_vars(program = "copy" /\ Copy!r_read)
  /\ WF_copy_vars(program = "copy" /\ Copy!WriteBytes)
  /\ WF_maps_vars(program = "mmap" /\ (Maps!mmap_simple \/ Maps!mmap_fileio))
  /\ WF_compute_vars(program = "helpers" /\ Compute!Program)

ASSUME ComputeConstants == Compute!HelpersAssumption

-----------------------------------------------------------------------------
(* Properties.                                                             *)

\* The variables of the function that runs have their types: no offset leaves
\* the data, no byte is read past the buffer, and the times given to
\* the kernel are normal.
TypeOK ==
  CASE program = "loops"     -> Loops!TypeOK
    [] program = "readtimed" -> Timed!TypeOK
    [] program = "copy"      -> Copy!TypeOK
    [] program = "mmap"      -> Maps!TypeOK
    [] program = "helpers"   -> Compute!TypeOK

\* The bytes are right for any sequence of short transfers and interruptions.
\* fd_write() never sends as much as two replies, and exactly the reply when the
\* socket takes everything at once. readblock() is all or nothing, on which
\* readwriteblock() relies ("can only be 0 or -1", restart_lib-Robbins.c:221).
\* readline() returns exactly the first line, with its newline and room for the
\* NUL, and consumes nothing behind it.  The programs that map a file show or copy
\* exactly the wanted bytes, as many as fit in an int for hex_dump(), unless a file
\* is cut short meanwhile; only that ends them with SIGBUS, and a full disk the copy
\* of more than a page.
BytesRight ==
  /\ program = "loops" => Loops!OverrunBounded /\ Loops!BlockResult /\ Loops!LineResult
  /\ program = "mmap" => Maps!BytesExact /\ Maps!BusExplained

\* rdwr_fileio.c and copyfile(): what has been read is written or in the buffer,
\* and the next read happens with an empty buffer.
Conserved == program = "copy" => Copy!Conserved

\* The result of copyfile() counts only bytes that are in the destination, misses a
\* buffer of them at most, and is the size of the source on success, as an int: past
\* INT_MAX it has wrapped, and is still right modulo the width.
TotalHonest == program = "copy" => Copy!TotalHonest

\* rdwr_fileio.c and copyfile() implement the transfer of the source in order,
\* whatever signals and short writes happen.
ImplementsTransfer ==
  /\ program = "copy" => Copy!T!Init
  /\ [][program = "copy" => Copy!TransferStep]_vars

\* The pure functions compute what they say, on every small input: primegen its
\* primes so far, timeval_subtract() a normal difference, dec2bin() the digits,
\* hex_dump() every byte once and under the right label, sigq_snd.c the value that
\* was typed.  The inputs for which they do not are named by the properties.
ConversionsRight ==
  program = "helpers" =>
    /\ Compute!PrimesSoFar /\ Compute!DifferenceRight /\ Compute!BinaryRight
    /\ Compute!DumpRight /\ Compute!ValueSent

\* The deadline is kept. The carries and borrows of gettimeout() and
\* add2currenttime() are exact, waitfdtimed() reports a timeout only at or after
\* the deadline, however often it was interrupted, and readtimed() can be stuck in
\* its read() only when another reader took the input that select() had seen.
DeadlineKept ==
  program = "readtimed" =>
    Timed!TimeArithmetic /\ Timed!NoEarlyTimeout /\ Timed!BlockedBy

Returned ==
  CASE program = "loops"     -> Loops!Returned
    [] program = "readtimed" -> Timed!Settled
    [] program = "copy"      -> pc \in {"ok", "failed"}
    [] program = "mmap"      -> Maps!Over
    [] program = "helpers"   -> Compute!Over

\* Every call returns, a timed read with signals for ever; only the timed read whose
\* input another reader has taken may wait on.
CallReturns == <>Returned

-----------------------------------------------------------------------------
(* Proofs, from those of IoFunctions.                                      *)

\* The invariant of the function that runs.
InputOutputInv ==
  /\ program \in {"loops", "readtimed", "copy", "mmap", "helpers"}
  /\ program = "loops" => LoopsInv
  /\ program = "readtimed" => TimedInv
  /\ program = "copy" => CopyInv
  /\ program = "mmap" => MapsInv

\* Every function starts with its invariant.
LEMMA InputOutputInit == Init => InputOutputInv
  BY LoopsInit, TimedInit, CopyInit, MapsInit DEF Init, InputOutputInv

\* A step of one function keeps its invariant and does not touch another one.
LEMMA InputOutputNext ==
  ASSUME InputOutputInv, [Next]_vars
  PROVE  InputOutputInv'
<1>1. program' = program BY DEF Next, vars
<1>2. CASE program = "loops"
  <2>1. Loops!Next \/ UNCHANGED Loops!vars BY <1>2 DEF Next, vars, Loops!vars
  <2> QED BY <1>1, <1>2, <2>1, LoopsNext DEF InputOutputInv
<1>3. CASE program = "readtimed"
  <2>1. Timed!Next \/ UNCHANGED Timed!vars BY <1>3 DEF Next, vars, Timed!vars
  <2> QED BY <1>1, <1>3, <2>1, TimedNext DEF InputOutputInv
<1>4. CASE program = "copy"
  <2>1. Copy!Next \/ UNCHANGED Copy!vars BY <1>4 DEF Next, vars, Copy!vars
  <2> QED BY <1>1, <1>4, <2>1, CopyNext DEF InputOutputInv
<1>5. CASE program = "mmap"
  <2>1. Maps!Next \/ UNCHANGED Maps!vars BY <1>5 DEF Next, vars, Maps!vars
  <2> QED BY <1>1, <1>5, <2>1, MapsNext DEF InputOutputInv
<1>6. CASE program = "helpers" BY <1>1, <1>6 DEF InputOutputInv
<1> QED BY <1>2, <1>3, <1>4, <1>5, <1>6 DEF InputOutputInv

\* The invariant holds throughout.
LEMMA InputOutputInvariant == Spec => []InputOutputInv
<1>1. Init => InputOutputInv BY InputOutputInit
<1>2. InputOutputInv /\ [Next]_vars => InputOutputInv' BY InputOutputNext
<1> QED BY <1>1, <1>2, PTL DEF Spec

\* No function that reads, writes, waits or maps moves an offset past the data,
\* reads past its buffer or gives the kernel a time that is not normal, for every input,
\* size and number of signals.  (The functions that only compute are excepted.)
THEOREM InputOutputTyped == Spec => [](program # "helpers" => TypeOK)
<1>1. ASSUME InputOutputInv, program # "helpers" PROVE TypeOK
  <2>1. CASE program = "loops" BY <1>1, <2>1 DEF InputOutputInv, TypeOK, LoopsInv
  <2>2. CASE program = "readtimed" BY <1>1, <2>2 DEF InputOutputInv, TypeOK, TimedInv
  <2>3. CASE program = "copy" BY <1>1, <2>3 DEF InputOutputInv, TypeOK, CopyInv
  <2>4. CASE program = "mmap" BY <1>1, <2>4 DEF InputOutputInv, TypeOK, MapsInv
  <2> QED BY <1>1, <2>1, <2>2, <2>3, <2>4 DEF InputOutputInv
<1>2. InputOutputInv => (program # "helpers" => TypeOK) BY <1>1
<1> QED BY InputOutputInvariant, <1>2, PTL

\* However the transfers are cut short or interrupted, readblock() is all or nothing,
\* readline() returns exactly the first line, fd_write() sends less than two replies,
\* and the programs that map a file show or copy exactly its bytes unless a file is cut
\* short; only that, or a full disk before the last page of a copy, ends them with
\* SIGBUS; for every input, size, page size and width of an int.
THEOREM TransfersRight == Spec => []BytesRight
<1>1. InputOutputInv => BytesRight BY DEF InputOutputInv, BytesRight, LoopsInv, MapsInv
<1> QED BY InputOutputInvariant, <1>1, PTL

\* The carries of gettimeout() and add2currenttime() are exact for every unit, and
\* waitfdtimed() gives up only at the deadline, however often it is interrupted; the
\* read() after it is stuck only if another reader has taken the input.
THEOREM TimeoutNotEarly == Spec => []DeadlineKept
<1>1. InputOutputInv => DeadlineKept
  BY TimedArithmetic DEF InputOutputInv, DeadlineKept, TimedInv
<1> QED BY InputOutputInvariant, <1>1, PTL

\* Nothing is lost between the reads and the writes of copyfile(), for every size of the
\* file and of the buffer and every sequence of short writes, errors and signals.
THEOREM CopyConserves == Spec => []Conserved
<1>1. InputOutputInv => Conserved BY DEF InputOutputInv, Conserved, CopyInv
<1> QED BY InputOutputInvariant, <1>1, PTL

\* copyfile() reports only bytes that are in the destination, and all of them on
\* success, for every size that fits in an int; the total of a larger file has wrapped
\* and is right modulo the width of an int.
THEOREM CopyHonest == Spec => []TotalHonest
<1>1. CopyInv => Copy!TotalHonest
  BY DEF CopyInv
<1>2. InputOutputInv => TotalHonest BY <1>1 DEF InputOutputInv, TotalHonest
<1> QED BY InputOutputInvariant, <1>2, PTL

\* copyfile() and rdwr_fileio.c refine Transfer: the destination receives the source in
\* order, nothing twice and nothing left out, and the copy ends well only when all of it
\* has arrived.
THEOREM CopyRefinesTransfer == Spec => ImplementsTransfer
<1>1. Init => (program = "copy" => Copy!T!Init) BY CopyStart DEF Init
<1>2. ASSUME InputOutputInv, [Next]_vars PROVE program = "copy" => Copy!TransferStep
  <2> SUFFICES ASSUME program = "copy" PROVE Copy!TransferStep OBVIOUS
  <2>1. Copy!Next \/ UNCHANGED Copy!vars BY <1>2 DEF Next, vars, Copy!vars
  <2> QED BY <1>2, <2>1, CopyStep DEF InputOutputInv
<1>3. InputOutputInv /\ [Next]_vars => [program = "copy" => Copy!TransferStep]_vars
  BY <1>2
<1> QED BY <1>1, <1>3, InputOutputInvariant, PTL DEF Spec, ImplementsTransfer
=============================================================================
