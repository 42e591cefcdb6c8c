------------------------------- MODULE IoLoops -------------------------------
(***************************************************************************)
(* Functions that call read() or write() in a loop, one action per call:   *)
(* readblock() and readline() of restart_lib-Robbins.c, and fd_write() of  *)
(* cpudtl_tstsvr.c, which sends the reply to the client.  A call may be    *)
(* short, interrupted or fail, and a read may be at the end of the input.  *)
(* The input is what the other side writes before it closes.               *)
(***************************************************************************)
EXTENDS Integers, Sequences

CONSTANTS MaxInput,    \* bound: length of the input
          MaxSize,     \* bound: size argument of the calls, length of a reply
          MaxSignals   \* bound: signals that interrupt a read

\* The values the constants may have.
IoLoopsAssumption ==
  MaxInput \in Nat /\ MaxSize \in Nat /\ MaxSignals \in Nat

Byte == {"x", "\n"}
Inputs == UNION {[1..m -> Byte] : m \in 0..MaxInput}
Running == -2          \* ret of a call that has not returned

VARIABLES fn,       \* "readblock", "readline" or "fd_write"
          size,     \* its last argument
          input,    \* bytes of the other side
          num,      \* bytes counted: totalbytes, numread or tw
          ret,      \* the result
          failed,   \* read() or write() had an error
          signals,
          stream,   \* fd_write(): bytes the socket has taken
          short     \* fd_write(): some write() was short

vars == <<fn, size, input, num, ret, failed, signals, stream, short>>

Reading == fn \in {"readblock", "readline"}

Init ==
  /\ fn \in {"readblock", "readline", "fd_write"}
  /\ size \in 1..MaxSize
  /\ input \in IF fn = "fd_write" THEN {<<>>} ELSE Inputs
  /\ num = 0 /\ ret = Running /\ failed = FALSE /\ signals = 0
  /\ stream = <<>> /\ short = FALSE

Left == Len(input) - num

\* Loop condition of the function that runs.
Wanted == IF fn = "readline" THEN size - 1 - num ELSE size - num

Return(v) ==
  ret' = v /\ UNCHANGED <<fn, size, input, num, failed, signals, stream, short>>

-----------------------------------------------------------------------------
\* Mutant of BlockBytes: a short read ends the loop.
BlockBytes_Short ==
  /\ fn = "readblock" /\ ret = Running /\ Wanted > 0
  /\ \E k \in 1..Wanted : k <= Left /\ num' = num + k /\ ret' = num + k
  /\ UNCHANGED <<fn, size, input, failed, signals, stream, short>>

\* readblock() reads some of the bytes it still wants.
BlockBytes ==
  /\ fn = "readblock" /\ ret = Running /\ Wanted > 0
  /\ \E k \in 1..Wanted : k <= Left /\ num' = num + k
  /\ UNCHANGED <<fn, size, input, ret, failed, signals, stream, short>>

\* Mutant of LineByte: the newline does not end the loop.
LineByte_On ==
  /\ fn = "readline" /\ ret = Running /\ Wanted > 0 /\ Left > 0
  /\ num' = num + 1
  /\ ret' = IF input[num + 1] = "\n" /\ (Left = 1 \/ Wanted = 1) THEN num + 1 ELSE Running
  /\ UNCHANGED <<fn, size, input, failed, signals, stream, short>>

\* readline() reads one byte, and returns after a newline.
LineByte ==
  /\ fn = "readline" /\ ret = Running /\ Wanted > 0 /\ Left > 0
  /\ num' = num + 1
  /\ ret' = IF input[num + 1] = "\n" THEN num + 1 ELSE Running
  /\ UNCHANGED <<fn, size, input, failed, signals, stream, short>>

\* Mutant of Eof: the end of the input is read again.
Eof_Again == Reading /\ ret = Running /\ Wanted > 0 /\ Left = 0 /\ UNCHANGED vars

\* End of input: 0 if nothing was read, else an error.
Eof ==
  /\ Reading /\ ret = Running /\ Wanted > 0 /\ Left = 0
  /\ Return(IF num = 0 THEN 0 ELSE -1)

\* The loop ends: readblock() has its block, readline() found no newline.
LoopEnds ==
  /\ Reading /\ ret = Running /\ Wanted = 0
  /\ Return(IF fn = "readblock" THEN num ELSE -1)

\* EINTR: the readers read again; fd_write() takes it as an error.
Interrupted ==
  /\ Reading /\ ret = Running /\ Wanted > 0 /\ signals < MaxSignals
  /\ signals' = signals + 1
  /\ UNCHANGED <<fn, size, input, num, ret, failed, stream, short>>

Error ==
  /\ ret = Running /\ Wanted > 0
  /\ failed' = TRUE /\ ret' = -1
  /\ UNCHANGED <<fn, size, input, num, signals, stream, short>>

\* The first k bytes of the reply.
Bytes(k) == [b \in 1..k |-> b]

\* Mutant of Write: the total is not added up.
Write_Last ==
  /\ fn = "fd_write" /\ ret = Running
  /\ \E k \in 1..size :
       /\ stream' = stream \o Bytes(k)
       /\ num' = k
       /\ short' = (short \/ k < size)
       /\ ret' = IF num' < size THEN Running ELSE num'
  /\ Len(stream') <= 2 * MaxSize
  /\ UNCHANGED <<fn, size, input, failed, signals>>

\* Mutant of Write: the loop runs while tw <= n.
Write_OneMore ==
  /\ fn = "fd_write" /\ ret = Running
  /\ \E k \in 1..size :
       /\ stream' = stream \o Bytes(k)
       /\ num' = num + k
       /\ short' = (short \/ k < size)
       /\ ret' = IF num' <= size THEN Running ELSE num'
  /\ UNCHANGED <<fn, size, input, failed, signals>>

\* wr = write(fd, sbuf, n) writes 1 to n bytes from the start of the buffer.
Write ==
  /\ fn = "fd_write" /\ ret = Running
  /\ \E k \in 1..size :
       /\ stream' = stream \o Bytes(k)
       /\ num' = num + k
       /\ short' = (short \/ k < size)
       /\ ret' = IF num' < size THEN Running ELSE num'
  /\ UNCHANGED <<fn, size, input, failed, signals>>

Read == BlockBytes \/ LineByte \/ Eof \/ LoopEnds
Next == Read \/ Write \/ Interrupted \/ Error

Spec == Init /\ [][Next]_vars
-----------------------------------------------------------------------------
(* Properties.                                                             *)

\* Every variable has its type, no byte is read past the input or the size, and the
\* total of fd_write() counts what the socket took.
TypeOK ==
  /\ fn \in {"readblock", "readline", "fd_write"} /\ size \in 1..MaxSize
  /\ input \in Inputs /\ num \in Nat
  /\ Reading => num <= Len(input) /\ num <= size
  /\ ret \in -2..(2 * MaxSize) /\ failed \in BOOLEAN /\ signals \in 0..MaxSignals
  /\ stream \in Seq(1..MaxSize) /\ short \in BOOLEAN
  /\ fn = "fd_write" => num = Len(stream)

\* readblock() is all or nothing: its result is the size, with that many bytes
\* consumed, or 0 with none consumed at the end of the input, or -1; signals and
\* short reads do not matter.  readwriteblock() relies on it ("can only be 0 or
\* -1", restart_lib-Robbins.c:221).
BlockResult ==
  fn = "readblock" /\ ret # Running =>
    /\ ret \in {size, 0, -1}
    /\ ret = size => num = size
    /\ ret = 0 => input = <<>>
    /\ ret = -1 /\ ~ failed => 0 < Len(input) /\ Len(input) < size

\* The first line ends at position k of the input.
LineEnd(k) ==
  k \in 1..Len(input) /\ input[k] = "\n" /\ \A j \in 1..(k - 1) : input[j] # "\n"

\* readline() returns exactly the first line, with its newline and room for the
\* NUL, and consumes nothing behind it; without an error it returns -1 only if
\* the line does not fit or does not end.
LineResult ==
  fn = "readline" /\ ret # Running =>
    /\ ret > 0 => LineEnd(ret) /\ num = ret /\ ret <= size - 1
    /\ ret = 0 => input = <<>>
    /\ ret = -1 /\ ~ failed => \A k \in 1..(size - 1) : ~ LineEnd(k)

\* fd_write() never sends as much as two replies, and when the socket takes
\* everything at once it sends exactly the reply.
OverrunBounded ==
  fn = "fd_write" =>
    /\ Len(stream) < 2 * size
    /\ ret > 0 /\ ~ short => stream = Bytes(size)

Returned == ret # Running

\* "Make the write() run in a loop guaranteeing that all data is transferred"
\* (cpudtl_tstsvr.c:248).
AllTransferred == fn = "fd_write" /\ ret > 0 => stream = Bytes(size)
=============================================================================
