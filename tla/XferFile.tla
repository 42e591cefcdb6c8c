------------------------------ MODULE XferFile ------------------------------
(***************************************************************************)
(* zero_copy_sendfile/xfer_file.c: a server that handles one client after  *)
(* the other and sends it the file it asks for, with a read/write loop     *)
(* (-t) or with one sendfile() (-m), and the client, which reads until end *)
(* of file into DESTFILE.  The server's end of a connection, by close() or *)
(* because the server has ended, looks the same to the client.  Bytes are  *)
(* counted; a byte stands for a part of a page.                            *)
(***************************************************************************)
EXTENDS Naturals, FiniteSets

CONSTANTS Clients,
          NoClient,
          Sizes,     \* sizes of the file that is asked for
          PAGE,      \* getpagesize(): size of rbuf[]
          SENDMAX,   \* the most that one sendfile() sends (0x7ffff000 bytes)
          SOCKBUF    \* what a socket holds

\* The values the constants may have.
XferFileAssumption ==
  /\ NoClient \notin Clients /\ Sizes \subseteq Nat
  /\ {PAGE, SENDMAX, SOCKBUF} \subseteq Nat \ {0}

VARIABLES how,     \* "traditional" or "modern"
          size,    \* of the file
          pc,      \* server: "accept", "name", "open", "next", "send", "close", "exit1", "killed"
          newsd,   \* the client that is served
          pos,     \* bytes of the file that were read, or given to sendfile()
          left,    \* of these, the ones not yet written
          name,    \* the name as the server has it: "none", "good", "bad"
          conn,    \* the server's side of a connection: "none", "queued", "serving", "closed"
          cpc,     \* client: "idle", "name", "dest", "recv", "done", "err", "gone"
          asked,   \* the name a client has sent: "none", "good", "bad"
          sock,    \* bytes on their way to it
          dest,    \* bytes in its DESTFILE
          cut      \* the clients whose connection the end of the server has cut

vars == <<how, size, pc, newsd, pos, left, name, conn, cpc, asked, sock, dest, cut>>

server == <<pc, newsd, pos, left, name, cut>>
file == <<how, size>>

Init ==
  /\ how \in {"traditional", "modern"} /\ size \in Sizes
  /\ pc = "accept" /\ newsd = NoClient /\ pos = 0 /\ left = 0 /\ name = "none"
  /\ conn = [c \in Clients |-> "none"] /\ cpc = [c \in Clients |-> "idle"]
  /\ asked = [c \in Clients |-> "none"]
  /\ sock = [c \in Clients |-> 0] /\ dest = [c \in Clients |-> 0] /\ cut = {}

Least(a, b) == IF a < b THEN a ELSE b
Up == pc \notin {"exit1", "killed"}

\* The end of the server closes the connection it serves and resets the others.
End(why) ==
  /\ pc' = why
  /\ cut' = {c \in Clients : conn[c] \in {"queued", "serving"}}

-----------------------------------------------------------------------------
(* The server.                                                             *)

Accept ==
  /\ pc = "accept"
  /\ \E c \in Clients :
       /\ conn[c] = "queued"
       /\ conn' = [conn EXCEPT ![c] = "serving"] /\ newsd' = c
  /\ pc' = "name" /\ pos' = 0 /\ left' = 0 /\ name' = "none"
  /\ UNCHANGED <<file, cpc, asked, sock, dest, cut>>

\* One read() of the name; it may bring the first part only, which names no file,
\* or nothing from a client that has gone.
ReadName ==
  /\ pc = "name"
  /\ \/ asked[newsd] # "none" /\ name' \in {asked[newsd], "bad"}
     \/ cpc[newsd] = "gone" /\ name' = "bad"
  /\ pc' = "open"
  /\ UNCHANGED <<file, newsd, pos, left, cut, conn, cpc, asked, sock, dest>>

\* Open fails: err_exit() ends the server.  Otherwise one sendfile() of st_size
\* bytes, or the loop.
OpenFile ==
  /\ pc = "open"
  /\ IF name = "bad" THEN End("exit1") /\ UNCHANGED <<pos, left>>
     ELSE /\ pc' = IF how = "modern" THEN "send" ELSE "next"
          /\ left' = IF how = "modern" THEN Least(size, SENDMAX) ELSE 0
          /\ pos' = left' /\ UNCHANGED cut
  /\ UNCHANGED <<file, newsd, name, conn, cpc, asked, sock, dest>>

\* Mutant of ReadBlock: a short read is taken for the end of the file.
ReadBlock_Short ==
  /\ pc = "next"
  /\ LET nr == Least(PAGE, size - pos)
     IN  IF nr < PAGE THEN pc' = "close" /\ UNCHANGED <<pos, left>>
                      ELSE pc' = "send" /\ left' = nr /\ pos' = pos + nr
  /\ UNCHANGED <<file, newsd, name, cut, conn, cpc, asked, sock, dest>>

\* r_read(fd_send, rbuf, sizeof(rbuf)).
ReadBlock ==
  /\ pc = "next"
  /\ LET nr == Least(PAGE, size - pos)
     IN  IF nr = 0 THEN pc' = "close" /\ UNCHANGED <<pos, left>>
                   ELSE pc' = "send" /\ left' = nr /\ pos' = pos + nr
  /\ UNCHANGED <<file, newsd, name, cut, conn, cpc, asked, sock, dest>>

\* r_write(sd, rbuf, nr) or sendfile(), byte by byte as the socket has room.  When
\* the client has gone what is written is lost, until SIGPIPE ends the server.
Send ==
  /\ pc = "send"
  /\ \/ /\ left = 0 /\ pc' = IF how = "modern" THEN "close" ELSE "next"
        /\ UNCHANGED <<left, cut, sock>>
     \/ /\ left > 0 /\ cpc[newsd] # "gone" /\ sock[newsd] < SOCKBUF
        /\ left' = left - 1 /\ sock' = [sock EXCEPT ![newsd] = @ + 1]
        /\ UNCHANGED <<pc, cut>>
     \/ /\ left > 0 /\ cpc[newsd] \in {"gone", "err"}
        /\ left' = left - 1 /\ UNCHANGED <<pc, cut, sock>>
     \/ /\ left > 0 /\ cpc[newsd] \in {"gone", "err"}
        /\ End("killed") /\ UNCHANGED <<left, sock>>
  /\ UNCHANGED <<file, newsd, pos, name, conn, cpc, asked, dest>>

Close ==
  /\ pc = "close"
  /\ conn' = [conn EXCEPT ![newsd] = "closed"] /\ pc' = "accept"
  /\ UNCHANGED <<file, newsd, pos, left, name, cut, cpc, asked, sock, dest>>

-----------------------------------------------------------------------------
(* A client.                                                               *)

\* connect(), refused when the server has ended.
Connect(c) ==
  /\ cpc[c] = "idle"
  /\ IF Up THEN /\ conn' = [conn EXCEPT ![c] = "queued"] /\ cpc' = [cpc EXCEPT ![c] = "name"]
           ELSE cpc' = [cpc EXCEPT ![c] = "err"] /\ UNCHANGED conn
  /\ UNCHANGED <<file, server, asked, sock, dest>>

\* r_write(sd, argv[1], strlen(argv[1])).
SendName(c) ==
  /\ cpc[c] = "name"
  /\ IF c \in cut THEN cpc' = [cpc EXCEPT ![c] = "err"] /\ UNCHANGED asked
     ELSE /\ cpc' = [cpc EXCEPT ![c] = "dest"]
          /\ asked' \in {[asked EXCEPT ![c] = n] : n \in {"good", "bad"}}
  /\ UNCHANGED <<file, server, conn, sock, dest>>

\* r_open3(DESTFILE, O_WRONLY|O_TRUNC|O_CREAT): it may fail.
OpenDest(c) ==
  /\ cpc[c] = "dest" /\ cpc' \in {[cpc EXCEPT ![c] = s] : s \in {"recv", "err"}}
  /\ UNCHANGED <<file, server, conn, asked, sock, dest>>

\* Mutant of Recv: one r_read() only.
Recv_Once(c) ==
  /\ cpc[c] = "recv" /\ sock[c] > 0
  /\ LET nr == Least(PAGE, sock[c])
     IN  sock' = [sock EXCEPT ![c] = @ - nr] /\ dest' = [dest EXCEPT ![c] = @ + nr]
  /\ cpc' = [cpc EXCEPT ![c] = "done"]
  /\ UNCHANGED <<file, server, conn, asked>>

\* r_read(sd, rbuf, sizeof(rbuf)); r_write(fd_dest, rbuf, nr).
Recv(c) ==
  /\ cpc[c] = "recv" /\ sock[c] > 0
  /\ LET nr == Least(PAGE, sock[c])
     IN  sock' = [sock EXCEPT ![c] = @ - nr] /\ dest' = [dest EXCEPT ![c] = @ + nr]
  /\ UNCHANGED <<file, server, conn, cpc, asked>>

\* End of file; a connection that was cut may also give a read error.
RecvEnd(c) ==
  /\ cpc[c] = "recv" /\ sock[c] = 0 /\ (conn[c] = "closed" \/ c \in cut)
  /\ cpc' \in {[cpc EXCEPT ![c] = s] : s \in IF c \in cut THEN {"done", "err"} ELSE {"done"}}
  /\ UNCHANGED <<file, server, conn, asked, sock, dest>>

\* Somebody interrupts the client.
Interrupt(c) ==
  /\ cpc[c] \in {"name", "dest", "recv"}
  /\ cpc' = [cpc EXCEPT ![c] = "gone"]
  /\ UNCHANGED <<file, server, conn, asked, sock, dest>>

-----------------------------------------------------------------------------
process_client == ReadName \/ OpenFile \/ ReadBlock \/ Send \/ Close

Client(c) == SendName(c) \/ OpenDest(c) \/ Recv(c) \/ RecvEnd(c)

Next ==
  \/ Accept \/ process_client
  \/ \E c \in Clients : Connect(c) \/ Client(c) \/ Interrupt(c)

Spec == Init /\ [][Next]_vars

-----------------------------------------------------------------------------
(* Properties.                                                             *)

\* Every variable has its type.
TypeOK ==
  /\ how \in {"traditional", "modern"} /\ size \in Sizes
  /\ pc \in {"accept", "name", "open", "next", "send", "close", "exit1", "killed"}
  /\ newsd \in Clients \cup {NoClient} /\ pos \in 0..size /\ left \in 0..pos
  /\ name \in {"none", "good", "bad"} /\ asked \in [Clients -> {"none", "good", "bad"}]
  /\ conn \in [Clients -> {"none", "queued", "serving", "closed"}]
  /\ cpc \in [Clients -> {"idle", "name", "dest", "recv", "done", "err", "gone"}]
  /\ sock \in [Clients -> 0..SOCKBUF] /\ dest \in [Clients -> 0..size]
  /\ cut \subseteq Clients

\* The server is in one transfer at a time, and its bytes are in one place: still
\* to be written, on the way, or in the file of the client.
OnePlace ==
  /\ \A c, d \in Clients : conn[c] = "serving" /\ conn[d] = "serving" => c = d
  /\ pc \in {"next", "send", "close"} /\ cpc[newsd] \notin {"gone", "err"} =>
       left + sock[newsd] + dest[newsd] = pos

\* All that the server means to send: with one sendfile() SENDMAX bytes at most.
Whole == IF how = "modern" THEN Least(size, SENDMAX) ELSE size

\* A client that ends without an error has the whole file, unless the end of the
\* server cut its connection, which the client cannot tell from the end of the file.
WholeFile == \A c \in Clients : cpc[c] = "done" /\ c \notin cut => dest[c] = Whole

\* The server ends only for a name it cannot open, or has not read whole, or a
\* client that has ended before its file was sent.
StopExplained ==
  /\ pc = "exit1" => name = "bad"
  /\ pc = "killed" => cpc[newsd] \in {"gone", "err"}

\* The client has ended.
Settled(c) == cpc[c] \in {"done", "err", "gone"}
=============================================================================
