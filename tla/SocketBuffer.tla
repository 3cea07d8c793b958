---------------------------- MODULE SocketBuffer ----------------------------
(***************************************************************************)
(* network/netplay/netplay_buf.c: the ring buffers between netplay and its *)
(* TCP sockets, here the send buffer of one peer, the receive buffer of    *)
(* the other and the stream between them.                                  *)
(*                                                                         *)
(* The bytes of a connection are numbered in the order netplay_send is     *)
(* given them, and a byte is its number: what netplay_recv hands out can   *)
(* be compared with what was put in.  A blocking send is several steps, as *)
(* the other peer goes on meanwhile; everything else is one.               *)
(***************************************************************************)
EXTENDS Integers, SequencesExt, FiniteSetsExt

CONSTANTS SmallSize,  \* size of the buffers before the state size is known
          BigSize,    \* and after netplay_try_init_serialization
          Lengths,    \* lengths of the pieces sent and received
          NetCap,     \* what the kernel buffers
          MaxBytes    \* bound on the bytes of one connection

ASSUME SizeAssumption == /\ SmallSize \in Nat \ {0, 1} /\ BigSize \in Nat
                         /\ SmallSize <= BigSize
ASSUME NetAssumption == /\ NetCap \in Nat \ {0} /\ MaxBytes \in Nat
                        /\ Lengths \subseteq Nat \ {0}

VARIABLES snd, rcv,   \* struct socket_buffer
          net,        \* bytes in the kernel, oldest first
          alive,      \* the receiver has not hung up
          spc, slen,  \* sender: inside a blocking send, bytes left to place
          queued,     \* history: bytes given to netplay_send
          short,      \* receiver: the last netplay_recv was short
          got,        \* receiver: bytes of the command being read
          flushed     \* history: bytes of commands read completely

vars == <<snd, rcv, net, alive, spc, slen, queued, short, got, flushed>>
sender == <<snd, spc, slen, queued>>
receiver == <<rcv, alive, short, got, flushed>>

(* netplay_init_socket_buffer; malloc does not clear the data *)
NewBuffer(size) == [data |-> [i \in 0..(size - 1) |-> -1], bufsz |-> size,
                    start |-> 0, read |-> 0, end |-> 0]

Fresh == /\ snd' = NewBuffer(SmallSize) /\ rcv' = NewBuffer(SmallSize)
         /\ net' = <<>> /\ alive' = TRUE
         /\ spc' = "idle" /\ slen' = 0 /\ queued' = 0
         /\ short' = FALSE /\ got' = <<>> /\ flushed' = 0

Init == /\ snd = NewBuffer(SmallSize) /\ rcv = NewBuffer(SmallSize)
        /\ net = <<>> /\ alive = TRUE
        /\ spc = "idle" /\ slen = 0 /\ queued = 0
        /\ short = FALSE /\ got = <<>> /\ flushed = 0

buf_used(b) == IF b.end < b.start THEN b.end + b.bufsz - b.start
                                  ELSE b.end - b.start
buf_unread(b) == IF b.end < b.read THEN b.end + b.bufsz - b.read
                                   ELSE b.end - b.read

(* mutant: the ring may be filled to the last byte *)
buf_remaining_Full(b) == b.bufsz - buf_used(b)

buf_remaining(b) == b.bufsz - buf_used(b) - 1

(* the n bytes from offset i, around the edge *)
Bytes(b, i, n) == [k \in 1..n |-> b.data[(i + k - 1) % b.bufsz]]
Space == NetCap - Len(net)

-----------------------------------------------------------------------------
(* Sending *)

(* memcpy into data at offset i, not beyond the edge *)
Copy(data, i, bytes) ==
  [j \in DOMAIN data |-> IF j \in i..(i + Len(bytes) - 1)
                           THEN bytes[j - i + 1] ELSE data[j]]

(* the copy at the end of netplay_send: two halves, or straight in *)
Put(b, bytes) ==
  LET len == Len(bytes)
      chunka == b.bufsz - b.end
  IN IF chunka < len
       THEN [b EXCEPT !.data = Copy(Copy(@, b.end, SubSeq(bytes, 1, chunka)),
                                    0, SubSeq(bytes, chunka + 1, len)),
                      !.end = len - chunka]
       ELSE [b EXCEPT !.data = Copy(@, b.end, bytes), !.end = @ + len]

NewBytes(len) == [k \in 1..len |-> queued + k - 1]

netplay_send(len) ==
  /\ alive /\ spc = "idle" /\ queued + len <= MaxBytes
  /\ IF buf_remaining(snd) >= len
       THEN /\ snd' = Put(snd, NewBytes(len)) /\ queued' = queued + len
            /\ UNCHANGED <<spc, slen>>
       ELSE /\ spc' = "flush" /\ slen' = len
            /\ UNCHANGED <<snd, queued>>
  /\ UNCHANGED <<net, receiver>>

(* start moves on; around the edge the flush goes on from 0, and an empty  *)
(* buffer starts again at 0                                                *)
AfterSend(b, n) ==
  LET start == IF b.end > b.start \/ b.start + n < b.bufsz
                 THEN b.start + n ELSE b.start + n - b.bufsz
  IN IF start = b.end THEN [b EXCEPT !.start = 0, !.end = 0]
                      ELSE [b EXCEPT !.start = start]

SendBytes(n) ==
  /\ net' = net \o Bytes(snd, snd.start, n)
  /\ snd' = AfterSend(snd, n)

(* netplay_send_flush without block: as much as the kernel takes *)
netplay_send_flush ==
  /\ alive /\ spc = "idle"
  /\ \E n \in 1..Min({buf_used(snd), Space}) : SendBytes(n)
  /\ UNCHANGED <<spc, slen, queued, receiver>>

(* netplay_send_flush with block, called by netplay_send *)
FlushBlocking ==
  /\ alive /\ spc = "flush"
  /\ \E n \in 1..Min({buf_used(snd), Space}) : SendBytes(n)
  /\ UNCHANGED <<spc, slen, queued, receiver>>

(* mutant: a piece bigger than the buffer waits for room *)
Flushed_NoDirect ==
  /\ alive /\ spc = "flush" /\ buf_used(snd) = 0
  /\ buf_remaining(snd) >= slen
  /\ snd' = Put(snd, NewBytes(slen)) /\ queued' = queued + slen
  /\ spc' = "idle" /\ slen' = 0
  /\ UNCHANGED <<net, receiver>>

(* The flush returned: there is room now, or the piece is bigger than the  *)
(* buffer and goes to the socket directly.                                 *)
Flushed ==
  /\ alive /\ spc = "flush" /\ buf_used(snd) = 0
  /\ IF buf_remaining(snd) >= slen
       THEN /\ snd' = Put(snd, NewBytes(slen)) /\ queued' = queued + slen
            /\ spc' = "idle" /\ slen' = 0
       ELSE /\ spc' = "direct" /\ UNCHANGED <<snd, slen, queued>>
  /\ UNCHANGED <<net, receiver>>

SendDirect ==
  /\ alive /\ spc = "direct"
  /\ \E n \in 1..Min({slen, Space}) :
       /\ net' = net \o NewBytes(n)
       /\ queued' = queued + n
       /\ slen' = slen - n
       /\ spc' = IF n = slen THEN "idle" ELSE "direct"
  /\ UNCHANGED <<snd, receiver>>

-----------------------------------------------------------------------------
(* Receiving *)

(* recv(2) of at most room bytes into data at end.  "The value 0 may also  *)
(* be returned if the requested number of bytes to receive from a stream   *)
(* socket was 0"; socket_receive_all_nonblocking takes 0 for the end of    *)
(* the stream.                                                             *)
RecvClosed(room) == room = 0 /\ net # <<>>
RecvCount(room) == Min({room, Len(net)})

FirstRoom(b) ==
  IF b.end >= b.start THEN b.bufsz - b.end - (IF b.start = 0 THEN 1 ELSE 0)
                      ELSE b.start - b.end - 1

(* mutant: the test for the edge is off by one *)
FillBuffer_Late(b) ==
  LET n1 == RecvCount(FirstRoom(b))
      b1 == [b EXCEPT !.data = Copy(@, b.end, SubSeq(net, 1, n1)),
                      !.end = @ + n1]
  IN IF RecvClosed(FirstRoom(b)) THEN [ok |-> FALSE, buf |-> b, n |-> 0]
     ELSE [ok |-> TRUE, buf |-> b1, n |-> n1]

(* The first half of netplay_recv: [ok, buf, n] *)
FillBuffer(b) ==
  LET n1 == RecvCount(FirstRoom(b))
      b1 == [b EXCEPT !.data = Copy(@, b.end, SubSeq(net, 1, n1)),
                      !.end = @ + n1]
      rest == SubSeq(net, n1 + 1, Len(net))
      m2 == Min({b.start - 1, Len(rest)})
  IN IF RecvClosed(FirstRoom(b)) THEN [ok |-> FALSE, buf |-> b, n |-> 0]
     ELSE IF b1.end < b.bufsz THEN [ok |-> TRUE, buf |-> b1, n |-> n1]
     ELSE IF b.start = 1 /\ rest # <<>>
       THEN [ok |-> FALSE, buf |-> [b1 EXCEPT !.end = 0], n |-> n1]
     ELSE [ok |-> TRUE, n |-> n1 + m2,
           buf |-> [b1 EXCEPT !.data = Copy(@, 0, SubSeq(rest, 1, m2)),
                              !.end = m2]]

(* The second half: how many bytes are copied to the reader. *)
TakeCount(b, len) ==
  IF b.end >= b.read \/ b.bufsz - b.read >= len
    THEN Min({len, buf_unread(b)})
    ELSE LET chunka == b.bufsz - b.read
             pchunklen == len - chunka
         IN chunka + (IF pchunklen >= b.end THEN b.end ELSE pchunklen)

(* read moves on, and around the edge. *)
Advance(b, n) ==
  [b EXCEPT !.read = IF b.read + n >= b.bufsz THEN b.read + n - b.bufsz
                                              ELSE b.read + n]

(* A command is read piece by piece; after a short piece it is given up. *)
netplay_recv(len) ==
  /\ alive /\ ~short
  /\ LET f == FillBuffer(rcv)
         n == TakeCount(f.buf, len)
     IN IF f.ok
          THEN /\ rcv' = Advance(f.buf, n)
               /\ got' = got \o Bytes(f.buf, f.buf.read, n)
               /\ short' = (n < len)
               /\ net' = SubSeq(net, f.n + 1, Len(net))
               /\ UNCHANGED <<alive, flushed>>
          ELSE alive' = FALSE /\ UNCHANGED <<rcv, net, short, got, flushed>>
  /\ UNCHANGED sender

(* mutant: the command is not read again *)
netplay_recv_reset_Keep ==
  /\ alive /\ short
  /\ short' = FALSE /\ got' = <<>>
  /\ UNCHANGED <<rcv, net, sender, alive, flushed>>

netplay_recv_reset ==
  /\ alive /\ short
  /\ rcv' = [rcv EXCEPT !.read = rcv.start]
  /\ short' = FALSE /\ got' = <<>>
  /\ UNCHANGED <<net, sender, alive, flushed>>

netplay_recv_flush ==
  /\ alive /\ ~short /\ got # <<>>
  /\ rcv' = [rcv EXCEPT !.start = rcv.read]
  /\ flushed' = flushed + Len(got)
  /\ got' = <<>>
  /\ UNCHANGED <<net, sender, alive, short>>

-----------------------------------------------------------------------------
(* netplay_resize_socket_buffer: unwrap into a new block *)
Resized(b, size) ==
  [data |-> Copy(NewBuffer(size).data, 0, Bytes(b, b.start, buf_used(b))),
   bufsz |-> size,
   start |-> 0,
   read |-> IF b.read < b.start THEN b.read + b.bufsz - b.start
                                ELSE b.read - b.start,
   end |-> buf_used(b)]

(* netplay_init_socket_buffers runs on each side when the core can save *)
ResizeSend ==
  /\ alive /\ spc = "idle" /\ snd.bufsz < BigSize
  /\ snd' = Resized(snd, BigSize)
  /\ UNCHANGED <<net, spc, slen, queued, receiver>>

ResizeRecv ==
  /\ alive /\ ~short /\ rcv.bufsz < BigSize
  /\ rcv' = Resized(rcv, BigSize)
  /\ UNCHANGED <<net, sender, alive, short, got, flushed>>

(* netplay_hangup was called; the peer connects again *)
Reconnect == ~alive /\ Fresh

Send == \/ \E len \in Lengths : netplay_send(len)
        \/ netplay_send_flush \/ FlushBlocking \/ Flushed \/ SendDirect
Recv == \/ \E len \in Lengths : netplay_recv(len)
        \/ netplay_recv_reset \/ netplay_recv_flush

Next == Send \/ Recv \/ ResizeSend \/ ResizeRecv \/ Reconnect

Spec == Init /\ [][Next]_vars

(* A blocking send spins on the socket, and the other peer polls every     *)
(* frame.                                                                  *)
FairSpec == /\ Spec
            /\ WF_vars(FlushBlocking \/ Flushed \/ SendDirect)
            /\ WF_vars(Recv)

-----------------------------------------------------------------------------
(* Properties *)

Count(from, n) == [k \in 1..n |-> from + k - 1]

(* Whatever the pattern of sends, flushes, short reads and resizes: the    *)
(* receive buffer, the kernel and the send buffer hold, in this order,     *)
(* exactly the bytes that were sent and not yet flushed by the reader.     *)
NoByteLost ==
  alive => Bytes(rcv, rcv.start, buf_used(rcv)) \o net
             \o Bytes(snd, snd.start, buf_used(snd))
           = Count(flushed, queued - flushed)

(* The reader gets the bytes of its command in order, and a reset command  *)
(* is read again from its first byte.                                      *)
ReadInOrder == got = Count(flushed, Len(got))

(* netplay_recv "Returns number of bytes returned, which may be short or   *)
(* 0, or -1 on error".  No one closes the socket here: a receive fails     *)
(* only when more has arrived than the ring can hold beside the part of a  *)
(* command that is there already, wherever in the ring it lies.            *)
HangsUpOnlyWhenFull ==
  [][alive /\ ~alive' => buf_used(rcv) + Len(net) >= rcv.bufsz]_vars

(* A blocking send ends while the other peer reads, whatever it reads. *)
BlockingSendReturns == spc # "idle" ~> spc = "idle" \/ ~alive

=============================================================================
