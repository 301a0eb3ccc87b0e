---------------------------- MODULE NdnTransport ----------------------------
(***************************************************************************)
(* The transports of the NDNgo library: sockettransport over stream and    *)
(* datagram sockets, packettransport over a packet handle, memiftransport  *)
(* over libmemif, all on top of l3.TransportBase.  A transport is a pair   *)
(* of Go channels and the goroutines rxLoop, txLoop and, for sockets,      *)
(* redialLoop; around them, the socket or shared memory that fails and     *)
(* comes back, and an application that closes Tx.                          *)
(*                                                                         *)
(* A packet is <<connection, number>>; on a stream it is PacketSize octets *)
(* <<connection, number, position>>, and the first tells the size.         *)
(***************************************************************************)
EXTENDS Integers, Sequences, SequencesExt

CONSTANTS Kinds,          \* of "stream", "datagram", "packet", "memif"
          WriteErrors,    \* kinds where Write may fail before Read does
          Packets,        \* packets each side sends on one connection
          MaxConnections,
          PacketSize, RxQueueSize

Sockets == {"stream", "datagram"}

VARIABLES kind,
          state,                  \* TransportBase
          tx, txClosed, rx, rxClosed,
          conn, connNo,           \* the socket, and how often it was dialed
          arrived,                \* octets or packets it has not given to Read
          sentByPeer,
          buffer,                 \* RxLoop's partial input
          posting,                \* what it has yet to write to Rx
          err, closing, closed,   \* channel err (capacity 1), channel closing, the flag
          rxPc, txPc, redialPc,
          got                     \* what the application read from Rx

sockVars == <<conn, connNo, arrived, sentByPeer>>
syncVars == <<err, closing, closed>>
vars == <<kind, state, tx, txClosed, rx, rxClosed, sockVars, buffer, posting, syncVars, rxPc, txPc, redialPc, got>>

Init == /\ kind \in Kinds
        /\ state = "up" /\ tx = <<>> /\ txClosed = FALSE /\ rx = <<>> /\ rxClosed = FALSE
        /\ conn = "open" /\ connNo = 1 /\ arrived = <<>> /\ sentByPeer = 0
        /\ buffer = <<>> /\ posting = <<>> /\ err = 0 /\ closing = FALSE /\ closed = FALSE
        /\ rxPc = "read" /\ txPc = "recv" /\ redialPc = IF kind \in Sockets THEN "select" ELSE "none"
        /\ got = <<>>

(* SetState; its callbacks are those of the face above. *)
SetState(st) == state' = st

----------------------------------------------------------------------------
(* The other end. *)

Octets(c, n) == [i \in 1 .. PacketSize |-> <<c, n, i>>]

peerSends ==
    /\ conn = "open" /\ sentByPeer < Packets /\ connNo <= MaxConnections
    /\ sentByPeer' = sentByPeer + 1
    /\ arrived' = arrived \o (IF kind = "stream" THEN Octets(connNo, sentByPeer') ELSE << <<connNo, sentByPeer'>> >>)
    /\ UNCHANGED <<kind, state, tx, txClosed, rx, rxClosed, conn, connNo, buffer, posting, syncVars, rxPc, txPc, redialPc, got>>

(* Connections past MaxConnections neither fail nor carry packets. *)
NextConnection == IF connNo > MaxConnections THEN connNo ELSE connNo + 1

(* The connection fails: nothing more is read from it. *)
connFails ==
    /\ conn = "open" /\ connNo <= MaxConnections
    /\ conn' = "failed" /\ arrived' = <<>>
    /\ SetState(IF kind = "memif" THEN "down" ELSE state)      \* memifDisconnected
    /\ UNCHANGED <<kind, tx, txClosed, rx, rxClosed, connNo, sentByPeer, buffer, posting, syncVars, rxPc, txPc, redialPc, got>>

memifConnected ==
    /\ kind = "memif" /\ conn = "failed"
    /\ conn' = "open" /\ connNo' = NextConnection /\ sentByPeer' = 0
    /\ SetState("up")
    /\ UNCHANGED <<kind, tx, txClosed, rx, rxClosed, arrived, buffer, posting, syncVars, rxPc, txPc, redialPc, got>>

----------------------------------------------------------------------------
(* rxLoop. *)

(* streamRxLooper: complete elements go to Rx, the rest stays. *)
Complete(b) == IF b # <<>> /\ b[1][3] # 1 THEN 1 ELSE PacketSize
Elements(b) == IF Len(b) < Complete(b) THEN <<>> ELSE <<SubSeq(b, 1, Complete(b))>>

MutParse(b) == [elements |-> Elements(b), rest |-> <<>>]

Parse(b) == [elements |-> Elements(b),
             rest |-> IF Elements(b) = <<>> THEN b ELSE SubSeq(b, Complete(b) + 1, Len(b))]

RxLoopRead(n) ==
    /\ rxPc = "read" /\ posting = <<>> /\ conn = "open" /\ ~(kind = "memif" /\ closed)
    /\ n <= Len(arrived)
    /\ arrived' = SubSeq(arrived, n + 1, Len(arrived))
    /\ IF kind = "stream"
       THEN LET parsed == Parse(buffer \o SubSeq(arrived, 1, n))
            IN buffer' = parsed.rest /\ posting' = parsed.elements
       ELSE n = 1 /\ posting' = <<arrived[1]>> /\ UNCHANGED buffer
    /\ UNCHANGED <<kind, state, tx, txClosed, rx, rxClosed, conn, connNo, sentByPeer, syncVars, rxPc, txPc, redialPc, got>>

(* Sockets wait for room in Rx; the others drop. *)
RxLoopPost ==
    /\ posting # <<>>
    /\ IF Len(rx) < RxQueueSize THEN rx' = Append(rx, posting[1])
       ELSE kind \notin Sockets /\ UNCHANGED rx
    /\ posting' = Tail(posting)
    /\ UNCHANGED <<kind, state, tx, txClosed, rxClosed, sockVars, buffer, syncVars, rxPc, txPc, redialPc, got>>

(* RxLoop returns the error of Read, which begins anew with an empty       *)
(* buffer if the transport is not closed.                                  *)
RxLoopError ==
    /\ kind \in Sockets /\ rxPc = "read" /\ posting = <<>> /\ conn # "open"
    /\ rxPc' = "err" /\ buffer' = <<>>
    /\ UNCHANGED <<kind, state, tx, txClosed, rx, rxClosed, sockVars, posting, syncVars, txPc, redialPc, got>>

rxLoopErr ==
    /\ rxPc = "err" /\ err = 0
    /\ err' = 1
    /\ rxPc' = "check"
    /\ UNCHANGED <<kind, state, tx, txClosed, rx, rxClosed, sockVars, buffer, posting, closing, closed, txPc, redialPc, got>>

rxLoopCheck ==
    /\ rxPc = "check"
    /\ IF closed THEN rxPc' = "done" /\ rxClosed' = TRUE /\ SetState("closed")
       ELSE rxPc' = "read" /\ UNCHANGED <<rxClosed, state>>
    /\ UNCHANGED <<kind, tx, txClosed, rx, sockVars, buffer, posting, syncVars, txPc, redialPc, got>>

(* packettransport: end of file; memiftransport: the handle is closed. *)
rxLoopEOF(k, eof) ==
    /\ kind = k /\ rxPc = "read" /\ posting = <<>> /\ eof
    /\ rxPc' = "done" /\ rxClosed' = TRUE
    /\ UNCHANGED <<kind, state, tx, txClosed, rx, sockVars, buffer, posting, syncVars, txPc, redialPc, got>>

packetRxLoopEOF == rxLoopEOF("packet", conn # "open")
memifRxLoopEOF  == rxLoopEOF("memif", closed)

----------------------------------------------------------------------------
(* txLoop. *)

txLoopWrite ==
    /\ txPc = "recv" /\ tx # <<>>
    /\ tx' = Tail(tx)
    /\ txPc' = IF conn # "open" /\ kind \in Sockets /\ kind \in WriteErrors THEN "err" ELSE "recv"
    /\ UNCHANGED <<kind, state, txClosed, rx, rxClosed, sockVars, buffer, posting, syncVars, rxPc, redialPc, got>>

txLoopErr ==
    /\ txPc = "err" /\ err = 0
    /\ err' = 1 /\ txPc' = "recv"
    /\ UNCHANGED <<kind, state, tx, txClosed, rx, rxClosed, sockVars, buffer, posting, closing, closed, rxPc, redialPc, got>>

(* Tx is closed: a socket is left to redialLoop, another handle closed. *)
txLoopEnd(k) ==
    /\ kind = k /\ txPc = "recv" /\ tx = <<>> /\ txClosed
    /\ txPc' = "done"
    /\ UNCHANGED <<kind, tx, txClosed, rx, rxClosed, connNo, sentByPeer, buffer, posting, err, rxPc, redialPc, got>>

socketTxLoopEnd == \E k \in Sockets : txLoopEnd(k) /\ closing' = TRUE /\ UNCHANGED <<closed, conn, arrived, state>>

packetTxLoopEnd == /\ txLoopEnd("packet") /\ conn' = "closed" /\ arrived' = <<>> /\ SetState("closed")
                   /\ UNCHANGED <<closing, closed>>

memifHandleClose == closed' = TRUE /\ SetState("closed") /\ conn' = "closed" /\ arrived' = <<>>

memifTxLoopEnd == txLoopEnd("memif") /\ memifHandleClose /\ UNCHANGED closing

----------------------------------------------------------------------------
(* redialLoop. *)

redialError ==
    /\ redialPc = "select" /\ err = 1
    /\ err' = 0 /\ redialPc' = "redial"
    /\ SetState("down")
    /\ UNCHANGED <<kind, tx, txClosed, rx, rxClosed, sockVars, buffer, posting, closing, closed, rxPc, txPc, got>>

(* handleError: Redial closes the old socket and dials, until it succeeds; *)
(* of a datagram socket, it keeps the old one.                             *)
redialFails ==
    /\ redialPc = "redial" /\ kind = "stream"
    /\ conn' = "failed" /\ arrived' = <<>>
    /\ UNCHANGED <<kind, state, tx, txClosed, rx, rxClosed, connNo, sentByPeer, buffer, posting, syncVars, rxPc, txPc, redialPc, got>>

redialSucceeds ==
    /\ redialPc = "redial"
    /\ conn' = "open"
    /\ IF kind = "stream" \/ conn # "open"
       THEN connNo' = NextConnection /\ arrived' = <<>> /\ sentByPeer' = 0
       ELSE UNCHANGED <<connNo, arrived, sentByPeer>>
    /\ redialPc' = "drain"
    /\ UNCHANGED <<kind, state, tx, txClosed, rx, rxClosed, buffer, posting, syncVars, rxPc, txPc, got>>

(* drainErrors and setDown(false). *)
redialDrain ==
    /\ redialPc = "drain"
    /\ err' = 0 /\ redialPc' = "select"
    /\ SetState("up")
    /\ UNCHANGED <<kind, tx, txClosed, rx, rxClosed, sockVars, buffer, posting, closing, closed, rxPc, txPc, got>>

redialClosing ==
    /\ redialPc = "select" /\ closing
    /\ closed' = TRUE /\ redialPc' = "close"
    /\ UNCHANGED <<kind, state, tx, txClosed, rx, rxClosed, sockVars, buffer, posting, err, closing, rxPc, txPc, got>>

(* drainErrors, and Close. *)
redialClose ==
    /\ redialPc = "close"
    /\ err' = 0 /\ redialPc' = "done" /\ conn' = "closed" /\ arrived' = <<>>
    /\ UNCHANGED <<kind, state, tx, txClosed, rx, rxClosed, connNo, sentByPeer, buffer, posting, closing, closed, rxPc, txPc, got>>

----------------------------------------------------------------------------
(* The application. *)

appSends ==
    /\ ~txClosed /\ Len(tx) = 0 /\ conn # "closed"
    /\ tx' = << <<0, 0>> >>
    /\ UNCHANGED <<kind, state, txClosed, rx, rxClosed, sockVars, buffer, posting, syncVars, rxPc, txPc, redialPc, got>>

appCloses ==
    /\ ~txClosed
    /\ txClosed' = TRUE
    /\ UNCHANGED <<kind, state, tx, rx, rxClosed, sockVars, buffer, posting, syncVars, rxPc, txPc, redialPc, got>>

appReads ==
    /\ rx # <<>>
    /\ rx' = Tail(rx)
    /\ got' = Append(got, Head(rx))
    /\ UNCHANGED <<kind, state, tx, txClosed, rxClosed, sockVars, buffer, posting, syncVars, rxPc, txPc, redialPc>>

rxLoop == (\E n \in 1 .. PacketSize : RxLoopRead(n)) \/ RxLoopPost \/ RxLoopError \/ rxLoopErr \/ rxLoopCheck
          \/ packetRxLoopEOF \/ memifRxLoopEOF
txLoop == txLoopWrite \/ txLoopErr \/ socketTxLoopEnd \/ packetTxLoopEnd \/ memifTxLoopEnd
redialLoop == redialError \/ redialFails \/ redialSucceeds \/ redialDrain \/ redialClosing \/ redialClose
app == appSends \/ appCloses \/ appReads
peer == peerSends \/ connFails \/ memifConnected

Next == rxLoop \/ txLoop \/ redialLoop \/ app \/ peer

(* Goroutines are scheduled fairly, the application reads its Rx, and the  *)
(* peer can be dialed some time; a select with several channels ready      *)
(* does not pass over one of them forever.                                 *)
Fairness == /\ WF_vars(rxLoop) /\ WF_vars(txLoop) /\ WF_vars(appReads)
            /\ WF_vars(redialError \/ redialDrain \/ redialClose) /\ SF_vars(redialClosing)
            /\ SF_vars(redialSucceeds)

Spec == Init /\ [][Next]_vars /\ Fairness

----------------------------------------------------------------------------
(* What the application reads are packets the peer sent, whole and in      *)
(* order, from however many connections and reads they were put together.  *)
WholePackets ==
    LET id(x) == IF kind = "stream" THEN <<x[1][1], x[1][2]>> ELSE x
    IN /\ kind = "stream" => \A k \in DOMAIN got : got[k] = Octets(id(got[k])[1], id(got[k])[2])
       /\ \A j, k \in DOMAIN got : j < k =>
            LET x == id(got[j])  y == id(got[k]) IN x[1] < y[1] \/ (x[1] = y[1] /\ x[2] < y[2])
============================================================================
