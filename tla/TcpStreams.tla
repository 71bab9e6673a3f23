----------------------------- MODULE TcpStreams ----------------------------
(***************************************************************************)
(* A connection as two byte streams: module Tcp implements ByteStream in   *)
(* both directions.                                                        *)
(***************************************************************************)
EXTENDS Tcp

\* From the peer to the application: the peer's bytes and its FIN, what read()
\* has copied out, and the end of file read() has reported.
In == INSTANCE ByteStream WITH
          written <- IF peer.snd > PeerBytes THEN PeerBytes ELSE peer.snd,
          closed <- peer.snd > PeerBytes,
          taken <- delivered,
          eof <- app.ret = "eof"

\* From the application to the peer, up to the FIN: what write() has accepted
\* and what the peer has received in sequence.
Out == INSTANCE ByteStream WITH
          written <- wrote,
          closed <- app.pc = "closed",
          taken <- peer.got,
          eof <- FALSE

\* read() (tcp_data_queue, tcp_consume_ofo_queue, tcp_data_dequeue, tcp_read)
\* gives the application a byte stream: the peer's bytes in order, and the end
\* of file after the last one, whatever is lost, repeated, reordered or cut
\* differently on retransmission.
ReadsStream == In!Spec

\* write() (tcp_send, tcp_send_next, tcp_retransmission_timeout) gives the peer
\* a byte stream: at every time what the peer has is a beginning of what was
\* written, in the order of the write() calls, whatever is lost, repeated,
\* reordered or retransmitted.
WritesStream == Out!Spec
=============================================================================
