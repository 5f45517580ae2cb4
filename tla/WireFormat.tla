----------------------------- MODULE WireFormat -----------------------------
(***************************************************************************)
(* The message header on the wire: two 16-bit fields, message id and body  *)
(* length, as SendNode writes them and CSession::HandleRead and the clients*)
(* read them.  A header is a sequence of bytes in memory order; the build  *)
(* is for a little-endian host, so memcpy to or from a short puts the low  *)
(* byte first.  The fields are signed shorts in the code.                  *)
(***************************************************************************)
EXTENDS Integers, Sequences

HEAD_ID_LEN    == 2
HEAD_DATA_LEN  == 2
HEAD_TOTAL_LEN == 4

Byte   == {n \in Int : 0 <= n /\ n < 256}
UShort == {n \in Int : 0 <= n /\ n < 65536}
Short  == {n \in Int : -32768 <= n /\ n < 32768}

\* Conversions between short and unsigned short of the same width.
AsShort(u)  == IF u < 32768 THEN u ELSE u - 65536
AsUShort(s) == IF s < 0 THEN s + 65536 ELSE s

\* Narrowing of an int or a size_t to short keeps the low 16 bits.
NarrowShort(n) == AsShort(n % 65536)

-----------------------------------------------------------------------------
(* memcpy between a 16-bit variable and two bytes of memory. *)
StoreShort(u)     == <<u % 256, u \div 256>>
LoadShort(b0, b1) == b0 + 256 * b1

(* boost::asio::detail::socket_ops byte-order conversions. *)
host_to_network_short(u) == 256 * (u % 256) + u \div 256
network_to_host_short(u) == 256 * (u % 256) + u \div 256

\* host_to_network_long(n) of an int holding a short, followed by a memcpy of
\* its first two bytes: in memory the most significant byte comes first, so
\* the bytes are the two upper bytes of the 32-bit value.
UpperBytesOfLong(s) == IF s < 0 THEN <<255, 255>> ELSE <<0, 0>>

-----------------------------------------------------------------------------
(* Server-version-3-multi-thread: what SendNode's constructor puts in      *)
(* front of the body, and what HandleRead gets back from the four bytes.   *)
EncodeShort(s)      == StoreShort(host_to_network_short(AsUShort(s)))
DecodeShort(b0, b1) == AsShort(network_to_host_short(LoadShort(b0, b1)))

SendNodeHead(id, len) == EncodeShort(id) \o EncodeShort(len)

(* Server (version 2.1): MsgNode's constructor; Client: SyncClient.        *)
MsgNodeHead(len)        == UpperBytesOfLong(len)
SyncClientHead(len)     == StoreShort(len)
SyncClientLen(b0, b1)   == AsShort(LoadShort(b0, b1))
=============================================================================
