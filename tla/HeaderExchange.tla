--------------------------- MODULE HeaderExchange ---------------------------
(***************************************************************************)
(* One connection between a client and a server program, request by        *)
(* request: what each side means by a message header and what the other    *)
(* one makes of it.  Bodies are left out; FrameReader is about them.       *)
(*                                                                         *)
(* Version 2.1 (Server/) has a header of one field, the length, and        *)
(* version 3 (both Server-version-3 programs) one of two, id and length.   *)
(* The client is SyncClient, which goes with version 2.1, or one that      *)
(* converts the fields as the json-Clients do.                             *)
(***************************************************************************)
EXTENDS WireFormat

CONSTANTS Version,     (* "2.1" or "3"                                       *)
          Client,      (* "SyncClient" or "NetworkOrder"                     *)
          MAX_LENGTH,
          Ids, Lens,   (* what a client may put in a header                  *)
          ReplyIds,    (* root["id"].asInt() of an answer                    *)
          ReplySizes   (* length of an answer's text, but for a few whose    *)
                       (* narrowed value makes the copy into the node undefined *)

ASSUME ExchangeAssumption ==
  /\ Version \in {"2.1", "3"} /\ Client \in {"SyncClient", "NetworkOrder"}
  /\ MAX_LENGTH \in Nat
  /\ Ids \subseteq Short /\ Lens \subseteq Short /\ \A n \in Lens : n >= 0
  /\ ReplyIds \subseteq Int
  /\ ReplySizes \subseteq {n \in Nat : n % 65536 < 65531}

VARIABLES phase,   (* whose turn it is                                       *)
          meant,   (* the header the sender means: [id, len]                 *)
          bytes,   (* the header on the wire                                 *)
          heard    (* what the receiver has decoded                          *)

vars == <<phase, meant, bytes, heard>>

NoHeader == [id |-> 0, len |-> 0]

Init == /\ phase = "client"
        /\ meant = NoHeader
        /\ bytes = <<>>
        /\ heard = NoHeader

-----------------------------------------------------------------------------
HeadLength == IF Version = "2.1" THEN 2 ELSE HEAD_TOTAL_LEN

\* The request header as the client puts it into send_data.
ClientHead(id, len) ==
  IF Client = "SyncClient" THEN SyncClientHead(len)
  ELSE IF Version = "2.1" THEN EncodeShort(len)
  ELSE EncodeShort(id) \o EncodeShort(len)

\* A mutant of ServerHead that writes the length in front of the id.
ServerHeadSwapped(id, len) ==
  IF Version = "2.1" THEN MsgNodeHead(NarrowShort(len))
  ELSE SendNodeHead(NarrowShort(len), NarrowShort(id))

\* The reply header as MsgNode's or SendNode's constructor writes it; Send
\* takes id and length as shorts.
ServerHead(id, len) ==
  IF Version = "2.1" THEN MsgNodeHead(NarrowShort(len))
  ELSE SendNodeHead(NarrowShort(id), NarrowShort(len))

\* A mutant of ServerDecode that does not convert the length.
ServerDecodeHostOrder(b) ==
  [id |-> DecodeShort(b[1], b[2]), len |-> AsShort(LoadShort(b[3], b[4]))]

\* The fields HandleRead gets out of the header node.
ServerDecode(b) ==
  IF Version = "2.1" THEN [id |-> 0, len |-> DecodeShort(b[1], b[2])]
  ELSE [id |-> DecodeShort(b[1], b[2]), len |-> DecodeShort(b[3], b[4])]

\* The fields a client gets out of reply_head; the json-Clients keep the id
\* in an int, which network_to_host_short fills with its unsigned result.
ClientDecode(b) ==
  IF Client = "SyncClient" THEN [id |-> 0, len |-> SyncClientLen(b[1], b[2])]
  ELSE IF Version = "2.1" THEN [id |-> 0, len |-> DecodeShort(b[1], b[2])]
  ELSE [id |-> network_to_host_short(LoadShort(b[1], b[2])),
        len |-> DecodeShort(b[3], b[4])]

-----------------------------------------------------------------------------
ClientSend(id, len) ==
  /\ phase = "client"
  /\ phase' = "request"
  /\ meant' = [id |-> id, len |-> len]
  /\ bytes' = ClientHead(id, len)
  /\ UNCHANGED heard

Refuses(h) == h.id > MAX_LENGTH \/ h.len > MAX_LENGTH

ServerRead ==
  /\ phase = "request"
  /\ heard' = ServerDecode(bytes)
  /\ phase' = IF Refuses(heard') THEN "refused" ELSE "server"
  /\ UNCHANGED <<meant, bytes>>

\* A mutant of NodeSize that leaves it as wide as the text's length is.
NodeSizeWide(len) == len + HeadLength

\* The node's size is a short too.  new char[] throws when it has become
\* negative; the logic thread does not catch that.
NodeSize(len) == NarrowShort(NarrowShort(len) + HeadLength)

ServerThrows(len) ==
  /\ phase = "server"
  /\ NodeSize(len) < 0
  /\ phase' = "terminated"
  /\ UNCHANGED <<meant, bytes, heard>>

ServerSend(id, len) ==
  /\ phase = "server"
  /\ NodeSize(len) >= 0
  /\ phase' = "reply"
  /\ meant' = [id |-> id, len |-> len]
  /\ bytes' = ServerHead(id, len)
  /\ UNCHANGED heard

ClientRead ==
  /\ phase = "reply"
  /\ heard' = ClientDecode(bytes)
  /\ phase' = "done"
  /\ UNCHANGED <<meant, bytes>>

NextRequest ==
  /\ phase = "done"
  /\ phase' = "client"
  /\ UNCHANGED <<meant, bytes, heard>>

\* The server has dropped the session, or is no more.
Over == phase \in {"refused", "terminated"} /\ UNCHANGED vars

Next == \/ \E id \in Ids, len \in Lens : ClientSend(id, len)
        \/ ServerRead
        \/ \E id \in ReplyIds, len \in ReplySizes : ServerSend(id, len)
        \/ \E len \in ReplySizes : ServerThrows(len)
        \/ ClientRead \/ NextRequest \/ Over

Spec == Init /\ [][Next]_vars

-----------------------------------------------------------------------------
(***************************************************************************)
(* Properties.                                                             *)
(***************************************************************************)
HasId == Version = "3"

\* The server reads from the header what the client has put in: README, "When
\* received, convert the network byte order into the host byte order".
RequestUnderstood ==
  phase \in {"server", "refused"} => /\ heard.len = meant.len
                                     /\ HasId => heard.id = meant.id

\* The client reads the length of the answer the server has sent, up to the 64 KB
\* a header can tell apart: a text too long for the short Send makes of its length
\* never goes out with a negative one, and from 32764 bytes on no answer goes out
\* at all.  Of the id, an int in the message, it reads the lower 16 bits.  README,
\* "Convert the host byte order into the network byte order and send it".
ReplyUnderstood ==
  phase = "done" /\ meant.len < 65536 =>
    /\ heard.len = meant.len
    /\ HasId => heard.id = meant.id % 65536

\* A session is dropped only for a field that really is too large.
DroppedForCause == phase = "refused" => Refuses(meant)
=============================================================================
