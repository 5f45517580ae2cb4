------------------------ MODULE HeaderExchangeProofs ------------------------
(***************************************************************************)
(* Client and server understand each other's headers, for every header     *)
(* field and every message, when both convert the fields and the header is *)
(* the one of version 3; requests are understood in version 2.1 too.  The  *)
(* runs header_sync_client and header_reply_v2 show why the others are     *)
(* left out.                                                               *)
(***************************************************************************)
EXTENDS HeaderExchange, SequenceTheorems, TLAPS

-----------------------------------------------------------------------------
(* One field of a header. *)
\* The high and the low byte of a 16-bit value.
LEMMA SplitUShort ==
  ASSUME NEW u \in UShort
  PROVE  /\ u % 256 \in Byte
         /\ u \div 256 \in Byte
         /\ u = 256 * (u \div 256) + (u % 256)
BY SMT DEF UShort, Byte

\* Two bytes put together give back each of them.
LEMMA JoinBytes ==
  ASSUME NEW h \in Byte, NEW l \in Byte
  PROVE  /\ 256 * h + l \in UShort
         /\ (256 * h + l) % 256 = l
         /\ (256 * h + l) \div 256 = h
BY SMT DEF UShort, Byte

\* Both byte-order conversions exchange the two bytes of a value.
LEMMA Swap ==
  ASSUME NEW u \in UShort
  PROVE  /\ host_to_network_short(u) \in UShort
         /\ network_to_host_short(u) \in UShort
         /\ network_to_host_short(host_to_network_short(u)) = u
<1> DEFINE l == u % 256
           h == u \div 256
<1>1. l \in Byte /\ h \in Byte /\ u = 256 * h + l
  BY SplitUShort
<1>2. host_to_network_short(u) = 256 * l + h /\ network_to_host_short(u) = 256 * l + h
  BY DEF host_to_network_short, network_to_host_short
<1> HIDE DEF l, h
<1>3. 256 * l + h \in UShort /\ (256 * l + h) % 256 = h /\ (256 * l + h) \div 256 = l
  BY <1>1, JoinBytes
<1>4. network_to_host_short(256 * l + h) = 256 * h + l
  BY <1>3 DEF network_to_host_short
<1>. QED  BY <1>1, <1>2, <1>3, <1>4

\* What SendNode's constructor writes as a field, HandleRead (and the JSON
\* clients, which read the same way) decode to the same short.
THEOREM FieldRoundTrip ==
  ASSUME NEW s \in Short
  PROVE  /\ EncodeShort(s) \in Byte \X Byte
         /\ DecodeShort(EncodeShort(s)[1], EncodeShort(s)[2]) = s
<1> DEFINE u == AsUShort(s)
           w == host_to_network_short(u)
<1>1. u \in UShort /\ AsShort(u) = s
  BY SMT DEF AsUShort, AsShort, UShort, Short
<1> HIDE DEF u
<1>2. w \in UShort /\ network_to_host_short(w) = u
  BY <1>1, Swap
<1>3. EncodeShort(s) = <<w % 256, w \div 256>>
  BY DEF EncodeShort, StoreShort, u
<1> HIDE DEF w
<1>4. w % 256 \in Byte /\ w \div 256 \in Byte /\ LoadShort(w % 256, w \div 256) = w
  <2>1. w % 256 \in Int /\ w \div 256 \in Int
    BY <1>2, SplitUShort DEF Byte
  <2>. QED  BY <1>2, <2>1, SplitUShort DEF LoadShort
<1>5. DecodeShort(w % 256, w \div 256) = s
  BY <1>1, <1>2, <1>4 DEF DecodeShort
<1>. QED  BY <1>3, <1>4, <1>5

-----------------------------------------------------------------------------
(* Two fields. *)
\* The elements of two pairs put together.
LEMMA ConcatPairs ==
  ASSUME NEW S, NEW s \in Seq(S), NEW t \in Seq(S), Len(s) = 2, Len(t) = 2
  PROVE  /\ (s \o t)[1] = s[1] /\ (s \o t)[2] = s[2]
         /\ (s \o t)[3] = t[1] /\ (s \o t)[4] = t[2]
<1> DEFINE c == s \o t
<1>1. \A i \in 1 .. Len(s) + Len(t) : c[i] = IF i <= Len(s) THEN s[i] ELSE t[i - Len(s)]
  BY ConcatProperties
<1> HIDE DEF c
<1>2. \A i \in 1 .. 4 : c[i] = IF i <= 2 THEN s[i] ELSE t[i - 2]
  BY <1>1
<1>3. c[1] = s[1] /\ c[2] = s[2] /\ c[3] = t[1] /\ c[4] = t[2]
  BY <1>2
<1>. QED  BY <1>3 DEF c

\* The four bytes of a header are the bytes of its two fields.
LEMMA HeadFields ==
  ASSUME NEW e \in Byte \X Byte, NEW f \in Byte \X Byte
  PROVE  /\ (e \o f)[1] = e[1] /\ (e \o f)[2] = e[2]
         /\ (e \o f)[3] = f[1] /\ (e \o f)[4] = f[2]
<1>1. /\ e \in Seq(Byte) /\ Len(e) = 2
      /\ f \in Seq(Byte) /\ Len(f) = 2
  <2>1. PICK a \in Byte, b \in Byte : e = <<a, b>>  OBVIOUS
  <2>2. PICK c \in Byte, d \in Byte : f = <<c, d>>  OBVIOUS
  <2>. QED  BY <2>1, <2>2
<1>. QED  BY <1>1, ConcatPairs

\* Narrowing gives a short, and leaves a short as it is.
LEMMA Narrow ==
  ASSUME NEW n \in Int
  PROVE  /\ NarrowShort(n) \in Short
         /\ n % 65536 \in UShort
         /\ n \in Short => NarrowShort(n) = n
<1>1. n % 65536 \in UShort
  BY SMT DEF UShort
<1>2. NarrowShort(n) \in Short
  BY <1>1, SMT DEF NarrowShort, AsShort, UShort, Short
<1>3. ASSUME n \in Short PROVE NarrowShort(n) = n
  BY <1>3, SMT DEF NarrowShort, AsShort, Short
<1>. QED  BY <1>1, <1>2, <1>3

\* The conversion from unsigned short to short does not map two values to one.
LEMMA AsShortInjective ==
  ASSUME NEW u \in UShort, NEW v \in UShort, AsShort(u) = AsShort(v)
  PROVE  u = v
BY SMT DEF AsShort, UShort

\* What the json-Clients read into an int is the field without its sign.
LEMMA UnsignedField ==
  ASSUME NEW n \in Int
  PROVE  LET e == EncodeShort(NarrowShort(n))
         IN  network_to_host_short(LoadShort(e[1], e[2])) = n % 65536
<1> DEFINE s == NarrowShort(n)
           e == EncodeShort(s)
           w == LoadShort(e[1], e[2])
<1>1. s \in Short /\ n % 65536 \in UShort
  BY Narrow
<1>2. e \in Byte \X Byte /\ DecodeShort(e[1], e[2]) = s
  BY <1>1, FieldRoundTrip
<1>3. AsShort(n % 65536) = s
  BY DEF NarrowShort
<1> HIDE DEF e, s
<1>4. e[1] \in Byte /\ e[2] \in Byte
  BY <1>2
<1>5. w \in UShort
  BY <1>4, SMT DEF LoadShort, Byte, UShort
<1>6. AsShort(network_to_host_short(w)) = s
  BY <1>2 DEF DecodeShort
<1> HIDE DEF w
<1>7. network_to_host_short(w) \in UShort
  BY <1>5, Swap
<1>8. network_to_host_short(w) = n % 65536
  BY <1>1, <1>3, <1>6, <1>7, AsShortInjective
<1>. QED  BY <1>8 DEF w, e, s

-----------------------------------------------------------------------------
\* A request header is understood by the server it is made for.
LEMMA RequestRoundTrip ==
  ASSUME Client = "NetworkOrder", NEW id \in Short, NEW len \in Short
  PROVE  LET h == ServerDecode(ClientHead(id, len))
         IN  h.len = len /\ (HasId => h.id = id)
<1> DEFINE e == EncodeShort(id)
           f == EncodeShort(len)
<1>1. /\ e \in Byte \X Byte /\ DecodeShort(e[1], e[2]) = id
      /\ f \in Byte \X Byte /\ DecodeShort(f[1], f[2]) = len
  BY FieldRoundTrip
<1>2. CASE Version = "2.1"
  <2>1. ClientHead(id, len) = f
    BY <1>2 DEF ClientHead
  <2>2. ServerDecode(f) = [id |-> 0, len |-> DecodeShort(f[1], f[2])]
    BY <1>2 DEF ServerDecode
  <2>. QED  BY <1>1, <1>2, <2>1, <2>2 DEF HasId
<1>3. CASE Version # "2.1"
  <2>1. ClientHead(id, len) = e \o f
    BY <1>3 DEF ClientHead
  <2> DEFINE b == e \o f
  <2>2. ServerDecode(b) = [id |-> DecodeShort(b[1], b[2]), len |-> DecodeShort(b[3], b[4])]
    BY <1>3 DEF ServerDecode
  <2>3. b[1] = e[1] /\ b[2] = e[2] /\ b[3] = f[1] /\ b[4] = f[2]
    BY <1>1, HeadFields
  <2> HIDE DEF b, e, f
  <2>4. ServerDecode(b) = [id |-> id, len |-> len]
    BY <1>1, <2>2, <2>3
  <2>. QED  BY <2>1, <2>4 DEF b
<1>. QED  BY <1>2, <1>3

\* The header of an answer is understood by the client, as far as its id and
\* length fit.
LEMMA ReplyRoundTrip ==
  ASSUME Version = "3", Client = "NetworkOrder", NEW id \in Int, NEW len \in Int
  PROVE  LET h == ClientDecode(ServerHead(id, len))
         IN  (len \in Short => h.len = len) /\ h.id = id % 65536
<1> DEFINE e == EncodeShort(NarrowShort(id))
           f == EncodeShort(NarrowShort(len))
           b == e \o f
<1>1. /\ e \in Byte \X Byte
      /\ f \in Byte \X Byte /\ DecodeShort(f[1], f[2]) = NarrowShort(len)
  BY FieldRoundTrip, Narrow
<1>2. network_to_host_short(LoadShort(e[1], e[2])) = id % 65536
  BY UnsignedField
<1>3. ServerHead(id, len) = b
  BY DEF ServerHead, SendNodeHead
<1>4. ClientDecode(b) = [id |-> network_to_host_short(LoadShort(b[1], b[2])),
                         len |-> DecodeShort(b[3], b[4])]
  BY DEF ClientDecode
<1>5. b[1] = e[1] /\ b[2] = e[2] /\ b[3] = f[1] /\ b[4] = f[2]
  BY <1>1, HeadFields
<1>6. len \in Short => NarrowShort(len) = len
  BY Narrow
<1> HIDE DEF b, e, f
<1>7. ClientDecode(b) = [id |-> id % 65536, len |-> NarrowShort(len)]
  BY <1>1, <1>2, <1>4, <1>5
<1>. QED  BY <1>3, <1>6, <1>7

\* A text whose length does not fit a short has a node of negative size, which
\* cannot be made.
LEMMA SentFits ==
  ASSUME Version = "3", NEW n \in ReplySizes, NodeSize(n) >= 0, n < 65536
  PROVE  n \in Short
<1>1. n \in Nat /\ n % 65536 < 65531
  BY ExchangeAssumption
<1>2. HeadLength = 4
  BY DEF HeadLength, HEAD_TOTAL_LEN
<1>3. n % 65536 = n
  BY <1>1, SMT
<1>4. CASE n < 32768
  BY <1>1, <1>4 DEF Short
<1>5. CASE n >= 32768
  <2>1. NarrowShort(n) = n - 65536
    BY <1>1, <1>3, <1>5 DEF NarrowShort, AsShort
  <2>2. NodeSize(n) = AsShort((n - 65532) % 65536)
    BY <1>1, <1>2, <2>1 DEF NodeSize, NarrowShort
  <2>3. (n - 65532) % 65536 = n + 4
    BY <1>1, <1>3, <1>5, SMT
  <2>4. NodeSize(n) = n - 65532
    BY <1>1, <1>5, <2>2, <2>3 DEF AsShort
  <2>. QED  BY <1>1, <1>3, <2>4
<1>. QED  BY <1>1, <1>4, <1>5

-----------------------------------------------------------------------------
(* The invariant: in each phase the bytes are the header of what the       *)
(* sender means, or what has been heard is that.                           *)
RequestInv ==
  /\ phase = "request" => /\ meant.id \in Short /\ meant.len \in Short
                          /\ bytes = ClientHead(meant.id, meant.len)
  /\ RequestUnderstood

ReplyInv ==
  /\ phase = "reply" => /\ meant.id \in Int /\ meant.len \in Int
                        /\ meant.len < 65536 => meant.len \in Short
                        /\ bytes = ServerHead(meant.id, meant.len)
  /\ ReplyUnderstood

\* The server reads from the header of every request what the client has put
\* in, in version 2.1 and 3, whatever the values.
THEOREM RequestsUnderstood ==
  ASSUME Client = "NetworkOrder"
  PROVE  Spec => []RequestUnderstood
<1>1. Init => RequestInv
  BY DEF Init, RequestInv, RequestUnderstood
<1>2. RequestInv /\ [Next]_vars => RequestInv'
  <2> SUFFICES ASSUME RequestInv, [Next]_vars PROVE RequestInv'
    OBVIOUS
  <2>1. ASSUME NEW id \in Ids, NEW len \in Lens, ClientSend(id, len) PROVE RequestInv'
    <3>1. id \in Short /\ len \in Short
      BY ExchangeAssumption
    <3>. QED  BY <2>1, <3>1 DEF ClientSend, RequestInv, RequestUnderstood
  <2>2. CASE ServerRead
    <3>1. /\ meant.id \in Short /\ meant.len \in Short
          /\ heard' = ServerDecode(ClientHead(meant.id, meant.len))
      BY <2>2 DEF ServerRead, RequestInv
    <3>2. heard'.len = meant.len /\ (HasId => heard'.id = meant.id)
      BY <3>1, RequestRoundTrip
    <3>. QED  BY <2>2, <3>2 DEF ServerRead, RequestInv, RequestUnderstood, HasId
  <2>3. ASSUME NEW id \in ReplyIds, NEW len \in ReplySizes, ServerSend(id, len)
        PROVE  RequestInv'
    BY <2>3 DEF ServerSend, RequestInv, RequestUnderstood
  <2>4. ASSUME NEW len \in ReplySizes, ServerThrows(len) PROVE RequestInv'
    BY <2>4 DEF ServerThrows, RequestInv, RequestUnderstood
  <2>5. CASE ClientRead
    BY <2>5 DEF ClientRead, RequestInv, RequestUnderstood
  <2>6. CASE NextRequest
    BY <2>6 DEF NextRequest, RequestInv, RequestUnderstood
  <2>7. CASE Over \/ UNCHANGED vars
    BY <2>7 DEF Over, vars, RequestInv, RequestUnderstood
  <2>. QED  BY <2>1, <2>2, <2>3, <2>4, <2>5, <2>6, <2>7 DEF Next
<1>3. RequestInv => RequestUnderstood
  BY DEF RequestInv
<1>. QED  BY <1>1, <1>2, <1>3, PTL DEF Spec

\* The client reads the length of every answer of less than 64 KB that the server
\* sends, and the lower 16 bits of its id, whatever the answer's id and text are:
\* an answer whose length does not fit a short is not sent.
THEOREM RepliesUnderstood ==
  ASSUME Version = "3", Client = "NetworkOrder"
  PROVE  Spec => []ReplyUnderstood
<1>1. Init => ReplyInv
  BY DEF Init, ReplyInv, ReplyUnderstood
<1>2. ReplyInv /\ [Next]_vars => ReplyInv'
  <2> SUFFICES ASSUME ReplyInv, [Next]_vars PROVE ReplyInv'
    OBVIOUS
  <2>1. ASSUME NEW id \in Ids, NEW len \in Lens, ClientSend(id, len) PROVE ReplyInv'
    BY <2>1 DEF ClientSend, ReplyInv, ReplyUnderstood
  <2>2. CASE ServerRead
    BY <2>2 DEF ServerRead, ReplyInv, ReplyUnderstood
  <2>3. ASSUME NEW id \in ReplyIds, NEW len \in ReplySizes, ServerSend(id, len)
        PROVE  ReplyInv'
    <3>1. id \in Int /\ len \in Int
      BY ExchangeAssumption
    <3>2. len < 65536 => len \in Short
      BY <2>3, SentFits DEF ServerSend
    <3>. QED  BY <2>3, <3>1, <3>2 DEF ServerSend, ReplyInv, ReplyUnderstood
  <2>4. ASSUME NEW len \in ReplySizes, ServerThrows(len) PROVE ReplyInv'
    BY <2>4 DEF ServerThrows, ReplyInv, ReplyUnderstood
  <2>5. CASE ClientRead
    <3>1. /\ meant.id \in Int /\ meant.len \in Int
          /\ meant.len < 65536 => meant.len \in Short
          /\ heard' = ClientDecode(ServerHead(meant.id, meant.len))
      BY <2>5 DEF ClientRead, ReplyInv
    <3>2. (meant.len \in Short => heard'.len = meant.len) /\ heard'.id = meant.id % 65536
      BY <3>1, ReplyRoundTrip
    <3>. QED  BY <2>5, <3>2 DEF ClientRead, ReplyInv, ReplyUnderstood
  <2>6. CASE NextRequest
    BY <2>6 DEF NextRequest, ReplyInv, ReplyUnderstood
  <2>7. CASE Over \/ UNCHANGED vars
    BY <2>7 DEF Over, vars, ReplyInv, ReplyUnderstood
  <2>. QED  BY <2>1, <2>2, <2>3, <2>4, <2>5, <2>6, <2>7 DEF Next
<1>3. ReplyInv => ReplyUnderstood
  BY DEF ReplyInv
<1>. QED  BY <1>1, <1>2, <1>3, PTL DEF Spec
=============================================================================
