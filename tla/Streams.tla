------------------------------- MODULE Streams -------------------------------
(***************************************************************************)
(* Messages over TCP (src/src/lo/send.c, server.c): a sender puts the      *)
(* length in front of a message or, as other OSC programs do, ends it with *)
(* a SLIP delimiter; the server finds out which, decodes SLIP into the     *)
(* form with lengths, and cuts the messages out of the buffer that belongs *)
(* to the index of the socket.                                             *)
(*                                                                         *)
(* framing      how a peer delimits its messages                           *)
(* link         none, waiting (to be accepted), open, closed or ended      *)
(* wire         bytes that were sent and not read                          *)
(* sent, got    history: messages of a peer, and those dispatched as its   *)
(* sockets      the peers of the server's sockets, by index                *)
(* contexts     their buffers: bytes, where the message begins that is     *)
(*              being decoded, whether it is SLIP (Unknown at first) and   *)
(*              in an escape                                               *)
(*                                                                         *)
(* A length takes two bytes here instead of four.                          *)
(***************************************************************************)
EXTENDS Integers, Sequences, SequencesExt

CONSTANTS Peers, Framings,
          Orderly,   \* restricts Send, ReadSome and Drop to where the code works
          Bodies,    \* messages: sequences of bytes that begin with Slash
          MaxChunk,  \* bound: bytes read at once; a quarter of a buffer is free
          MaxSent    \* bound: messages of each peer

VARIABLES framing, link, wire, sent, got, sockets, contexts
vars == <<framing, link, wire, sent, got, sockets, contexts>>

Slash == 47
SlipEnd == 192
SlipEsc == 219
SlipEscEnd == 220
SlipEscEsc == 221

Word == 2
Length(n) == <<n \div 256, n % 256>>
NoLength == Length(0)

Unknown == -1
Fresh == [bytes |-> <<>>, from |-> 0, slip |-> Unknown, escaped |-> FALSE]    \* init_context
Cleaned == [Fresh EXCEPT !.slip = 0]                                          \* cleanup_context

-----------------------------------------------------------------------------
(* What a sender puts on the wire: slip_encode, send_data. *)

Escape(b) == IF b = SlipEnd THEN <<SlipEsc, SlipEscEnd>>
             ELSE IF b = SlipEsc THEN <<SlipEsc, SlipEscEsc>> ELSE <<b>>
Encode(how, m) ==
  LET slip == FlattenSeq([i \in DOMAIN m |-> Escape(m[i])]) \o <<SlipEnd>>
  IN  CASE how = "length" -> Length(Len(m)) \o m
        [] how = "slip" -> slip
        [] how = "double" -> <<SlipEnd>> \o slip

-----------------------------------------------------------------------------
(* The buffer of a socket. *)

(* lo_server_buffer_contains_msg: what does not begin like a message is    *)
(* thrown away with all that follows it.                                   *)
SaysLength(c) == 256 * c.bytes[1] + c.bytes[2]
Invalid(c) == Len(c.bytes) > Word /\ c.bytes[Word + 1] # Slash
HoldsMessage(c) == /\ Len(c.bytes) > Word /\ ~Invalid(c)
               /\ SaysLength(c) > 0 /\ SaysLength(c) + Word <= Len(c.bytes)
Cleared(c) == IF Invalid(c) THEN [c EXCEPT !.bytes = <<>>, !.from = 0] ELSE c

(* lo_server_buffer_copy_for_dispatch *)
First(c) == SubSeq(c.bytes, Word + 1, Word + SaysLength(c))
CutKeeping(c) == [c EXCEPT !.bytes = SubSeq(@, Word + SaysLength(c) + 1, Len(@))]
Cut(c) == LET n == Word + SaysLength(c)
          IN  [c EXCEPT !.bytes = SubSeq(@, n + 1, Len(@)), !.from = @ - n]

(* detect_slip *)
LooksLikeSlip(b) == b[1] = Slash \/ (b[1] = SlipEnd /\ b[2] = Slash)

(* The end of a SLIP message: its length goes in front of it, and room is  *)
(* left for that of the next.  Empty messages are skipped.                 *)
EndMessage(c) ==
  LET n == Len(c.bytes) - c.from - Word
  IN  IF n = 0 THEN c
      ELSE [c EXCEPT !.bytes = ReplaceAt(ReplaceAt(@, c.from + 1, n \div 256), c.from + 2, n % 256)
                                 \o NoLength,
                     !.from = @ + n + Word]

(* slip_decode and the loop around it. *)
DecodeForgetting(c, b) ==
  IF b = SlipEnd THEN EndMessage(c) ELSE [c EXCEPT !.bytes = Append(@, b)]
DecodeByte(c, b) ==
  IF c.escaped
  THEN [c EXCEPT !.escaped = FALSE, !.bytes = Append(@, IF b = SlipEscEnd THEN SlipEnd ELSE SlipEsc)]
  ELSE IF b = SlipEnd THEN EndMessage(c)
  ELSE IF b = SlipEsc THEN [c EXCEPT !.escaped = TRUE]
  ELSE [c EXCEPT !.bytes = Append(@, b)]

(* lo_server_recv_raw_stream_socket, once some bytes have been received:   *)
(* the first ones show what kind of stream it is.                          *)
Received(c, bytes) ==
  LET known == IF c.slip # Unknown \/ Len(c.bytes) + Len(bytes) < Word THEN c.slip
               ELSE IF LooksLikeSlip(c.bytes \o bytes) THEN 1 ELSE 0
      room == IF known = 1 /\ c.slip = Unknown THEN c.bytes \o NoLength ELSE c.bytes
      next == [c EXCEPT !.slip = known, !.bytes = room]
  IN  IF known = 1 THEN FoldLeft(DecodeByte, next, bytes) ELSE [next EXCEPT !.bytes = @ \o bytes]

-----------------------------------------------------------------------------
Init ==
  /\ framing \in [Peers -> Framings]
  /\ link = [p \in Peers |-> "none"] /\ wire = [p \in Peers |-> <<>>]
  /\ sent = [p \in Peers |-> <<>>] /\ got = sent
  /\ sockets = <<>> /\ contexts = <<>>

Connect(p) ==
  /\ link[p] = "none" /\ link' = [link EXCEPT ![p] = "waiting"]
  /\ UNCHANGED <<framing, wire, sent, got, sockets, contexts>>

(* send_data: the socket does not block and may take a part only, which is *)
(* not noticed.                                                            *)
Send(p, m, n) ==
  /\ link[p] \in {"waiting", "open"} /\ Len(sent[p]) < MaxSent[p]
  /\ Orderly => n = Len(Encode(framing[p], m))
  /\ wire' = [wire EXCEPT ![p] = @ \o SubSeq(Encode(framing[p], m), 1, n)]
  /\ sent' = [sent EXCEPT ![p] = Append(@, m)]
  /\ UNCHANGED <<framing, link, got, sockets, contexts>>

Close(p) ==
  /\ link[p] = "open" /\ link' = [link EXCEPT ![p] = "closed"]
  /\ UNCHANGED <<framing, wire, sent, got, sockets, contexts>>

(* lo_servers_wait, lo_server_add_socket: the context at the new index is  *)
(* made anew, whatever an earlier socket left there.                       *)
Accept(p) ==
  /\ link[p] = "waiting" /\ link' = [link EXCEPT ![p] = "open"]
  /\ sockets' = Append(sockets, p)
  /\ contexts' = IF Len(contexts) > Len(sockets) THEN ReplaceAt(contexts, Len(sockets) + 1, Fresh)
                 ELSE Append(contexts, Fresh)
  /\ UNCHANGED <<framing, wire, sent, got>>

(* lo_server_recv_raw_stream: messages that are complete come first. *)
Pending == {i \in DOMAIN sockets : HoldsMessage(contexts[i])}

Dispatch(i) ==
  /\ i \in Pending /\ \A j \in Pending : i <= j
  /\ got' = [got EXCEPT ![sockets[i]] = Append(@, First(contexts[i]))]
  /\ contexts' = ReplaceAt(contexts, i, Cut(contexts[i]))
  /\ UNCHANGED <<framing, link, wire, sent, sockets>>

(* While the kind of a stream is unknown its bytes stay as they are; if it *)
(* turns out to be SLIP then they are not decoded.                         *)
ReadSome(i, n) ==
  /\ Pending = {} /\ n <= Len(wire[sockets[i]])
  /\ Orderly /\ framing[sockets[i]] # "length" /\ contexts[i].slip = Unknown => n >= Word
  /\ contexts' = ReplaceAt(contexts, i,
                   Cleared(Received(contexts[i], SubSeq(wire[sockets[i]], 1, n))))
  /\ wire' = [wire EXCEPT ![sockets[i]] = SubSeq(@, n + 1, Len(@))]
  /\ UNCHANGED <<framing, link, sent, got, sockets>>

(* lo_server_del_socket: the sockets behind move up, their contexts do     *)
(* not.                                                                    *)
BetweenMessages(j) == contexts[j].bytes = <<>> /\ framing[sockets[j]] = "length"
Drop(i) ==
  /\ Pending = {} /\ link[sockets[i]] = "closed" /\ wire[sockets[i]] = <<>>
  /\ Orderly => \A j \in i + 1 .. Len(sockets) : BetweenMessages(j)
  /\ link' = [link EXCEPT ![sockets[i]] = "ended"]
  /\ sockets' = RemoveAt(sockets, i)
  /\ contexts' = ReplaceAt(contexts, i, Cleaned)
  /\ UNCHANGED <<framing, wire, sent, got>>

Next ==
  \/ \E p \in Peers : \/ Connect(p) \/ Close(p) \/ Accept(p)
                      \/ \E m \in Bodies : \E n \in {Word, Len(Encode(framing[p], m))} : Send(p, m, n)
  \/ \E i \in DOMAIN sockets : \/ Dispatch(i) \/ Drop(i)
                               \/ \E n \in 1 .. MaxChunk : ReadSome(i, n)

Spec == Init /\ [][Next]_vars

-----------------------------------------------------------------------------
(* Whatever pieces the streams arrive in, however the peers delimit their  *)
(* messages, and while other peers come and go: what is dispatched for a   *)
(* peer is what it has sent, in its order, and nothing else.               *)
InOrder == \A p \in Peers : IsPrefix(got[p], sent[p])

(* No message stays behind in a buffer: when all has been read, all that   *)
(* was sent has been dispatched.                                           *)
AllArrive ==
  Pending = {} => \A i \in DOMAIN sockets :
    wire[sockets[i]] = <<>> => got[sockets[i]] = sent[sockets[i]]
=============================================================================
