------------------------------- MODULE Clocks -------------------------------
(***************************************************************************)
(* The two ends of a link estimate how long a message takes and how their  *)
(* clocks differ, from the pings that keep the link alive (network.c:      *)
(* mpr_net_maybe_send_ping, handler_ping).  Each ping has a number, and    *)
(* says which one of the other side arrived last and how long ago.  Pings  *)
(* get lost, overtake each other and arrive twice.                         *)
(*                                                                         *)
(* t       true time; the clock of an end is ahead of it by Ahead          *)
(* clk     the sync clock of each end: number and time of the ping it sent *)
(*         last, and of the one that arrived last (no number: -1), whether *)
(*         there is an estimate, and twice the latency and the offset      *)
(* linked  an end has not given up the link                                *)
(* wire    pings under way                                                 *)
(* delay   history: how long the ping took that arrived last               *)
(***************************************************************************)
EXTENDS Integers, FiniteSetsExt

CONSTANTS Peers,     \* the two ends
          Ahead,     \* the clock of an end, at time 0
          Timeout,   \* TIMEOUT_SEC
          MaxDelay,  \* bound: how long a ping may take
          MaxId,     \* bound: pings of an end
          MaxTime    \* bound: true time

VARIABLES t, clk, linked, wire, delay
vars == <<t, clk, linked, wire, delay>>

Other(p) == CHOOSE q \in Peers : q # p
Now(p) == t + Ahead[p]
NoNumber == -1
Between(a, b) == Min({a, b}) .. Max({a, b})

Init ==
  /\ t = 0 /\ wire = {}
  /\ linked = [p \in Peers |-> TRUE]
  /\ delay = [p \in Peers |-> 0]
  \* mpr_link_init: a new link has more time for its first ping
  /\ clk = [p \in Peers |-> [sent |-> 0, sentAt |-> Now(p), rcvd |-> NoNumber, rcvdAt |-> Now(p) + Timeout,
                             new |-> TRUE, latency |-> 0, offset |-> 0]]

(* mpr_net_maybe_send_ping, for a link that has maps and an address: the   *)
(* warning comes with a ping that has no number to answer to.              *)
Ping(p) ==
  LET c == clk[p]
      elapsed == Now(p) - c.rcvdAt
      warn == elapsed > Timeout
      w == IF warn THEN [c EXCEPT !.rcvd = NoNumber, !.rcvdAt = Now(p)] ELSE c
  IN  /\ linked[p]
      /\ IF warn /\ c.rcvd = NoNumber
         THEN linked' = [linked EXCEPT ![p] = FALSE] /\ UNCHANGED <<clk, wire>>
         ELSE /\ c.sent < MaxId
              /\ clk' = [clk EXCEPT ![p] = [w EXCEPT !.sent = c.sent + 1, !.sentAt = Now(p)]]
              /\ wire' = wire \cup {[to |-> Other(p), id |-> c.sent + 1, echo |-> w.rcvd, elapsed |-> elapsed,
                                     then |-> Now(p), at |-> t, took |-> delay[p]]}
              /\ UNCHANGED linked
      /\ UNCHANGED <<t, delay>>

(* handler_ping.  Jitter decides whether an estimate counts: either way.   *)
AnswersAny(m, c) == m.echo # NoNumber
Answers(m, c) == m.echo = c.sent
Latency(p, m) == Now(p) - clk[p].sentAt - m.elapsed          \* twice the latency
OffsetUncompensated(p, m) == 2 * (Now(p) - m.then)
Offset(p, m) == 2 * (Now(p) - m.then) - Latency(p, m)        \* and the offset
Estimates(c, lat, off) ==
  IF c.new THEN {[c EXCEPT !.new = FALSE, !.latency = lat, !.offset = off]}
  ELSE IF off > c.offset THEN {[c EXCEPT !.offset = off]}
  ELSE {[c EXCEPT !.offset = e[1], !.latency = e[2]] : e \in Between(c.offset, off) \X Between(c.latency, lat)}
Estimated(p, m) == Estimates(clk[p], Max({0, Latency(p, m)}), Offset(p, m))
Receive(m) ==
  LET p == m.to
  IN  /\ linked[p]
      /\ \E c \in IF Answers(m, clk[p]) THEN Estimated(p, m) ELSE {clk[p]} :
           clk' = [clk EXCEPT ![p] = [c EXCEPT !.rcvd = m.id, !.rcvdAt = Now(p)]]
      /\ delay' = [delay EXCEPT ![p] = t - m.at]
      /\ UNCHANGED <<t, linked, wire>>

(* Time passes; what is too old is lost or has arrived. *)
Tick ==
  /\ t < MaxTime /\ t' = t + 1
  /\ \E late \in SUBSET wire :
       /\ {m \in wire : t' - m.at > MaxDelay} \subseteq late
       /\ wire' = wire \ late
  /\ UNCHANGED <<clk, linked, delay>>

Next == Tick \/ \E p \in Peers : Ping(p) \/ \E m \in wire : Receive(m)

Spec == Init /\ [][Next]_vars

-----------------------------------------------------------------------------
(* handler_ping compares two clocks over four moments that belong to two   *)
(* pings; that the right ones are subtracted depends on the numbers alone. *)
(* The sum of latencies is what the two pings really took, whatever got    *)
(* lost, overtaken or repeated in between: it is never negative.           *)
LatencyRight == \A p \in Peers, m \in wire :
  m.to = p /\ linked[p] /\ Answers(m, clk[p]) => Latency(p, m) = m.took + t - m.at

(* The estimate of the offset is wrong by half of what one way may take    *)
(* longer than the other at most, although it prefers large ones.          *)
OffsetClose == \A p \in Peers :
  ~clk[p].new => clk[p].offset - 2 * (Ahead[p] - Ahead[Other(p)]) \in -MaxDelay .. MaxDelay
=============================================================================
