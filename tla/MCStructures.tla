---------------------------- MODULE MCStructures ----------------------------
(***************************************************************************)
(* The sequential parts side by side: those of Structures, with values for *)
(* its constants, and what the other modules take for granted of the       *)
(* properties in a message, an expression, one that a map writes for       *)
(* itself, and the OSC library: its server, its streams, its address       *)
(* patterns. "which" picks one of these as well, with v8 to v11 where v1   *)
(* to v7 are too few.                                                      *)
(***************************************************************************)
EXTENDS Structures

VARIABLES v8, v9, v10, v11
mcvars == <<vars, v8, v9, v10, v11>>

DeviceOf == [s |-> "here", t |-> "here", a |-> "A", b |-> "B"]
SomeMaps == {[src |-> {"s"}, dst |-> "a"], [src |-> {"a", "b"}, dst |-> "t"],
             [src |-> {"s"}, dst |-> "t"], [src |-> {"a"}, dst |-> "b"]}
FiveAhead == [a |-> 0, b |-> 5]
TwoDevices == <<"A", "A", "B">>
AllOrOne == {{1, 2}, {2}}

Evl == INSTANCE Evaluator WITH NumInst <- 2, Inputs <- {-1, 0, 2}, MaxEvals <- 3,
         prog <- v1, x <- v2, y <- v3, user <- v4, offset <- v5, past <- v6, fresh <- v7, last <- v8, count <- v9

Alphs == {{"y", "=", "x", "0", "2", "+", "*", "-"}, {"y", "=", "x", "0", "1", "/", "-"},
          {"y", "=", "x", "1", "*", "(", ")", "+"}, {"y", "=", "x", "1", "<", "&&", "!"},
          {"y", "=", "x", "2", "?", ":"}, {"y", "=", "x", "max", "(", ")", ",", "-"},
          {"y", "=", "x", "a", ";", "+"}}
Prs == INSTANCE Parser WITH Alphabets <- Alphs, MaxTokens <- 7, Samples <- {-1, 0, 2},
         alphabet <- v1, input <- v2, out <- v3, ops <- v4, allow <- v5, assigning <- v6,
         known <- v7, moved <- v8, status <- v9

Srv == INSTANCE OscServer WITH Names <- {"a", "b"}, MaxTime <- 3, MaxMethods <- 3, MaxWaiting <- 2,
         queueing <- v1, plain <- v2, now <- v3, bundleTime <- v4, signals <- v5, methods <- v6,
         inbox <- v7, queued <- v8, work <- v9, walk <- v10

Messages == {<<47, 192>>, <<47, 1, 219>>}   \* with the bytes that SLIP escapes
Str == INSTANCE Streams WITH Peers <- {"p", "q"}, Framings <- {"length", "slip", "double"},
         Orderly <- TRUE, Bodies <- Messages, MaxChunk <- 3, MaxSent <- [p |-> 2, q |-> 1],
         framing <- v1, link <- v2, wire <- v3, sent <- v4, got <- v5, sockets <- v6, contexts <- v7

Words == {<<97>>, <<97, 98>>, <<98, 97>>}   \* a, ab, ba
Pat == INSTANCE Patterns WITH Letters <- {97, 98}, MaxParts <- 3, MaxText <- 3, parts <- v1, text <- v2

SourceAndDest == <<1, 3, 0, 4>>   \* slope and offset that are not whole
Lin == INSTANCE Linear WITH MaxLen <- 3, Given <- SourceAndDest, SignalEnds <- <<0, 2, 1, 5>>,
         Inputs <- {0, 3}, MaxSets <- 2, Settled <- TRUE,
         srcs <- v1, dst <- v2, ranged <- v3, whole <- v4, expr <- v5, held <- v6, fresh <- v7,
         y <- v8, x <- v9, want <- v10, sets <- v11

Msg == INSTANCE Messages WITH MaxSegments <- 2, Clean <- TRUE, segments <- v1, slots <- v2

From10 == <<v10, v11>>
From8 == <<v8, v9, From10>>
Idle10 == v10 = Idle /\ v11 = Idle
Idle8 == v8 = Idle /\ v9 = Idle /\ Idle10
Idle3 == v3 = Idle /\ v4 = Idle /\ Idle5 /\ Idle8

MCInit ==
  \/ Init /\ Idle8
  \/ which = "evaluator" /\ Evl!Init /\ Idle10
  \/ which = "parser" /\ Prs!Init /\ Idle10
  \/ which = "server" /\ Srv!Init /\ v11 = Idle
  \/ which = "streams" /\ Str!Init /\ Idle8
  \/ which = "patterns" /\ Pat!Init /\ Idle3
  \/ which = "linear" /\ Lin!Init
  \/ which = "messages" /\ Msg!Init /\ Idle3

MCNext ==
  \/ Next /\ UNCHANGED From8
  \/ /\ UNCHANGED which
     /\ \/ which = "evaluator" /\ Evl!Next /\ UNCHANGED From10
        \/ which = "parser" /\ Prs!Next /\ UNCHANGED From10
        \/ which = "server" /\ Srv!Next /\ UNCHANGED v11
        \/ which = "streams" /\ Str!Next /\ UNCHANGED From8
        \/ which = "patterns" /\ Pat!Next /\ UNCHANGED <<v3, v4, From5, From8>>
        \/ which = "linear" /\ Lin!Next
        \/ which = "messages" /\ Msg!Next /\ UNCHANGED <<v3, v4, From5, From8>>

MCSpec == MCInit /\ [][MCNext]_mcvars

-----------------------------------------------------------------------------
(* Expressions: the tokens compute what the string means, and no string    *)
(* that has a meaning is refused; a map sends what its expression says of  *)
(* the values of that instance; an expression that a map writes for itself *)
(* scales by the ends that were asked for, or takes the mean.              *)
ExpressionsRight ==
  /\ which = "parser" => Prs!ParsedRight /\ Prs!NoneRefused
  /\ which = "evaluator" => Evl!SentRight
  /\ which = "linear" => Lin!ScalesRight /\ Lin!MeanRight

(* Messages: a message has one handler and has it, though the methods come *)
(* and go meanwhile, and handles it at the time of its bundle, in order; a *)
(* path is matched by the patterns that mean it; what a peer sent over a   *)
(* stream is dispatched as its own, whole and in order, and nothing stays  *)
(* behind in the buffers; each property of a message arrives as it was     *)
(* written, and the slots of a map learn what it says of their signals.    *)
MessagesRight ==
  /\ which = "server" => /\ Srv!WalkLive /\ Srv!HandledOnce /\ Srv!MethodsMatch
                         /\ Srv!TimeRight /\ Srv!NotEarly
  /\ which = "patterns" => Pat!MatchesRight
  /\ which = "streams" => Str!InOrder /\ Str!AllArrive
  /\ which = "messages" => Msg!AtomsRight /\ Msg!SlotsRight

(* mapper.h:496, "After taking effect, this setting will cause instance    *)
(* updates originating at this device to be propagated across the map":    *)
(* a scope that is added is one afterwards.                                *)
ScopeAdded == [][which = "names" => Nam!AddsScope]_mcvars
=============================================================================
