------------------------------ MODULE MCClient ------------------------------
(* What a client meets: its address looked up in the bans and rates, its     *)
(* bytes read as packets, its host name matched with patterns, its status    *)
(* request answered, the texts it is shown.  Nothing joins them here, so a   *)
(* behaviour is one of either.                                               *)
EXTENDS StatusPing, SequencesExt

CONSTANTS Scripts, Preface, V1Limit, MaxHandshake, MaxBuffered, MaxPacket, MaxPing, Chunk,
          Tokens, MaxTokens, Colors, Decorations, BadHex, White, Panic,
          Upper, Alphabet, MaxPattern, MaxText, MaxHost,
          IPs, MaxTrackedIps, ForgetAfter, MaxTrackedRates, SweepCutoff, Policies, Durations,
          MaxPerWindow, Window, BansMaxTime, MaxReports

VARIABLES part,
          script, net, head, buf, pos, reads, hs, out, crowded,
          input,
          probe,   \* a pattern and a host name
          clock, offenders, windows, reports, accepted

addressVars == <<clock, offenders, windows, reports, accepted>>
frameVars == <<script, net, head, buf, pos, reads, hs, out, crowded>>

P == INSTANCE Packets
F == INSTANCE Framing WITH pc <- reads
K == INSTANCE Markup
H == INSTANCE HostPattern
B == INSTANCE AddressTables WITH now <- clock, MaxTime <- BansMaxTime

-----------------------------------------------------------------------------
(* Status requests that differ in protocol.                                  *)

TwoVersions == {[host |-> "a", proto |-> 1], [host |-> "a", proto |-> 2]}

-----------------------------------------------------------------------------
(* Byte streams: a login and a status with and without a PROXY header, and   *)
(* streams that are neither.                                                 *)

LoginHs == [protocol |-> 763, host |-> <<97, 46>>, port |-> 25565, next |-> 2]
StatusHs == [protocol |-> -1, host |-> <<97, 0, 98>>, port |-> 1, next |-> 1]

Blank(n) == [i \in 1..n |-> 32]
V1(n, family) == <<80>> \o Blank(5) \o <<family>> \o Blank(n - 9) \o <<13, 10>>
V2(command, family, n) == <<13>> \o Blank(11) \o <<command, family, 0, n>> \o Blank(n)

LoginStart == P!length_prefix(<<0, 1, 97>>)
StatusRequest == P!length_prefix(<<0>>)
PingRequest == P!length_prefix(<<1, 7>>)

Client(header, h, frames, rest) ==
    [header |-> header, hs |-> h, frames |-> frames,
     wire |-> P!encode_handshake(h) \o frames[1] \o (IF Len(frames) > 1 THEN frames[2] ELSE <<>>) \o rest]

NoClient(header, wire) == [header |-> header, hs |-> None, frames |-> <<>>, wire |-> wire]

MCScripts ==
    {Client(h, LoginHs, <<LoginStart>>, <<9, 8, 7>>) : h \in {<<>>, V1(18, 84), V2(33, 17, 12)}}
    \cup {Client(h, StatusHs, <<StatusRequest, PingRequest>>, <<>>) :
            h \in {<<>>, V1(16, 85), V2(32, 0, 0)}}
    \cup {NoClient(<<>>, w) : w \in
            { [i \in 1..6 |-> 255], P!write_var_int(MaxHandshake + 1), <<1, 5>>,
              P!encode_handshake(LoginHs) \o [i \in 1..36 |-> 200],
              P!encode_handshake(LoginHs) \o P!write_var_int(MaxPacket * 10) \o [i \in 1..40 |-> 1],
              <<7, 0, 5, 4, 97, 1, 2, 2>> \o LoginStart }}
    \cup {NoClient(h, P!encode_handshake(LoginHs)) : h \in
            {V2(33, 17, 4), V2(17, 17, 12), Blank(16), V1(24, 84), V1(18, 70)}}

\* A client behind the shortest header there is, "PROXY UNKNOWN".
ShortHeader == {Client(V1(15, 85), LoginHs, <<LoginStart>>, <<>>)}

-----------------------------------------------------------------------------
(* Markup: texts, brackets, closing tag, escape, a legacy code and tags.      *)

Tag(name, args) == [is |-> "tag", name |-> name, args |-> args, show |-> <<"<" \o name \o ">">>]

MCColors == [red |-> "red", gold |-> "gold", blue |-> "blue"]
MCDecorations == [bold |-> "bold", b |-> "bold", italic |-> "italic"]
MCTokens ==
    { [is |-> "text", show |-> <<"x">>],
      [is |-> "text", show |-> <<"y", "z">>],
      [is |-> "text", show |-> <<">">>],
      [is |-> "angle", name |-> "", args |-> <<>>, show |-> <<"<">>],
      [is |-> "close", show |-> <<"</>">>],
      [is |-> "escape", show |-> <<"\\">>],
      [is |-> "code", tag |-> Tag("gold", <<>>)],
      Tag("red", <<>>), Tag("b", <<>>), Tag("reset", <<>>),
      Tag("color", <<"blue">>), Tag("color", <<"#bad">>), Tag("hover", <<>>),
      Tag("gradient", <<"red", "no", "blue", "gold">>), Tag("gradient", <<>>) }

-----------------------------------------------------------------------------
(* Patterns with each host name, and the autoBan settings.                   *)

MCUpper == [x \in {"A", "I"} |-> IF x = "A" THEN <<"a">> ELSE <<"i", "^">>]
Long == [i \in 1..MaxHost |-> "a"]
Probes == SeqOf(Alphabet \cup {"*", "?"}, MaxPattern)
            \X (SeqOf(Alphabet, MaxText) \cup {Append(Long, c) : c \in Alphabet})

MCPolicies == {[max |-> 1, window |-> 1, duration |-> 2],
               [max |-> 2, window |-> 2, duration |-> 1]}
MCDurations == {2}

-----------------------------------------------------------------------------
others == <<part, probe>>
allVars == <<others, vars, frameVars, input, addressVars>>

PartsInit == Init /\ F!Init /\ K!Init /\ B!Init

\* Of the byte streams, the other parts begin with any one.
MCInit ==
    /\ PartsInit
    /\ part \in {"bans", "rates", "frames", "patterns", "status", "markup"}
    /\ part # "frames" => script = CHOOSE s \in Scripts : TRUE
    /\ probe \in IF part = "patterns" THEN Probes ELSE {None}

AtRest ==
    \/ part = "frames" /\ F!Over
    \/ part = "markup" /\ Len(input) = MaxTokens
    \/ part = "patterns"

MCNext ==
    \/ part = "bans" /\ (B!Tick \/ B!BanStep) /\ UNCHANGED <<others, vars, frameVars, input>>
    \/ part = "rates" /\ (B!Tick \/ B!RateStep) /\ UNCHANGED <<others, vars, frameVars, input>>
    \/ part = "status" /\ Next /\ UNCHANGED <<others, frameVars, input, addressVars>>
    \/ part = "frames" /\ F!Next /\ UNCHANGED <<others, vars, input, addressVars>>
    \/ part = "markup" /\ K!Next /\ UNCHANGED <<others, vars, frameVars, addressVars>>
    \/ AtRest /\ UNCHANGED allVars

\* Up to its answer every wait of a status connection has a timeout (what it sends to a
\* backend is less than the buffer of a new socket takes); the writes to the client
\* have none, and nothing is assumed of them.
StatusStep(c) ==
    /\ part = "status" /\ pc[c] # "served" /\ Step(c)
    /\ UNCHANGED <<others, frameVars, input, addressVars>>

MCSpec == MCInit /\ [][MCNext]_allVars /\ \A c \in Conns : WF_allVars(StatusStep(c))

\* One part alone.
FramesSpec == PartsInit /\ part = "frames" /\ probe = None /\ [][MCNext]_allVars
MarkupSpec == PartsInit /\ part = "markup" /\ probe = None /\ [][MCNext]_allVars

-----------------------------------------------------------------------------
\* Types of all parts; the dial cap and the backstop of the response cache; and
\* the dial slots of a route's backend are those of the dials in flight: a slot taken
\* after a wait, and that of a failed dial, come back once (StatusPing!DialsCounted).
TypesOK ==
    /\ part = "status" => TypeOK /\ DialsCounted
    /\ part = "frames" => F!TypeOK
    /\ part = "markup" => K!TypeOK
    /\ part \in {"bans", "rates"} => B!TypeOK

\* No ban without its violations, and no early end of one (AddressTables!BansJust).
BansJust == [][part = "bans" => B!BanHasCause /\ B!BanHolds]_addressVars

\* Within any stretch of a window's length, at most twice the rate passes for a tracked
\* address (AddressTables!AtMostTwiceTheRate).
AtMostTwiceTheRate == part = "rates" => B!AtMostTwiceTheRate

\* match_host finds the match of a greedy regex, and only where there is one; of a host
\* that lower case lengthens, that it finds one (HostPattern!GreedyMatch).
GreedyMatch == part = "patterns" => H!GreedyMatch(probe[1], probe[2])

\* What was handed to readers, what is buffered and what is still to come are the bytes
\* sent, in order, however the network cuts them; and a well-formed client's handshake
\* and frames are read as sent, however many packets share a segment
\* (Framing!BytesInOrder, Framing!Understood).
ReadAsSent == part = "frames" => F!BytesInOrder /\ F!Understood

\* What a framed reader holds is bounded by the largest packet and a chunk, save behind a
\* length that never ends (Framing!BufferBounded).
BufferBounded == part = "frames" => F!BufferBounded

\* "consuming exactly the header's bytes and no more" (Framing!HeaderExact).
HeaderExact == F!HeaderExact

\* Any markup, well-formed or not, is shown whole, save what is between a < and the next >,
\* and in the style of the tags around it (Markup!RendersMarkup).
RendersMarkup == part = "markup" => K!RendersMarkup

\* "renders identically client-side": the legacy text shows what the markup means
\* (Markup!LegacyRenders).
LegacyRenders == K!LegacyRenders
=============================================================================
