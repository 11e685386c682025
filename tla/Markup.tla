------------------------------- MODULE Markup -------------------------------
(***************************************************************************)
(* MiniMessage markup (protocol/text_format.rs): legacy codes are turned   *)
(* into tags, tags nested into a tree, the tree flattened into styled runs *)
(* and the runs written as a JSON component or as a text of legacy codes.  *)
(* The input grows by a token at a time, so that every sequence of tokens  *)
(* up to a length is met, well-formed or not.  A token is                  *)
(*   [is |-> "text", show], [is |-> "tag", name, args, show],              *)
(*   [is |-> "close", show], [is |-> "code", tag] (the & form of a tag),   *)
(*   [is |-> "escape", show], [is |-> "angle", name, args, show] (a < by   *)
(*   itself, of no known name),                                            *)
(* where show is the sequence of characters it is when it is no markup (a  *)
(* tag in angle brackets counts as one character, a > by itself is text).  *)
(***************************************************************************)
EXTENDS Integers, Sequences, SequencesExt

CONSTANTS Tokens, MaxTokens,
          Colors,       \* tag name -> colour, of the colours by name or in hex
          Decorations,  \* tag name -> decoration, aliases included
          BadHex,       \* hex colours of six bytes but not of ASCII
          White, None, Panic

VARIABLE input
vars == <<input>>

-----------------------------------------------------------------------------
(* From tokens to nodes.                                                     *)

legacy_codes_to_tags(toks) ==
    [i \in 1..Len(toks) |-> IF toks[i].is = "code" THEN toks[i].tag ELSE toks[i]]

\* A text node in front: texts that meet are one node.
WithText(show, nodes) ==
    IF nodes # <<>> /\ nodes[1].is = "text"
      THEN <<[is |-> "text", show |-> show \o nodes[1].show]>> \o Tail(nodes)
      ELSE <<[is |-> "text", show |-> show]>> \o nodes

HasEnd(tok) == tok.is \in {"tag", "close"} \/ tok.show = <<">">>

\* The token that holds the `>` of the tag that begins at pos, or 0 if none does or the
\* tag would have no name.
TagEnd(toks, pos) ==
    LET ends == {q \in pos..Len(toks) : HasEnd(toks[q])}
    IN  IF toks[pos].is \notin {"tag", "angle"} \/ ends = {} THEN 0
        ELSE IF Min(ends) = pos + 1 /\ toks[pos + 1].is = "text" THEN 0
        ELSE Min(ends)

RECURSIVE parse_nodes(_, _, _)
\* The nodes from pos on, up to the closing tag of a nested list, whatever its name.
parse_nodes(toks, pos, nested) ==
    IF pos > Len(toks) THEN [nodes |-> <<>>, pos |-> pos]
    ELSE IF toks[pos].is = "escape" /\ pos < Len(toks)
      THEN LET rest == parse_nodes(toks, pos + 2, nested)
           IN  [rest EXCEPT !.nodes = WithText(toks[pos + 1].show, @)]
    ELSE IF toks[pos].is = "close" /\ nested
      THEN [nodes |-> <<>>, pos |-> pos + 1]
    ELSE IF TagEnd(toks, pos) > 0
      THEN LET in == parse_nodes(toks, TagEnd(toks, pos) + 1, TRUE)
               rest == parse_nodes(toks, in.pos, nested)
           IN  [rest EXCEPT !.nodes = <<[is |-> "tag", name |-> toks[pos].name,
                                         args |-> toks[pos].args, children |-> in.nodes]>> \o @]
    ELSE LET rest == parse_nodes(toks, pos + 1, nested)
         IN  [rest EXCEPT !.nodes = WithText(toks[pos].show, @)]

-----------------------------------------------------------------------------
(* From nodes to styled runs.                                                *)

DefaultStyle == [color |-> None, decorations |-> {}]

\* An unknown tag leaves the style as it is.
apply_tag(style, name, args) ==
    IF name = "reset" THEN DefaultStyle
    ELSE IF name \in DOMAIN Decorations THEN [style EXCEPT !.decorations = @ \cup {Decorations[name]}]
    ELSE IF name = "color"
      THEN IF args # <<>> /\ args[1] \in DOMAIN Colors THEN [style EXCEPT !.color = Colors[args[1]]]
           ELSE style
    ELSE IF name \in DOMAIN Colors THEN [style EXCEPT !.color = Colors[name]]
    ELSE style

RECURSIVE visible_len(_)
visible_len(nodes) ==
    IF nodes = <<>> THEN 0
    ELSE visible_len(Tail(nodes)) + (IF nodes[1].is = "text" THEN Len(nodes[1].show)
                                     ELSE visible_len(nodes[1].children))

\* The colour at pos / (total - 1) of the way along the stops: a stop, or the mix of
\* two neighbours that is frac / of along.
interpolate(stops, pos, total) ==
    LET n == Len(stops)
        of == Max({1, total - 1})
        scaled == pos * (n - 1)                      \* over `of`
        idx == Min({scaled \div of, n - 2})
        frac == scaled - idx * of
    IN  IF n = 1 \/ pos = 0 THEN stops[1]
        ELSE IF frac = 0 THEN stops[idx + 1]
        ELSE IF frac = of THEN stops[idx + 2]
        ELSE <<stops[idx + 1], stops[idx + 2], frac, of>>

\* Arguments that are no colour are passed over.
gradient_stops(args) ==
    LET stops == [i \in 1..Len(SelectSeq(args, LAMBDA a : a \in DOMAIN Colors)) |->
                    Colors[SelectSeq(args, LAMBDA a : a \in DOMAIN Colors)[i]]]
    IN  IF stops = <<>> THEN <<White>> ELSE stops

RECURSIVE flatten_gradient(_, _, _, _, _)
\* The runs of the nodes, one per character, and the position after them; a gradient
\* inside counts its own positions and leaves those of the outer one where they are.
flatten_gradient(nodes, style, stops, total, pos) ==
    IF nodes = <<>> THEN [runs |-> <<>>, pos |-> pos]
    ELSE LET n == nodes[1]
             head ==
               IF n.is = "text"
                 THEN [runs |-> [i \in 1..Len(n.show) |->
                                  [text |-> <<n.show[i]>>,
                                   style |-> [style EXCEPT !.color =
                                               interpolate(stops, pos + i - 1, total)]]],
                       pos |-> pos + Len(n.show)]
               ELSE IF n.name = "gradient"
                 THEN [flatten_gradient(n.children, style, gradient_stops(n.args),
                                        visible_len(n.children), 0) EXCEPT !.pos = pos]
               ELSE flatten_gradient(n.children, apply_tag(style, n.name, n.args), stops, total, pos)
             rest == flatten_gradient(Tail(nodes), style, stops, total, head.pos)
         IN  [rest EXCEPT !.runs = head.runs \o @]

RECURSIVE flatten(_, _)
flatten(nodes, style) ==
    IF nodes = <<>> THEN <<>>
    ELSE LET n == nodes[1]
         IN  (IF n.is = "text" THEN <<[text |-> n.show, style |-> style]>>
              ELSE IF n.name = "gradient"
                THEN flatten_gradient(n.children, style, gradient_stops(n.args),
                                      visible_len(n.children), 0).runs
              ELSE flatten(n.children, apply_tag(style, n.name, n.args)))
             \o flatten(Tail(nodes), style)

RECURSIVE Sliced(_)
\* parse_hex cuts the colour into pairs of bytes: flatten, which meets every tag, panics at
\* one that is cut inside a character.
Sliced(nodes) ==
    \E i \in 1..Len(nodes) : nodes[i].is = "tag" /\
        LET n == nodes[i]
        IN  \/ n.name \in BadHex
            \/ n.name = "color" /\ n.args # <<>> /\ n.args[1] \in BadHex
            \/ n.name = "gradient" /\ Range(n.args) \cap BadHex # {}
            \/ Sliced(n.children)

parse_runs(toks) == flatten(parse_nodes(legacy_codes_to_tags(toks), 1, FALSE).nodes, DefaultStyle)

Panics(toks) == Sliced(parse_nodes(legacy_codes_to_tags(toks), 1, FALSE).nodes)

-----------------------------------------------------------------------------
(* What is sent.                                                             *)

\* M: the first run is the parent of the others.
M_to_json_component(toks) ==
    LET runs == parse_runs(toks)
    IN  IF Panics(toks) THEN Panic
        ELSE IF runs = <<>> THEN [text |-> <<>>, style |-> DefaultStyle, extra |-> <<>>]
        ELSE [text |-> runs[1].text, style |-> runs[1].style, extra |-> Tail(runs)]

\* One component, or an empty one with the runs as its extra.
to_json_component(toks) ==
    LET runs == parse_runs(toks)
    IN  IF Panics(toks) THEN Panic
        ELSE IF Len(runs) = 1 THEN [text |-> runs[1].text, style |-> runs[1].style, extra |-> <<>>]
        ELSE [text |-> <<>>, style |-> DefaultStyle, extra |-> runs]

\* write_legacy_style: the colour, then the decorations; nothing for the default style.
write_legacy_style(style) ==
    (IF style.color = None THEN <<>> ELSE <<[is |-> "color", v |-> style.color]>>)
    \o [i \in 1..Cardinality(style.decorations) |->
          [is |-> "decoration", v |-> SetToSeq(style.decorations)[i]]]

to_legacy_text(toks) ==
    FlattenSeq([r \in 1..Len(parse_runs(toks)) |->
        LET run == parse_runs(toks)[r]
        IN  write_legacy_style(run.style)
            \o [i \in 1..Len(run.text) |-> [is |-> "char", v |-> run.text[i]]]])

Init == input = <<>>

Write(tok) ==
    /\ Len(input) < MaxTokens
    /\ input' = Append(input, tok)

Next == \E tok \in Tokens : Write(tok)

Spec == Init /\ [][Next]_vars

-----------------------------------------------------------------------------
(* What a client shows: a sequence of characters, each with its style.       *)

Chars(text, style) == [i \in 1..Len(text) |-> [char |-> text[i], style |-> style]]

\* A component's children take its style where they have none of their own.
ShownJson(c) ==
    Chars(c.text, c.style)
    \o FlattenSeq([i \in 1..Len(c.extra) |->
         Chars(c.extra[i].text,
               [color |-> IF c.extra[i].style.color = None THEN c.style.color
                          ELSE c.extra[i].style.color,
                decorations |-> c.style.decorations \cup c.extra[i].style.decorations])])

\* A colour code ends the decorations before it; a decoration code adds one.
ShownLegacy(codes) ==
    LET style[i \in 0..Len(codes)] ==
          IF i = 0 THEN DefaultStyle
          ELSE IF codes[i].is = "color" THEN [color |-> codes[i].v, decorations |-> {}]
          ELSE IF codes[i].is = "decoration"
            THEN [style[i - 1] EXCEPT !.decorations = @ \cup {codes[i].v}]
          ELSE style[i - 1]
    IN  FlattenSeq([i \in 1..Len(codes) |->
          IF codes[i].is = "char" THEN Chars(<<codes[i].v>>, style[i]) ELSE <<>>])

-----------------------------------------------------------------------------
(* What the markup means, token by token.                                    *)

\* What becomes of each token, from left to right: it is shown, it escapes the next one,
\* or it is markup, which opens a tag up to the next `>` or closes the innermost one.
Read(toks) ==
    LET n == Len(toks)
        Ends(i) == {q \in i..n : HasEnd(toks[q])}
        Nameless(i) == i < n /\ toks[i].is = "angle" /\ toks[i + 1].show = <<">">>
        at[i \in 0..n] ==
          IF i = 0 THEN [role |-> "markup", until |-> 0, open |-> <<>>]
          ELSE LET b == [at[i - 1] EXCEPT !.role = "markup"]
                   shown == [b EXCEPT !.role = "shown"]
                   is == toks[i].is
               IN  IF i <= b.until THEN b
                   ELSE IF at[i - 1].role = "escape" THEN shown
                   ELSE IF is = "escape" /\ i < n THEN [b EXCEPT !.role = "escape"]
                   ELSE IF is = "close" /\ b.open # <<>> THEN [b EXCEPT !.open = Front(@)]
                   ELSE IF is \in {"tag", "angle"} /\ Ends(i) # {} /\ ~Nameless(i)
                     THEN [b EXCEPT !.open = Append(@, i), !.until = Min(Ends(i))]
                   ELSE shown
    IN  at

\* The n-th (from 0) of the total characters of a gradient: a stop, or the mix of the two
\* stops it lies between.
Shade(stops, n, total) ==
    LET m == Len(stops) - 1
        passed == Cardinality({j \in 1..m - 1 : j * (total - 1) < n * m})
    IN  IF total = 1 \/ m = 0 THEN stops[1]
        ELSE IF \E j \in 0..m : j * (total - 1) = n * m
          THEN stops[1 + CHOOSE j \in 0..m : j * (total - 1) = n * m]
        ELSE <<stops[passed + 1], stops[passed + 2], n * m - passed * (total - 1), total - 1>>

\* Each character shown has the decorations of the tags open around it, within the last
\* reset, and the colour of the innermost that has one; within a gradient, the colour of
\* its place among the gradient's characters.
Meaning(raw) ==
    LET toks == legacy_codes_to_tags(raw)
        at == Read(toks)
        vis == FlattenSeq([i \in 1..Len(toks) |->
                 IF at[i].role = "shown"
                   THEN [k \in 1..Len(toks[i].show) |->
                           [char |-> toks[i].show[k], open |-> Range(at[i].open)]]
                   ELSE <<>>])
        Named(k, name) == {g \in vis[k].open : toks[g].name = name}
        InForce(k) == {g \in vis[k].open : \A r \in Named(k, "reset") : g > r}
        Paint(g) == IF toks[g].name = "color" /\ toks[g].args # <<>> THEN toks[g].args[1]
                    ELSE toks[g].name
        Painted(k) == {g \in InForce(k) : Paint(g) \in DOMAIN Colors}
        Stops(g) == FoldLeft(LAMBDA st, a : IF a \in DOMAIN Colors THEN Append(st, Colors[a]) ELSE st,
                             <<>>, toks[g].args)
        Under(g) == {k \in 1..Len(vis) : g \in vis[k].open}
        Own(g) == {k \in Under(g) : g = Max(Named(k, "gradient"))}
        Color(k) ==
          IF Named(k, "gradient") # {}
            THEN LET g == Max(Named(k, "gradient"))
                 IN  Shade(IF Stops(g) = <<>> THEN <<White>> ELSE Stops(g),
                           Cardinality({j \in Own(g) : j < k}), Cardinality(Under(g)))
          ELSE IF Painted(k) = {} THEN None
          ELSE Colors[Paint(Max(Painted(k)))]
    IN  [k \in 1..Len(vis) |->
          [char |-> vis[k].char,
           style |-> [color |-> Color(k),
                      decorations |-> {Decorations[toks[g].name] :
                         g \in {h \in InForce(k) : toks[h].name \in DOMAIN Decorations}}]]]

TypeOK == Len(input) <= MaxTokens /\ Range(input) \subseteq Tokens

\* "malformed markup should degrade gracefully": of any sequence of texts, tags, stray
\* brackets and closing tags, escapes and legacy codes the component shows every character
\* in order that is not between a `<` and the next `>`, in the style of the tags around
\* it, and a gradient runs from its first stop to its last over its own characters.  What
\* is between the two is lost, as the name of a tag nobody knows.  Left out is markup with
\* a hex colour that is not of ASCII, at which the code panics although it says "never
\* panic or reject startup" (line 130).
RendersMarkup == Panics(input) \/ ShownJson(to_json_component(input)) = Meaning(input)

\* "renders identically client-side": the legacy text shows what the markup means.
LegacyRenders == Panics(input) \/ ShownLegacy(to_legacy_text(input)) = Meaning(input)
=============================================================================
