---------------------------- MODULE HostPattern ----------------------------
(***************************************************************************)
(* Host patterns (config/host_pattern.rs): `*` matches any sequence, `?`   *)
(* any single character, and both are captured for the $N of a route's     *)
(* backend templates.  A text is a sequence of characters.                 *)
(***************************************************************************)
EXTENDS Integers, Sequences, SequencesExt

CONSTANTS Upper,    \* the upper-case characters of the model, each with its lower case:
                    \* one character or, as that of U+0130, several
          MaxHost,  \* the longest host name that is matched
          None, Panic

Lower(c) == IF c \in DOMAIN Upper THEN Upper[c] ELSE <<c>>

\* to_lowercase
Lowered(s) == FlattenSeq([i \in 1..Len(s) |-> Lower(s[i])])

\* trim_end_matches('.')
Trimmed(s) == SubSeq(s, 1, Max({0} \cup {i \in 1..Len(s) : s[i] # "."}))

Wild == {"*", "?"}

\* dp[i, j]: the pattern from i on matches the text from j on.
Matches(p, t) ==
    LET n == Len(p)
        m == Len(t)
        dp[i \in 1..n + 1, j \in 1..m + 1] ==
          IF i > n THEN j > m
          ELSE IF p[i] = "*" THEN dp[i + 1, j] \/ (j <= m /\ dp[i, j + 1])
          ELSE j <= m /\ p[i] \in {"?", t[j]} /\ dp[i + 1, j + 1]
    IN  dp

\* Where the pattern's i-th character begins in the text: each `*` reaches as far as
\* the rest of the pattern allows.
Cuts(p, t) ==
    LET dp == Matches(p, t)
        cut[i \in 1..Len(p) + 1] ==
          IF i = 1 THEN 1
          ELSE IF p[i - 1] = "*"
                 THEN Max({k \in cut[i - 1]..Len(t) + 1 : dp[i, k]})
                 ELSE cut[i - 1] + 1
    IN  cut

WildOnes(p) == {i \in 1..Len(p) : p[i] \in Wild}

\* The spans of the wildcards, in order.
Spans(p, t, cut) ==
    LET wild == SetToSortSeq(WildOnes(p), <)
    IN  [k \in 1..Len(wild) |-> SubSeq(t, cut[wild[k]], cut[wild[k] + 1] - 1)]

\* The cuts come from the lowered host, the captures are slices of the host itself: a
\* slice that ends beyond it is a panic.
Sliced(p, t, cut) ==
    IF \A i \in WildOnes(p) : cut[i + 1] - 1 <= Len(t) THEN Spans(p, t, cut) ELSE Panic

\* M: a `*` takes the shortest span.
M_match_host(raw, hostname) ==
    LET p == Lowered(Trimmed(raw))
        t == Trimmed(hostname)
        dp == Matches(p, Lowered(t))
        cut[i \in 1..Len(p) + 1] ==
          IF i = 1 THEN 1
          ELSE IF p[i - 1] = "*" THEN Min({k \in cut[i - 1]..Len(Lowered(t)) + 1 : dp[i, k]})
                                 ELSE cut[i - 1] + 1
    IN  IF Len(t) <= MaxHost /\ dp[1, 1] THEN Sliced(p, t, cut) ELSE None

\* HostPattern::new and match_host: the captures in the host's own case, or none.
match_host(raw, hostname) ==
    LET p == Lowered(Trimmed(raw))
        t == Trimmed(hostname)
    IN  IF Len(t) <= MaxHost /\ Matches(p, Lowered(t))[1, 1]
          THEN Sliced(p, t, Cuts(p, Lowered(t)))
          ELSE None

\* substitute_params on a template cut into texts and references [ref |-> N]: a
\* reference out of range is left as it is.
substitute_params(template, captures) ==
    FlattenSeq([i \in 1..Len(template) |->
        IF template[i].ref \in 1..Len(captures) THEN captures[template[i].ref]
                                                ELSE template[i].text])

-----------------------------------------------------------------------------
(* What a match is, apart from how it is found.                              *)

\* Every way to lay the pattern over the text.
Layouts(p, t) ==
    {cut \in [1..Len(p) + 1 -> 1..Len(t) + 1] :
        /\ cut[1] = 1
        /\ cut[Len(p) + 1] = Len(t) + 1
        /\ \A i \in 1..Len(p) :
             IF p[i] = "*" THEN cut[i] <= cut[i + 1]
             ELSE cut[i + 1] = cut[i] + 1 /\ p[i] \in {"?", t[cut[i]]}}

\* Of two layouts, the one whose first differing span is longer.
Greedier(a, b) ==
    \E i \in DOMAIN a : a[i] > b[i] /\ \A k \in 1..i - 1 : a[k] = b[k]

\* The layout a backtracking regex with greedy (.*) would find.
Greediest(p, t) ==
    CHOOSE a \in Layouts(p, t) : \A b \in Layouts(p, t) \ {a} : Greedier(a, b)

\* Each character of the host has one lower-case character.
OneToOne(t) == \A i \in 1..Len(t) : Len(Lower(t[i])) = 1

\* "greedy, matching the old regex (.*) semantics": match_host finds a match exactly
\* when there is one, and its captures are those of the greediest, whatever the case and
\* the trailing dots of pattern and host.  Of a host that to_lowercase lengthens only
\* the match is stated: its captures are cut at the lowered host's places, so that they
\* are not "the original case of `hostname`" (lines 29-30), or match_host panics.
GreedyMatch(raw, hostname) ==
    LET p == Lowered(Trimmed(raw))
        t == Trimmed(hostname)
        all == IF Len(t) <= MaxHost THEN Layouts(p, Lowered(t)) ELSE {}
        found == match_host(raw, hostname)
    IN  /\ (found = None) = (all = {})
        /\ OneToOne(t) /\ all # {} => found = Spans(p, t, Greediest(p, Lowered(t)))
=============================================================================
