---------------------------- MODULE CommandLine ----------------------------
(***************************************************************************)
(* How the command line of the game is split into console lines            *)
(* (Com_ParseCommandLine, src/src/shared/common.cpp, which replaces the     *)
(* function of the game): at '+', ',' and at the end of a line, unless one  *)
(* stands inside quotes, where \" is no quote.  A character is one of four  *)
(* kinds; the text is split in place, by zeroing the separators.           *)
(***************************************************************************)
EXTENDS Integers, FiniteSets, SequencesExt

CONSTANT MaxConsoleLines        \* MAX_CONSOLE_LINES

ASSUME CommandLineAssumption == MaxConsoleLines \in Nat \ {0}

\* '+', ',' and '\n' are separators; everything else is a letter.
Char == {"quote", "backslash", "separator", "letter"}

CharAt(text, p) == IF p \in DOMAIN text THEN text[p] ELSE "end"

\* The quotes around the whole string are removed.
StripOuterQuotes(text) ==
    IF text # <<>> /\ Head(text) = "quote" /\ Last(text) = "quote"
    THEN SubSeq(text, 2, Len(text) - 1)
    ELSE text

\* Where the next character to look at is, whether it is inside quotes, where
\* lines begin, which characters were zeroed, and whether the function returned.
ScannerStart == [next |-> 1, inq |-> FALSE, begins |-> <<>>, zeroed |-> {}, full |-> FALSE]

\* The scanner of a text.
Scanner(text) ==
    [next : 1 .. Len(text) + 1, inq : BOOLEAN, begins : Seq(1 .. Len(text)),
     zeroed : SUBSET DOMAIN text, full : BOOLEAN]

Scanned(text, s) == s.full \/ s.next > Len(text)

\* A separator ends a line and begins another one, if that is not empty; when
\* there is no room for one more, the function returns.
Separate(text, s) ==
    IF Len(s.begins) = MaxConsoleLines
    THEN [s EXCEPT !.full = TRUE]
    ELSE [s EXCEPT !.next = @ + 1,
                   !.begins = IF CharAt(text, s.next + 1) \in {"end", "separator"}
                              THEN @ ELSE Append(@, s.next + 1),
                   !.zeroed = @ \cup {s.next}]

\* Mutant: separators are noticed inside quotes, as in the original function.
Scan_SplitsQuotes(text, s) ==
    CASE s.inq /\ text[s.next] = "backslash" /\ CharAt(text, s.next + 1) = "quote" ->
            [s EXCEPT !.next = @ + 2]
      [] text[s.next] = "quote" -> [s EXCEPT !.next = @ + 1, !.inq = ~@]
      [] text[s.next] = "separator" -> Separate(text, s)
      [] OTHER -> [s EXCEPT !.next = @ + 1]

\* The body of the loop.
Scan(text, s) ==
    CASE s.inq /\ text[s.next] = "backslash" /\ CharAt(text, s.next + 1) = "quote" ->
            [s EXCEPT !.next = @ + 2]
      [] text[s.next] = "quote" -> [s EXCEPT !.next = @ + 1, !.inq = ~@]
      [] text[s.next] = "separator" /\ ~s.inq -> Separate(text, s)
      [] OTHER -> [s EXCEPT !.next = @ + 1]

\* Each line reads from where it begins to the next zero.
com_consoleLines(text, s) ==
    [i \in DOMAIN s.begins |->
        SubSeq(text, s.begins[i],
               Min({z \in s.zeroed \cup {Len(text) + 1} : z > s.begins[i]}) - 1)]

-----------------------------------------------------------------------------
(***************************************************************************)
(* What the result should be, without a scanner.                           *)
(***************************************************************************)
Before(S, p) == {q \in S : q < p}

Inside(quotes, p) == Cardinality(Before(quotes, p)) % 2 = 1

\* The quotes that count: all but those that follow a backslash inside quotes.
Quotes(text) ==
    LET all == {p \in DOMAIN text : text[p] = "quote"}
    IN  CHOOSE Q \in SUBSET all :
            \A p \in all :
                p \in Q <=> ~(CharAt(text, p - 1) = "backslash" /\ Inside(Q, p))

Cuts(text) ==
    {p \in DOMAIN text : text[p] = "separator" /\ ~Inside(Quotes(text), p)}

\* What stands before the first cut is no line, and neither is what is empty.
LineCuts(text) == {p \in Cuts(text) : p < Len(text) /\ p + 1 \notin Cuts(text)}

KeptCuts(text) ==
    {p \in LineCuts(text) : Cardinality(Before(LineCuts(text), p)) < MaxConsoleLines}

\* A line lies between two cuts; the last one there is room for takes all the rest.
LineAfter(text, p) ==
    IF Cardinality(Before(LineCuts(text), p)) = MaxConsoleLines - 1
    THEN SubSeq(text, p + 1, Len(text))
    ELSE SubSeq(text, p + 1, Min({q \in Cuts(text) \cup {Len(text) + 1} : q > p}) - 1)

LinesOf(text) ==
    [i \in 1 .. Cardinality(KeptCuts(text)) |->
        LineAfter(text, CHOOSE p \in KeptCuts(text) :
                            Cardinality(Before(KeptCuts(text), p)) = i - 1)]

\* The first and the last quote are a pair.
IsQuotedWhole(text) == Quotes(text) = {1, Len(text)}

\* ... and stand around the whole text.
Unquoted(text) ==
    IF text # <<>> /\ IsQuotedWhole(text) THEN SubSeq(text, 2, Len(text) - 1) ELSE text

\* Texts that begin and end with a quote, but of two different quoted parts.
TwoQuotedParts(text) ==
    /\ text # <<>> /\ text[1] = "quote" /\ text[Len(text)] = "quote"
    /\ ~IsQuotedWhole(text)
=============================================================================
