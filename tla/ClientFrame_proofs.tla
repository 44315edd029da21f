------------------------- MODULE ClientFrame_proofs -------------------------
(***************************************************************************)
(* Theorems about the client: how it splits the command line, and about    *)
(* its frames: their types, the frame rate limit, and whose rules of       *)
(* movement are in force.                                                  *)
(***************************************************************************)
EXTENDS ClientFrame, TLAPS, FiniteSetTheorems, WellFoundedInduction

\* A version is only remembered while the client is on its way to play or plays;
\* the exception is a server that tells it in the client's very first frame.
VersionIsCurrent ==
    game_clientStateLast <= CONNECTED /\ g_cod2x.value > 0 =>
        clientState = ACTIVE /\ phase \in {"command", "fps", "game"}

\* A client that waits for its game state was seen waiting by game_frame.
WaitingWasSeen ==
    phase = "events" /\ asked /\ clientState = CONNECTED => game_clientStateLast = CONNECTED

PlayingWasSeen ==
    phase = "events" /\ clientState = ACTIVE => game_clientStateLast = ACTIVE

DemoIsNoServer ==
    demo_isPlaying => clientState \in {PRIMED, ACTIVE} /\ server = NoServer

OnlyPlayersAreTold == phase = "command" => clientState = ACTIVE

OnLegacyServer == clientState >= LOADING /\ ~demo_isPlaying /\ server.version = 0

LegacyHasNoVersion == OnLegacyServer => g_cod2x.value = 0

LegacyIsUnpatched == OnLegacyServer /\ game_clientStateLast = ACTIVE => ~clipFix

ToldPlays == told => clientState = ACTIVE /\ ~demo_isPlaying /\ g_cod2x.value > 0

\* A version whose change was noticed is patched in.
VersionIsPatched == g_cod2x.value > 0 /\ ~g_cod2x.modified => clipFix

ChangesAreNoticed == phase = "events" => ~g_cod2x.modified

VersionInv ==
    /\ VersionIsCurrent /\ WaitingWasSeen /\ PlayingWasSeen /\ DemoIsNoServer
    /\ OnlyPlayersAreTold
    /\ LegacyHasNoVersion /\ LegacyIsUnpatched
    /\ ToldPlays /\ VersionIsPatched /\ ChangesAreNoticed

-----------------------------------------------------------------------------
(* Sets of positions and how many of them lie before one.                  *)

LEMMA NatMinimum ==
  ASSUME NEW S \in SUBSET Nat, S # {}
  PROVE  \E m \in S : \A n \in S : m <= n
<1> DEFINE Less == {ss \in Nat \X Nat : ss[1] < ss[2]}
<1>1. IsWellFoundedOn(Less, Nat)
  BY NatLessThanWellFounded, Zenon DEF OpToRel
<1>2. PICK m \in S : \A n \in S : ~(<<n, m>> \in Less)
  <2> HIDE DEF Less
  <2> QED
    BY <1>1, WFMin, Zenon
<1>3. \A n \in S : ~(n < m)
  BY <1>2
<1> QED
  BY <1>3

\* The smallest element is found by looking at a part of the set, if the part
\* holds nothing larger than what is left out.
LEMMA MinOfPart ==
  ASSUME NEW S \in SUBSET Nat, NEW T \in SUBSET S, S # {},
         \A n \in S : n \in T \/ \E m \in T : m <= n
  PROVE  Min(S) = Min(T)
<1>1. PICK a \in T : \A n \in S : a <= n
  <2>1. PICK a \in S : \A n \in S : a <= n
    BY NatMinimum
  <2>2. CASE a \in T
    BY <2>1, <2>2
  <2>3. CASE a \notin T
    <3>1. PICK b \in T : b <= a
      BY <2>3
    <3>2. b = a
      BY <2>1, <3>1
    <3> QED
      BY <2>3, <3>2
  <2> QED
    BY <2>2, <2>3
<1>2. Min(S) = a
  <2>1. \A x \in S : (\A y \in S : x <= y) => x = a
    BY <1>1
  <2> QED
    BY <1>1, <2>1 DEF Min
<1>3. Min(T) = a
  <2>1. \A x \in T : (\A y \in T : x <= y) => x = a
    BY <1>1
  <2> QED
    BY <1>1, <2>1 DEF Min
<1> QED
  BY <1>2, <1>3

LEMMA BeforeIsFinite ==
  ASSUME NEW S, IsFiniteSet(S), NEW p
  PROVE  IsFiniteSet(Before(S, p)) /\ Cardinality(Before(S, p)) \in Nat
<1>1. Before(S, p) \in SUBSET S
  BY DEF Before
<1> QED
  BY <1>1, FS_Subset, FS_CardinalityType

LEMMA BeforeNext ==
  ASSUME NEW S \in SUBSET Nat, IsFiniteSet(S), NEW p \in Nat
  PROVE  Cardinality(Before(S, p + 1)) =
            IF p \in S THEN Cardinality(Before(S, p)) + 1 ELSE Cardinality(Before(S, p))
<1>0. ~(p < p) /\ \A x \in S : x < p + 1 <=> x < p \/ x = p
  OBVIOUS
<1>1. CASE p \in S
  <2>1. Before(S, p + 1) = Before(S, p) \cup {p} /\ p \notin Before(S, p)
    BY <1>0, <1>1 DEF Before
  <2> QED
    BY <1>1, <2>1, BeforeIsFinite, FS_AddElement
<1>2. CASE p \notin S
  <2>1. Before(S, p + 1) = Before(S, p)
    BY <1>0, <1>2 DEF Before
  <2> QED
    BY <1>2, <2>1
<1> QED
  BY <1>1, <1>2

\* Elements of a set are told apart by how many lie before them.
LEMMA BeforeGrows ==
  ASSUME NEW S \in SUBSET Nat, IsFiniteSet(S), NEW p \in S, NEW q \in Nat, p < q
  PROVE  Cardinality(Before(S, p)) < Cardinality(Before(S, q))
<1>1. Before(S, p + 1) \in SUBSET Before(S, q)
  <2>1. \A x \in S : x < p + 1 => x < q
    OBVIOUS
  <2> QED
    BY <2>1 DEF Before
<1>2. Cardinality(Before(S, p + 1)) <= Cardinality(Before(S, q))
  BY <1>1, BeforeIsFinite, FS_Subset
<1>3. Cardinality(Before(S, p + 1)) = Cardinality(Before(S, p)) + 1
  BY BeforeNext
<1> QED
  BY <1>2, <1>3, BeforeIsFinite

LEMMA BeforeFirst ==
  ASSUME NEW S \in SUBSET (Nat \ {0})
  PROVE  Before(S, 1) = {} /\ Cardinality(Before(S, 1)) = 0
<1>1. Before(S, 1) = {}
  <2>1. \A x \in S : ~(x < 1)
    OBVIOUS
  <2> QED
    BY <2>1 DEF Before
<1> QED
  BY <1>1, FS_EmptySet

LEMMA InsideFlips ==
  ASSUME NEW S \in SUBSET Nat, IsFiniteSet(S), NEW p \in Nat
  PROVE  /\ p \in S => (Inside(S, p + 1) <=> ~Inside(S, p))
         /\ p \notin S => (Inside(S, p + 1) <=> Inside(S, p))
<1>1. Cardinality(Before(S, p)) \in Nat
  BY BeforeIsFinite
<1>2. \A n \in Nat : ((n + 1) % 2 = 1) <=> ~(n % 2 = 1)
  OBVIOUS
<1> QED
  BY <1>1, <1>2, BeforeNext DEF Inside

-----------------------------------------------------------------------------
(* The quotes that count.                                                  *)

QuoteAt(chars) == {p \in DOMAIN chars : chars[p] = "quote"}

\* Q is right about the quote at p, given the ones before it.
RightAt(chars, Q, p) ==
    p \in Q <=> ~(CharAt(chars, p - 1) = "backslash" /\ Inside(Q, p))

RightUpTo(chars, Q, k) == \A p \in QuoteAt(chars) : p <= k => RightAt(chars, Q, p)

LEMMA QuotePositions ==
  ASSUME NEW chars \in Seq(Char), NEW S \in SUBSET DOMAIN chars
  PROVE  S \in SUBSET (Nat \ {0}) /\ S \in SUBSET Nat /\ IsFiniteSet(S)
<1>1. DOMAIN chars = 1 .. Len(chars) /\ Len(chars) \in Nat
  OBVIOUS
<1>2. IsFiniteSet(S)
  <2>1. IsFiniteSet(1 .. Len(chars))
    BY <1>1, FS_Interval
  <2> QED
    BY <1>1, <2>1, FS_Subset, Zenon
<1>3. \A x \in S : x \in Nat \ {0}
  BY <1>1
<1> QED
  BY <1>2, <1>3

\* Only what stands before a quote decides whether it counts.
LEMMA RightIsLocal ==
  ASSUME NEW chars, NEW Q, NEW R, NEW p, Before(Q, p) = Before(R, p), p \in Q <=> p \in R
  PROVE  RightAt(chars, Q, p) <=> RightAt(chars, R, p)
BY DEF RightAt, Inside

LEMMA QuotesExtend ==
  ASSUME NEW chars \in Seq(Char), NEW k \in Nat,
         NEW Q \in SUBSET QuoteAt(chars), \A q \in Q : q <= k, RightUpTo(chars, Q, k)
  PROVE  \E R \in SUBSET QuoteAt(chars) :
            (\A q \in R : q <= k + 1) /\ RightUpTo(chars, R, k + 1)
<1> DEFINE counts == ~(CharAt(chars, k) = "backslash" /\ Inside(Q, k + 1))
           R == Q \cup {p \in QuoteAt(chars) : p = k + 1 /\ counts}
<1>1. QuoteAt(chars) \in SUBSET Nat
  BY QuotePositions DEF QuoteAt
<1>2. \A p \in Nat : p <= k + 1 <=> p <= k \/ p = k + 1
  OBVIOUS
<1>3. R \in SUBSET QuoteAt(chars) /\ (\A q \in R : q <= k + 1)
  BY <1>1, <1>2
<1>4. \A p \in QuoteAt(chars) : p <= k + 1 => Before(R, p) = Before(Q, p)
  <2>1. \A p \in Nat : p <= k + 1 => ~(k + 1 < p)
    OBVIOUS
  <2> QED
    BY <1>1, <2>1 DEF Before
<1>5. \A p \in QuoteAt(chars) : p <= k => (p \in R <=> p \in Q)
  <2>1. ~(k + 1 <= k)
    OBVIOUS
  <2> QED
    BY <2>1
<1>6. \A p \in QuoteAt(chars) : p <= k => RightAt(chars, R, p)
  BY <1>1, <1>2, <1>4, <1>5, RightIsLocal DEF RightUpTo
<1>7. ASSUME k + 1 \in QuoteAt(chars)
      PROVE  RightAt(chars, R, k + 1)
  <2>1. k + 1 \notin Q
    <3>1. ~(k + 1 <= k)
      OBVIOUS
    <3> QED
      BY <3>1
  <2>2. k + 1 \in R <=> counts
    BY <1>7, <2>1
  <2>3. Inside(R, k + 1) <=> Inside(Q, k + 1)
    BY <1>4, <1>7 DEF Inside
  <2>4. (k + 1) - 1 = k
    OBVIOUS
  <2> QED
    BY <2>2, <2>3, <2>4 DEF RightAt
<1>8. RightUpTo(chars, R, k + 1)
  BY <1>1, <1>2, <1>6, <1>7 DEF RightUpTo
<1> QED
  BY <1>3, <1>8

LEMMA QuotesUpTo ==
  ASSUME NEW chars \in Seq(Char), NEW k \in Nat
  PROVE  \E Q \in SUBSET QuoteAt(chars) : (\A q \in Q : q <= k) /\ RightUpTo(chars, Q, k)
<1> DEFINE Known(n) ==
      \E Q \in SUBSET QuoteAt(chars) : (\A q \in Q : q <= n) /\ RightUpTo(chars, Q, n)
           Unknown == {n \in Nat : ~Known(n)}
<1> SUFFICES Unknown = {}
  OBVIOUS
<1> SUFFICES ASSUME Unknown # {}
             PROVE  FALSE
  OBVIOUS
<1>1. PICK m \in Unknown : \A n \in Unknown : m <= n
  <2>1. Unknown \in SUBSET Nat
    OBVIOUS
  <2> HIDE DEF Unknown
  <2> QED
    BY <2>1, NatMinimum
<1>2. Known(0)
  <2>1. \A p \in QuoteAt(chars) : ~(p <= 0)
    BY QuotePositions DEF QuoteAt
  <2>2. RightUpTo(chars, {}, 0)
    BY <2>1 DEF RightUpTo
  <2> QED
    BY <2>2
<1>3. m # 0 /\ m \in Nat
  BY <1>2
<1>4. m - 1 \in Nat /\ ~(m <= m - 1)
  BY <1>3
<1>5. Known(m - 1)
  BY <1>1, <1>4
<1>6. Known((m - 1) + 1)
  <2> HIDE DEF Unknown
  <2>1. PICK Q \in SUBSET QuoteAt(chars) : (\A q \in Q : q <= m - 1) /\ RightUpTo(chars, Q, m - 1)
    BY <1>5
  <2> QED
    BY <1>4, <2>1, QuotesExtend
<1>7. (m - 1) + 1 = m
  BY <1>3
<1> QED
  BY <1>1, <1>6, <1>7

LEMMA QuotesAreRight ==
  ASSUME NEW chars \in Seq(Char)
  PROVE  /\ Quotes(chars) \in SUBSET QuoteAt(chars)
         /\ \A p \in QuoteAt(chars) : RightAt(chars, Quotes(chars), p)
<1>1. PICK Q \in SUBSET QuoteAt(chars) : RightUpTo(chars, Q, Len(chars))
  BY QuotesUpTo
<1>2. \A p \in QuoteAt(chars) : p <= Len(chars)
  BY DEF QuoteAt
<1>3. \E R \in SUBSET QuoteAt(chars) : \A p \in QuoteAt(chars) :
          p \in R <=> ~(CharAt(chars, p - 1) = "backslash" /\ Inside(R, p))
  BY <1>1, <1>2 DEF RightUpTo, RightAt
<1>4. Quotes(chars) = CHOOSE R \in SUBSET QuoteAt(chars) : \A p \in QuoteAt(chars) :
          p \in R <=> ~(CharAt(chars, p - 1) = "backslash" /\ Inside(R, p))
  BY DEF Quotes, QuoteAt
<1> QED
  BY <1>3, <1>4 DEF RightAt

-----------------------------------------------------------------------------
(* The scanner.                                                            *)

\* It is inside quotes where the reference is, and never stops at a quote that
\* does not count.
FindsQuotes(chars, s) ==
    /\ s.inq <=> Inside(Quotes(chars), s.next)
    /\ s.next \in QuoteAt(chars) => s.next \in Quotes(chars)

\* The cuts behind it are zeroed; it stops at one that finds no room.
FindsCuts(chars, s) ==
    /\ s.zeroed = Before(Cuts(chars), s.next)
    /\ s.full => s.next \in Cuts(chars) /\ Len(s.begins) = MaxConsoleLines

\* The i-th line begins behind the i-th cut that has one, and nothing is zeroed
\* behind the beginning of the last line.
FindsLines(chars, s) ==
    /\ Len(s.begins) = Cardinality(Before(LineCuts(chars), s.next))
    /\ Len(s.begins) <= MaxConsoleLines
    /\ \A i \in DOMAIN s.begins :
          /\ s.begins[i] - 1 \in Before(LineCuts(chars), s.next)
          /\ Cardinality(Before(LineCuts(chars), s.begins[i] - 1)) = i - 1
    /\ Len(s.begins) = MaxConsoleLines =>
          \A z \in s.zeroed : z < s.begins[MaxConsoleLines]

LEMMA PositionSets ==
  ASSUME NEW chars \in Seq(Char)
  PROVE  /\ Quotes(chars) \in SUBSET Nat /\ IsFiniteSet(Quotes(chars))
         /\ Cuts(chars) \in SUBSET Nat /\ IsFiniteSet(Cuts(chars))
         /\ LineCuts(chars) \in SUBSET Cuts(chars)
         /\ LineCuts(chars) \in SUBSET Nat /\ IsFiniteSet(LineCuts(chars))
         /\ \A p \in Quotes(chars) : p \in DOMAIN chars /\ chars[p] = "quote"
<1>1. Quotes(chars) \in SUBSET DOMAIN chars /\ \A p \in Quotes(chars) : chars[p] = "quote"
  BY QuotesAreRight DEF QuoteAt
<1>2. LineCuts(chars) \in SUBSET Cuts(chars) /\ Cuts(chars) \in SUBSET DOMAIN chars
  BY DEF LineCuts, Cuts
<1>3. LineCuts(chars) \in SUBSET DOMAIN chars
  BY <1>2
<1> QED
  BY <1>1, <1>2, <1>3, QuotePositions

LEMMA ScannerTypes ==
  ASSUME NEW chars \in Seq(Char), NEW s \in Scanner(chars), ~Scanned(chars, s)
  PROVE  /\ s.next \in 1 .. Len(chars) /\ s.next \in Nat /\ s.next + 1 \in Nat
         /\ s.inq \in BOOLEAN /\ s.begins \in Seq(1 .. Len(chars)) /\ s.full = FALSE
         /\ s.zeroed \in SUBSET DOMAIN chars
         /\ DOMAIN chars = 1 .. Len(chars) /\ Len(chars) \in Nat
         /\ chars[s.next] \in Char /\ CharAt(chars, s.next) = chars[s.next]
         /\ CharAt(chars, s.next + 1) = IF s.next < Len(chars) THEN chars[s.next + 1] ELSE "end"
BY DEF Scanner, Scanned, CharAt

Escapes(chars, s) ==
    s.inq /\ chars[s.next] = "backslash" /\ CharAt(chars, s.next + 1) = "quote"
Separates(chars, s) == chars[s.next] = "separator" /\ ~s.inq

\* The scanner moves on and leaves the lines alone.
Moves(s, t, next, inq) ==
    /\ t.next = next /\ t.inq = inq
    /\ t.begins = s.begins /\ t.zeroed = s.zeroed /\ t.full = s.full

LEMMA ScanCases ==
  ASSUME NEW chars \in Seq(Char), NEW s \in Scanner(chars), ~Scanned(chars, s)
  PROVE  /\ Escapes(chars, s) => Moves(s, Scan(chars, s), s.next + 2, s.inq)
         /\ chars[s.next] = "quote" => Moves(s, Scan(chars, s), s.next + 1, ~s.inq)
         /\ Separates(chars, s) => Scan(chars, s) = Separate(chars, s)
         /\ ~Escapes(chars, s) /\ chars[s.next] # "quote" /\ ~Separates(chars, s) =>
               Moves(s, Scan(chars, s), s.next + 1, s.inq)
<1>1. Escapes(chars, s) => Scan(chars, s) = [s EXCEPT !.next = @ + 2]
  BY DEF Scan, Escapes
<1>2. chars[s.next] = "quote" => Scan(chars, s) = [s EXCEPT !.next = @ + 1, !.inq = ~@]
  BY DEF Scan
<1>3. Separates(chars, s) => Scan(chars, s) = Separate(chars, s)
  BY DEF Scan, Separates
<1>4. ~Escapes(chars, s) /\ chars[s.next] # "quote" /\ ~Separates(chars, s) =>
         Scan(chars, s) = [s EXCEPT !.next = @ + 1]
  BY DEF Scan, Escapes, Separates
<1> QED
  BY <1>1, <1>2, <1>3, <1>4 DEF Moves, Scanner

\* The scanner stops at a separator, or cuts there.
Stops(s, t) ==
    /\ t.next = s.next /\ t.inq = s.inq
    /\ t.begins = s.begins /\ t.zeroed = s.zeroed /\ t.full = TRUE

CutsAt(chars, s, t) ==
    /\ t.next = s.next + 1 /\ t.inq = s.inq
    /\ t.begins = IF CharAt(chars, s.next + 1) \in {"end", "separator"}
                  THEN s.begins ELSE Append(s.begins, s.next + 1)
    /\ t.zeroed = s.zeroed \cup {s.next} /\ t.full = FALSE

LEMMA SeparateCases ==
  ASSUME NEW chars \in Seq(Char), NEW s \in Scanner(chars), ~Scanned(chars, s),
         Separates(chars, s)
  PROVE  /\ Len(s.begins) = MaxConsoleLines => Stops(s, Scan(chars, s))
         /\ Len(s.begins) # MaxConsoleLines => CutsAt(chars, s, Scan(chars, s))
<1>1. Scan(chars, s) = Separate(chars, s)
  BY ScanCases
<1>2. s.full = FALSE
  BY ScannerTypes
<1>3. ASSUME Len(s.begins) = MaxConsoleLines
      PROVE  Stops(s, Separate(chars, s))
  BY <1>3 DEF Separate, Scanner, Stops
<1>4. ASSUME Len(s.begins) # MaxConsoleLines
      PROVE  CutsAt(chars, s, Separate(chars, s))
  BY <1>2, <1>4 DEF Separate, Scanner, CutsAt
<1> QED
  BY <1>1, <1>3, <1>4

\* What the quote at p + 1 depends on.
LEMMA QuoteNext ==
  ASSUME NEW chars \in Seq(Char), NEW p \in 1 .. Len(chars), p + 1 \in QuoteAt(chars)
  PROVE  p + 1 \in Quotes(chars) <=>
            ~(chars[p] = "backslash" /\ Inside(Quotes(chars), p + 1))
<1>1. CharAt(chars, (p + 1) - 1) = chars[p]
  BY DEF CharAt
<1> QED
  BY <1>1, QuotesAreRight DEF RightAt

LEMMA StepFindsQuotes ==
  ASSUME NEW chars \in Seq(Char), NEW s \in Scanner(chars), ~Scanned(chars, s),
         FindsQuotes(chars, s)
  PROVE  FindsQuotes(chars, Scan(chars, s))
<1> DEFINE n == s.next
           Q == Quotes(chars)
           t == Scan(chars, s)
<1>0. /\ n \in 1 .. Len(chars) /\ n \in Nat /\ n + 1 \in Nat
      /\ s.inq \in BOOLEAN
      /\ s.inq <=> Inside(Q, n)
      /\ Q \in SUBSET Nat /\ IsFiniteSet(Q)
      /\ n \in Q <=> chars[n] = "quote"
  BY ScannerTypes, PositionSets DEF FindsQuotes, QuoteAt
<1>1. CASE Escapes(chars, s)
  <2>1. t.next = (n + 1) + 1 /\ t.inq = s.inq
    BY <1>0, <1>1, ScanCases DEF Moves
  <2>2. n + 1 \in 1 .. Len(chars) /\ chars[n + 1] = "quote" /\ chars[n] = "backslash" /\ s.inq
    <3>1. CharAt(chars, n + 1) = IF n < Len(chars) THEN chars[n + 1] ELSE "end"
      BY ScannerTypes
    <3>2. n < Len(chars)
      BY <1>1, <3>1 DEF Escapes
    <3> QED
      BY <1>0, <1>1, <3>1, <3>2 DEF Escapes
  <2>3. Inside(Q, n + 1) <=> Inside(Q, n)
    BY <1>0, <2>2, InsideFlips
  <2>4. n + 1 \notin Q
    BY <1>0, <2>2, <2>3, QuoteNext, ScannerTypes DEF QuoteAt
  <2>5. Inside(Q, (n + 1) + 1) <=> Inside(Q, n + 1)
    BY <1>0, <2>4, InsideFlips
  <2>6. (n + 1) + 1 \in QuoteAt(chars) => (n + 1) + 1 \in Q
    BY <2>2, QuoteNext
  <2> QED
    BY <1>0, <2>1, <2>3, <2>5, <2>6 DEF FindsQuotes
<1>2. CASE chars[n] = "quote"
  <2>1. t.next = n + 1 /\ t.inq = ~s.inq
    BY <1>2, ScanCases DEF Moves
  <2>2. Inside(Q, n + 1) <=> ~Inside(Q, n)
    BY <1>0, <1>2, InsideFlips
  <2>3. n + 1 \in QuoteAt(chars) => n + 1 \in Q
    BY <1>0, <1>2, QuoteNext
  <2> QED
    BY <1>0, <2>1, <2>2, <2>3 DEF FindsQuotes
<1>3. CASE ~Escapes(chars, s) /\ chars[n] # "quote"
  <2>1. t.next \in {n, n + 1} /\ t.inq = s.inq
    <3>1. CASE Separates(chars, s)
      <4>1. Stops(s, t) \/ CutsAt(chars, s, t)
        BY <3>1, SeparateCases
      <4> QED
        BY <4>1 DEF Stops, CutsAt
    <3>2. CASE ~Separates(chars, s)
      <4>1. Moves(s, t, n + 1, s.inq)
        BY <1>3, <3>2, ScanCases
      <4> QED
        BY <4>1 DEF Moves
    <3> QED
      BY <3>1, <3>2
  <2>2. Inside(Q, n + 1) <=> Inside(Q, n)
    BY <1>0, <1>3, InsideFlips
  <2>3. n + 1 \in QuoteAt(chars) => n + 1 \in Q
    <3> SUFFICES ASSUME n + 1 \in QuoteAt(chars), chars[n] = "backslash", Inside(Q, n + 1)
                 PROVE  FALSE
      BY <1>0, QuoteNext
    <3>1. CharAt(chars, n + 1) = "quote"
      BY DEF QuoteAt, CharAt
    <3> QED
      BY <1>0, <1>3, <2>2, <3>1 DEF Escapes
  <2> QED
    BY <1>0, <2>1, <2>2, <2>3 DEF FindsQuotes
<1> QED
  BY <1>1, <1>2, <1>3

\* Where a separator is no cut, and where it is one that begins a line.
LEMMA CutAtNext ==
  ASSUME NEW chars \in Seq(Char), NEW s \in Scanner(chars), ~Scanned(chars, s),
         FindsQuotes(chars, s)
  PROVE  /\ s.next \in Cuts(chars) <=> Separates(chars, s)
         /\ Separates(chars, s) =>
               (s.next \in LineCuts(chars) <=>
                   CharAt(chars, s.next + 1) \notin {"end", "separator"})
<1> DEFINE n == s.next
<1>1. n \in Cuts(chars) <=> Separates(chars, s)
  BY ScannerTypes DEF Cuts, Separates, FindsQuotes
<1>2. ASSUME Separates(chars, s)
      PROVE  n \in LineCuts(chars) <=> CharAt(chars, n + 1) \notin {"end", "separator"}
  <2>1. chars[n] = "separator" /\ n \notin Quotes(chars) /\ ~Inside(Quotes(chars), n)
    BY <1>2, PositionSets DEF Separates, FindsQuotes
  <2>2. ~Inside(Quotes(chars), n + 1)
    BY <2>1, InsideFlips, ScannerTypes, PositionSets
  <2>3. n < Len(chars) => n + 1 \in DOMAIN chars /\ chars[n + 1] \in Char
    <3>1. n \in 1 .. Len(chars) /\ DOMAIN chars = 1 .. Len(chars)
      BY ScannerTypes
    <3> QED
      BY <3>1
  <2>4. n < Len(chars) => (n + 1 \in Cuts(chars) <=> chars[n + 1] = "separator")
    BY <2>2, <2>3 DEF Cuts
  <2>5. n < Len(chars) => chars[n + 1] # "end"
    BY <2>3 DEF Char
  <2>6. n \in LineCuts(chars) <=> n < Len(chars) /\ n + 1 \notin Cuts(chars)
    BY <1>1, <1>2, ScannerTypes DEF LineCuts
  <2> QED
    BY <2>4, <2>5, <2>6, ScannerTypes
<1> QED
  BY <1>1, <1>2

\* Behind an escaped quote there is no cut.
LEMMA NoCutEscaped ==
  ASSUME NEW chars \in Seq(Char), NEW s \in Scanner(chars), ~Scanned(chars, s),
         Escapes(chars, s)
  PROVE  s.next \notin Cuts(chars) /\ s.next + 1 \notin Cuts(chars)
BY ScannerTypes DEF Escapes, Cuts

\* The scanner moves over what is no cut, and one by one over cuts.
LEMMA StepMoves ==
  ASSUME NEW chars \in Seq(Char), NEW s \in Scanner(chars), ~Scanned(chars, s),
         FindsQuotes(chars, s),
         NEW S \in SUBSET Cuts(chars), ~Separates(chars, s)
  PROVE  /\ Before(S, Scan(chars, s).next) = Before(S, s.next)
         /\ Scan(chars, s).begins = s.begins /\ Scan(chars, s).zeroed = s.zeroed
         /\ Scan(chars, s).full = FALSE
<1> DEFINE n == s.next
           t == Scan(chars, s)
<1>0. n \in Nat /\ n \notin S /\ S \in SUBSET Nat
  BY ScannerTypes, CutAtNext, PositionSets
<1>1. t.begins = s.begins /\ t.zeroed = s.zeroed /\ t.full = FALSE
  <2>1. s.full = FALSE
    BY ScannerTypes
  <2>2. \E next, inq : Moves(s, t, next, inq)
    BY ScanCases
  <2> QED
    BY <2>1, <2>2 DEF Moves
<1>2. \A x \in S : x < n + 1 <=> x < n
  BY <1>0
<1>3. CASE Escapes(chars, s)
  <2>1. t.next = n + 2
    BY <1>3, ScanCases DEF Moves
  <2>2. n + 1 \notin S
    BY <1>3, NoCutEscaped
  <2>3. \A x \in S : x < n + 2 <=> x < n
    BY <1>0, <2>2
  <2> QED
    BY <1>1, <2>1, <2>3 DEF Before
<1>4. CASE ~Escapes(chars, s)
  <2>1. t.next = n + 1
    BY <1>4, ScanCases DEF Moves
  <2> QED
    BY <1>1, <1>2, <2>1 DEF Before
<1> QED
  BY <1>3, <1>4

LEMMA StepIsScanner ==
  ASSUME NEW chars \in Seq(Char), NEW s \in Scanner(chars), ~Scanned(chars, s)
  PROVE  Scan(chars, s) \in Scanner(chars)
<1> DEFINE n == s.next
<1>1. /\ n \in 1 .. Len(chars) /\ Len(chars) \in Nat
      /\ s.begins \in Seq(1 .. Len(chars)) /\ s.zeroed \in SUBSET DOMAIN chars
      /\ n \in DOMAIN chars
      /\ s.inq \in BOOLEAN
  BY ScannerTypes
<1>2. CharAt(chars, n + 1) # "end" => n + 1 \in 1 .. Len(chars)
  BY <1>1 DEF CharAt
<1>3. n + 1 \in 1 .. Len(chars) + 1
  BY <1>1
<1>4. CASE Escapes(chars, s)
  <2>1. Scan(chars, s) = [s EXCEPT !.next = @ + 2]
    BY <1>4 DEF Scan, Escapes
  <2>2. n + 2 \in 1 .. Len(chars) + 1
    BY <1>1, <1>2, <1>4 DEF Escapes
  <2> QED
    BY <2>1, <2>2 DEF Scanner
<1>5. CASE chars[n] = "quote"
  <2>1. Scan(chars, s) = [s EXCEPT !.next = @ + 1, !.inq = ~@]
    BY <1>5 DEF Scan
  <2> QED
    BY <1>3, <2>1 DEF Scanner
<1>6. CASE Separates(chars, s)
  <2>1. Scan(chars, s) = Separate(chars, s)
    BY <1>6, ScanCases
  <2>2. CASE Len(s.begins) = MaxConsoleLines
    BY <2>1, <2>2 DEF Separate, Scanner
  <2>3. CASE Len(s.begins) # MaxConsoleLines
    <3> DEFINE begins == IF CharAt(chars, n + 1) \in {"end", "separator"}
                         THEN s.begins ELSE Append(s.begins, n + 1)
               zeroed == s.zeroed \cup {n}
    <3>1. begins \in Seq(1 .. Len(chars))
      <4>1. CASE CharAt(chars, n + 1) \in {"end", "separator"}
        BY <1>1, <4>1
      <4>2. CASE CharAt(chars, n + 1) \notin {"end", "separator"}
        BY <1>1, <1>2, <4>2
      <4> QED
        BY <4>1, <4>2
    <3>2. zeroed \in SUBSET DOMAIN chars
      BY <1>1
    <3>3. Scan(chars, s) = [s EXCEPT !.next = n + 1, !.begins = begins, !.zeroed = zeroed]
      BY <2>1, <2>3 DEF Separate
    <3> HIDE DEF begins, zeroed
    <3> QED
      BY <1>3, <3>1, <3>2, <3>3 DEF Scanner
  <2> QED
    BY <2>2, <2>3
<1>7. CASE ~Escapes(chars, s) /\ chars[n] # "quote" /\ ~Separates(chars, s)
  <2>1. Scan(chars, s) = [s EXCEPT !.next = @ + 1]
    BY <1>7 DEF Scan, Escapes, Separates
  <2> QED
    BY <1>3, <2>1 DEF Scanner
<1> QED
  BY <1>4, <1>5, <1>6, <1>7

LEMMA StepFindsCuts ==
  ASSUME NEW chars \in Seq(Char), NEW s \in Scanner(chars), ~Scanned(chars, s),
         FindsQuotes(chars, s), FindsCuts(chars, s)
  PROVE  FindsCuts(chars, Scan(chars, s))
<1> DEFINE n == s.next
           t == Scan(chars, s)
<1>1. CASE ~Separates(chars, s)
  <2>1. /\ Before(Cuts(chars), t.next) = Before(Cuts(chars), n)
        /\ t.zeroed = s.zeroed /\ t.full = FALSE
    BY <1>1, StepMoves
  <2> QED
    BY <2>1 DEF FindsCuts
<1>2. CASE Separates(chars, s)
  <2>1. n \in Cuts(chars)
    BY <1>2, CutAtNext
  <2>2. CASE Len(s.begins) = MaxConsoleLines
    <3>1. Stops(s, t)
      BY <1>2, <2>2, SeparateCases
    <3> QED
      BY <2>1, <2>2, <3>1 DEF FindsCuts, Stops
  <2>3. CASE Len(s.begins) # MaxConsoleLines
    <3>1. CutsAt(chars, s, t)
      BY <1>2, <2>3, SeparateCases
    <3>2. Before(Cuts(chars), n + 1) = Before(Cuts(chars), n) \cup {n}
      <4>1. n \in Nat /\ Cuts(chars) \in SUBSET Nat
        BY PositionSets, ScannerTypes
      <4>2. \A x \in Cuts(chars) : x < n + 1 <=> x < n \/ x = n
        BY <4>1
      <4> QED
        BY <2>1, <4>2 DEF Before
    <3> QED
      BY <3>1, <3>2 DEF FindsCuts, CutsAt
  <2> QED
    BY <2>2, <2>3
<1> QED
  BY <1>1, <1>2

LEMMA StepFindsLines ==
  ASSUME NEW chars \in Seq(Char), NEW s \in Scanner(chars), ~Scanned(chars, s),
         FindsQuotes(chars, s), FindsCuts(chars, s), FindsLines(chars, s)
  PROVE  FindsLines(chars, Scan(chars, s))
<1> DEFINE n == s.next
           t == Scan(chars, s)
           lines == LineCuts(chars)
           seen == Before(lines, n)
<1>0. n \in Nat /\ lines \in SUBSET Nat /\ IsFiniteSet(lines) /\ s.begins \in Seq(1 .. Len(chars))
      /\ MaxConsoleLines \in Nat /\ MaxConsoleLines > 0 /\ Cardinality(seen) \in Nat
  <2>1. n \in Nat /\ s.begins \in Seq(1 .. Len(chars))
    BY ScannerTypes
  <2>2. lines \in SUBSET Nat /\ IsFiniteSet(lines)
    BY PositionSets
  <2> QED
    BY <2>1, <2>2, BeforeIsFinite, CommandLineAssumption
<1>1. CASE ~Separates(chars, s)
  <2>1. /\ Before(lines, t.next) = seen
        /\ t.begins = s.begins /\ t.zeroed = s.zeroed
    BY <1>1, StepMoves, PositionSets
  <2> QED
    BY <2>1 DEF FindsLines
<1>2. CASE Separates(chars, s)
  <2>1. n \in lines <=> CharAt(chars, n + 1) \notin {"end", "separator"}
    BY <1>2, CutAtNext
  <2>2. CASE Len(s.begins) = MaxConsoleLines
    <3>1. Stops(s, t)
      BY <1>2, <2>2, SeparateCases
    <3> QED
      BY <3>1 DEF FindsLines, Stops
  <2>3. CASE Len(s.begins) # MaxConsoleLines /\ n \notin lines
    <3>1. t.next = n + 1 /\ t.zeroed = s.zeroed \cup {n} /\ t.begins = s.begins
      <4>1. CutsAt(chars, s, t)
        BY <1>2, <2>3, SeparateCases
      <4> QED
        BY <2>1, <2>3, <4>1 DEF CutsAt
    <3>2. Before(lines, n + 1) = seen
      <4>1. \A x \in lines : x < n + 1 <=> x < n
        BY <1>0, <2>3
      <4> QED
        BY <4>1 DEF Before
    <3> QED
      BY <2>3, <3>1, <3>2 DEF FindsLines
  <2>4. CASE Len(s.begins) # MaxConsoleLines /\ n \in lines
    <3>1. /\ t.next = n + 1 /\ t.zeroed = s.zeroed \cup {n}
          /\ t.begins = Append(s.begins, n + 1)
      <4>1. CutsAt(chars, s, t)
        BY <1>2, <2>4, SeparateCases
      <4> QED
        BY <2>1, <2>4, <4>1 DEF CutsAt
    <3>2. /\ Len(t.begins) = Len(s.begins) + 1 /\ DOMAIN t.begins = 1 .. Len(s.begins) + 1
          /\ t.begins[Len(s.begins) + 1] = n + 1
          /\ \A i \in DOMAIN s.begins : t.begins[i] = s.begins[i]
          /\ DOMAIN s.begins = 1 .. Len(s.begins) /\ Len(s.begins) \in Nat
      BY <1>0, <3>1
    <3>3. /\ Cardinality(Before(lines, n + 1)) = Cardinality(seen) + 1
          /\ Before(lines, n + 1) = seen \cup {n}
      <4>1. \A x \in lines : x < n + 1 <=> x < n \/ x = n
        BY <1>0, <2>4
      <4>2. Before(lines, n + 1) = seen \cup {n}
        BY <2>4, <4>1 DEF Before
      <4> QED
        BY <1>0, <2>4, <4>2, BeforeNext
    <3>4. /\ Len(t.begins) = Cardinality(Before(lines, t.next))
          /\ Len(t.begins) <= MaxConsoleLines
      BY <1>0, <2>4, <3>1, <3>2, <3>3 DEF FindsLines
    <3>5. ASSUME NEW i \in DOMAIN t.begins
          PROVE  /\ t.begins[i] - 1 \in Before(lines, t.next)
                 /\ Cardinality(Before(lines, t.begins[i] - 1)) = i - 1
      <4>1. CASE i \in DOMAIN s.begins
        BY <3>1, <3>2, <3>3, <4>1 DEF FindsLines
      <4>2. CASE i = Len(s.begins) + 1
        <5>1. t.begins[i] = n + 1 /\ (n + 1) - 1 = n /\ i - 1 = Len(s.begins)
          BY <1>0, <3>2, <4>2
        <5>2. t.begins[i] - 1 = n
          BY <5>1
        <5> QED
          BY <3>1, <3>3, <5>1, <5>2 DEF FindsLines
      <4> QED
        BY <3>2, <4>1, <4>2
    <3>6. ASSUME Len(t.begins) = MaxConsoleLines, NEW z \in t.zeroed
          PROVE  z < t.begins[MaxConsoleLines]
      <4>1. t.begins[MaxConsoleLines] = n + 1
        BY <3>2, <3>6
      <4>2. z \in Nat /\ z <= n
        <5>1. \A x \in Before(Cuts(chars), n) : x \in Nat /\ x <= n
          BY <1>0, PositionSets DEF Before
        <5> QED
          BY <1>0, <3>1, <5>1 DEF FindsCuts
      <4> QED
        BY <1>0, <4>1, <4>2
    <3> QED
      BY <3>4, <3>5, <3>6 DEF FindsLines
  <2> QED
    BY <2>2, <2>3, <2>4
<1> QED
  BY <1>1, <1>2

\* When it has scanned the text, the cuts behind it are those that are kept.
LEMMA KeptAreSeen ==
  ASSUME NEW chars \in Seq(Char), NEW s \in Scanner(chars), Scanned(chars, s),
         FindsCuts(chars, s), FindsLines(chars, s)
  PROVE  KeptCuts(chars) = Before(LineCuts(chars), s.next)
<1> DEFINE lines == LineCuts(chars)
           seen == Before(lines, s.next)
<1>0. /\ lines \in SUBSET Nat /\ IsFiniteSet(lines) /\ s.next \in Nat
      /\ MaxConsoleLines \in Nat /\ Len(chars) \in Nat
      /\ \A p \in Nat : Cardinality(Before(lines, p)) \in Nat
      /\ \A p \in lines : p <= Len(chars)
  <2>1. lines \in SUBSET Nat /\ IsFiniteSet(lines)
    BY PositionSets
  <2>2. \A p \in Nat : Cardinality(Before(lines, p)) \in Nat
    BY <2>1, BeforeIsFinite
  <2>3. /\ s.next \in Nat /\ MaxConsoleLines \in Nat /\ Len(chars) \in Nat
        /\ \A p \in lines : p <= Len(chars)
    BY CommandLineAssumption DEF Scanner, LineCuts, Cuts
  <2> QED
    BY <2>1, <2>2, <2>3
<1>1. ASSUME NEW p \in lines, p < s.next
      PROVE  Cardinality(Before(lines, p)) < MaxConsoleLines
  <2>1. Cardinality(Before(lines, p)) < Cardinality(seen)
    BY <1>0, <1>1, BeforeGrows
  <2>2. Cardinality(seen) <= MaxConsoleLines
    BY DEF FindsLines
  <2>3. p \in Nat /\ Cardinality(Before(lines, p)) \in Nat /\ Cardinality(seen) \in Nat
    BY <1>0
  <2> QED
    BY <1>0, <2>1, <2>2, <2>3
<1>2. ASSUME NEW p \in lines, ~(p < s.next)
      PROVE  ~(Cardinality(Before(lines, p)) < MaxConsoleLines)
  <2>1. p \in Nat /\ p <= Len(chars)
    BY <1>0
  <2>2. s.full /\ Cardinality(seen) = MaxConsoleLines
    <3>1. s.full \/ s.next > Len(chars)
      BY DEF Scanned
    <3>2. s.full
      BY <1>0, <1>2, <2>1, <3>1
    <3> QED
      BY <3>2 DEF FindsCuts, FindsLines
  <2>3. seen \in SUBSET Before(lines, p)
    <3>0. s.next \in Nat /\ p \in Nat /\ ~(p < s.next)
      BY <1>0, <1>2, <2>1
    <3>1. \A x \in Nat : x < s.next => x < p
      BY <3>0
    <3> QED
      BY <1>0, <3>1 DEF Before
  <2>4. Cardinality(seen) <= Cardinality(Before(lines, p))
    BY <1>0, <2>3, BeforeIsFinite, FS_Subset
  <2> QED
    BY <1>0, <2>1, <2>2, <2>4
<1> QED
  BY <1>1, <1>2 DEF KeptCuts, Before

\* The i-th line begins behind the i-th kept cut.
LEMMA CutOfLine ==
  ASSUME NEW chars \in Seq(Char), NEW s \in Scanner(chars), Scanned(chars, s),
         FindsCuts(chars, s), FindsLines(chars, s), NEW i \in DOMAIN s.begins
  PROVE  (CHOOSE p \in KeptCuts(chars) : Cardinality(Before(KeptCuts(chars), p)) = i - 1)
            = s.begins[i] - 1
<1> DEFINE kept == KeptCuts(chars)
           c == s.begins[i] - 1
<1>1. /\ kept = Before(LineCuts(chars), s.next)
      /\ kept \in SUBSET Nat /\ IsFiniteSet(kept) /\ s.next \in Nat
  <2>1. kept = Before(LineCuts(chars), s.next)
    BY KeptAreSeen
  <2>2. s.next \in Nat
    BY DEF Scanner
  <2>3. LineCuts(chars) \in SUBSET Nat /\ IsFiniteSet(LineCuts(chars))
    BY PositionSets
  <2>4. kept \in SUBSET LineCuts(chars)
    BY <2>1 DEF Before
  <2> QED
    BY <2>1, <2>2, <2>3, <2>4, BeforeIsFinite
<1>2. c \in kept /\ Cardinality(Before(LineCuts(chars), c)) = i - 1
  BY <1>1 DEF FindsLines
<1>3. Before(kept, c) = Before(LineCuts(chars), c)
  <2>1. c \in Nat /\ c < s.next
    BY <1>1, <1>2 DEF Before
  <2>2. \A x \in LineCuts(chars) : x < c => x < s.next
    BY <1>1, <2>1, PositionSets
  <2> QED
    BY <1>1, <2>2 DEF Before
<1>4. ASSUME NEW p \in kept, Cardinality(Before(kept, p)) = i - 1
      PROVE  p = c
  <2>1. p \in Nat /\ c \in Nat /\ Cardinality(Before(kept, c)) = i - 1
    BY <1>1, <1>2, <1>3
  <2>2. i - 1 \in Nat
    BY <1>1, <2>1, BeforeIsFinite
  <2>3. ~(p < c)
    <3> HIDE DEF c, kept
    <3> QED
      BY <1>1, <1>4, <2>1, <2>2, BeforeGrows
  <2>4. ~(c < p)
    <3> HIDE DEF c, kept
    <3> QED
      BY <1>1, <1>2, <1>4, <2>1, <2>2, BeforeGrows
  <2> QED
    BY <2>1, <2>3, <2>4
<1>5. Cardinality(Before(kept, c)) = i - 1
  BY <1>2, <1>3
<1> HIDE DEF c, kept
<1>6. (CHOOSE p \in kept : Cardinality(Before(kept, p)) = i - 1) = c
  BY <1>2, <1>4, <1>5
<1> QED
  BY <1>6 DEF c, kept

\* A line ends where the reference ends it.
LEMMA EndOfLine ==
  ASSUME NEW chars \in Seq(Char), NEW s \in Scanner(chars), Scanned(chars, s),
         FindsCuts(chars, s), FindsLines(chars, s), NEW i \in DOMAIN s.begins
  PROVE  SubSeq(chars, s.begins[i],
                Min({z \in s.zeroed \cup {Len(chars) + 1} : z > s.begins[i]}) - 1)
            = LineAfter(chars, s.begins[i] - 1)
<1> DEFINE b == s.begins[i]
           c == b - 1
           zeros == {z \in s.zeroed \cup {Len(chars) + 1} : z > b}
           ends == {q \in Cuts(chars) \cup {Len(chars) + 1} : q > c}
<1>1. /\ s.begins \in Seq(1 .. Len(chars)) /\ i \in 1 .. Len(s.begins) /\ Len(s.begins) \in Nat
      /\ b \in 1 .. Len(chars) /\ Len(chars) \in Nat /\ s.next \in Nat
      /\ Cuts(chars) \in SUBSET Nat /\ MaxConsoleLines \in Nat
      /\ s.next <= Len(chars) + 1
  BY PositionSets, CommandLineAssumption DEF Scanner
<1>2. /\ c \in LineCuts(chars) /\ c < s.next
      /\ Cardinality(Before(LineCuts(chars), c)) = i - 1
  BY DEF FindsLines, Before
<1>3. s.zeroed = {q \in Cuts(chars) : q < s.next}
  BY DEF FindsCuts, Before
<1>4. Len(s.begins) <= MaxConsoleLines
  BY DEF FindsLines
<1>5. CASE i = MaxConsoleLines
  <2>1. zeros = {Len(chars) + 1}
    <3>1. \A z \in s.zeroed : z < b
      BY <1>1, <1>4, <1>5 DEF FindsLines
    <3>2. \A z \in s.zeroed : ~(z > b)
      BY <1>1, <1>3, <3>1
    <3> QED
      BY <1>1, <3>2
  <2>2. Min(zeros) = Len(chars) + 1
    BY <1>1, <2>1 DEF Min
  <2>3. LineAfter(chars, c) = SubSeq(chars, c + 1, Len(chars))
    BY <1>2, <1>5 DEF LineAfter
  <2>4. c + 1 = b /\ (Len(chars) + 1) - 1 = Len(chars)
    BY <1>1
  <2>5. SubSeq(chars, b, Min(zeros) - 1) = LineAfter(chars, c)
    BY <2>2, <2>3, <2>4
  <2> QED
    BY <2>5
<1>6. CASE i # MaxConsoleLines
  <2>1. c + 1 \notin Cuts(chars) /\ c + 1 = b
    BY <1>1, <1>2 DEF LineCuts
  <2>2. \A q \in Cuts(chars) \cup {Len(chars) + 1} : q > c <=> q > b
    BY <1>1, <2>1
  <2>3. zeros \in SUBSET ends /\ ends \in SUBSET Nat /\ ends # {}
    <3>1. s.zeroed \in SUBSET Cuts(chars)
      BY <1>3
    <3>2. Len(chars) + 1 \in ends /\ ends \in SUBSET Nat
      BY <1>1, <2>2
    <3>3. zeros \in SUBSET ends
      BY <2>2, <3>1
    <3> QED
      BY <3>2, <3>3
  <2>4. ASSUME NEW q \in ends
        PROVE  q \in zeros \/ \E z \in zeros : z <= q
    <3>1. CASE q < s.next \/ q = Len(chars) + 1
      BY <1>1, <1>3, <2>2, <3>1
    <3>2. CASE ~(q < s.next) /\ q # Len(chars) + 1
      <4>1. s.full
        BY <1>1, <3>2, <2>4 DEF Scanned, Cuts
      <4>2. i + 1 \in DOMAIN s.begins
        BY <1>1, <1>4, <1>6, <4>1 DEF FindsCuts
      <4> DEFINE d == s.begins[i + 1] - 1
      <4>3. /\ d \in LineCuts(chars) /\ d < s.next
            /\ Cardinality(Before(LineCuts(chars), d)) = (i + 1) - 1
        BY <4>2 DEF FindsLines, Before
      <4>4. d > c
        <5>1. d # c /\ d \in Nat /\ c \in Nat
          BY <1>1, <1>2, <4>3, PositionSets
        <5>2. ~(d < c)
          <6> SUFFICES ASSUME d < c
                       PROVE  FALSE
            OBVIOUS
          <6>1. Cardinality(Before(LineCuts(chars), d)) < Cardinality(Before(LineCuts(chars), c))
            BY <4>3, <5>1, BeforeGrows, PositionSets
          <6> QED
            BY <1>1, <1>2, <4>3, <6>1
        <5> QED
          BY <5>1, <5>2
      <4>5. d \in zeros
        BY <1>1, <1>3, <2>2, <4>3, <4>4, PositionSets
      <4>6. d <= q
        <5>1. q \in Nat /\ d \in Nat
          BY <2>3, <4>3, PositionSets
        <5> QED
          BY <1>1, <3>2, <4>3, <5>1
      <4> QED
        BY <4>5, <4>6
    <3> QED
      BY <3>1, <3>2
  <2>5. Min(zeros) = Min(ends)
    <3> HIDE DEF zeros, ends
    <3> QED
      BY <2>3, <2>4, MinOfPart
  <2>6. LineAfter(chars, c) = SubSeq(chars, c + 1, Min(ends) - 1)
    <3>1. Cardinality(Before(LineCuts(chars), c)) # MaxConsoleLines - 1
      BY <1>1, <1>2, <1>6
    <3> QED
      BY <3>1 DEF LineAfter
  <2>7. SubSeq(chars, b, Min(zeros) - 1) = LineAfter(chars, c)
    BY <2>1, <2>5, <2>6
  <2> QED
    BY <2>7
<1> QED
  BY <1>5, <1>6

LEMMA LinesAreFound ==
  ASSUME NEW chars \in Seq(Char), NEW s \in Scanner(chars), Scanned(chars, s),
         FindsCuts(chars, s), FindsLines(chars, s)
  PROVE  com_consoleLines(chars, s) = LinesOf(chars)
<1>1. DOMAIN s.begins = 1 .. Cardinality(KeptCuts(chars))
  <2>1. Len(s.begins) = Cardinality(KeptCuts(chars))
    BY KeptAreSeen DEF FindsLines
  <2>2. DOMAIN s.begins = 1 .. Len(s.begins)
    BY DEF Scanner
  <2> QED
    BY <2>1, <2>2
<1>2. ASSUME NEW i \in DOMAIN s.begins
      PROVE  com_consoleLines(chars, s)[i] = LinesOf(chars)[i]
  <2>1. com_consoleLines(chars, s)[i] = LineAfter(chars, s.begins[i] - 1)
    BY EndOfLine DEF com_consoleLines
  <2>2. LinesOf(chars)[i] = LineAfter(chars, s.begins[i] - 1)
    BY <1>1, CutOfLine DEF LinesOf
  <2> QED
    BY <2>1, <2>2
<1> QED
  BY <1>1, <1>2 DEF com_consoleLines, LinesOf

\* Quotes are taken off that stand around the whole text.
LEMMA OuterQuotes ==
  ASSUME NEW chars \in Seq(Char), ~TwoQuotedParts(chars)
  PROVE  StripOuterQuotes(chars) = Unquoted(chars)
<1>1. chars # <<>> => Head(chars) = chars[1] /\ Last(chars) = chars[Len(chars)]
  BY DEF Last
<1>2. CASE chars = <<>>
  BY <1>2 DEF StripOuterQuotes, Unquoted
<1>3. CASE chars # <<>> /\ IsQuotedWhole(chars)
  <2>1. chars[1] = "quote" /\ chars[Len(chars)] = "quote"
    BY <1>3, PositionSets DEF IsQuotedWhole
  <2> QED
    BY <1>1, <1>3, <2>1 DEF StripOuterQuotes, Unquoted
<1>4. CASE chars # <<>> /\ ~IsQuotedWhole(chars)
  BY <1>1, <1>4 DEF StripOuterQuotes, Unquoted, TwoQuotedParts
<1> QED
  BY <1>2, <1>3, <1>4

LEMMA StartIsScanner ==
  ASSUME NEW chars \in Seq(Char)
  PROVE  ScannerStart \in Scanner(chars)
<1>1. 1 \in 1 .. Len(chars) + 1 /\ <<>> \in Seq(1 .. Len(chars))
  OBVIOUS
<1> QED
  BY <1>1 DEF ScannerStart, Scanner

LEMMA StartFinds ==
  ASSUME NEW chars \in Seq(Char)
  PROVE  /\ FindsQuotes(chars, ScannerStart) /\ FindsCuts(chars, ScannerStart)
         /\ FindsLines(chars, ScannerStart)
<1>1. /\ Quotes(chars) \in SUBSET (Nat \ {0}) /\ Cuts(chars) \in SUBSET (Nat \ {0})
      /\ LineCuts(chars) \in SUBSET (Nat \ {0})
  <2>1. Quotes(chars) \in SUBSET DOMAIN chars
    BY PositionSets
  <2>2. Cuts(chars) \in SUBSET DOMAIN chars /\ LineCuts(chars) \in SUBSET DOMAIN chars
    BY DEF Cuts, LineCuts
  <2> QED
    BY <2>1, <2>2, QuotePositions
<1>2. FindsQuotes(chars, ScannerStart)
  <2>1. ~Inside(Quotes(chars), 1)
    BY <1>1, BeforeFirst DEF Inside
  <2>2. CharAt(chars, 1 - 1) = "end"
    BY DEF CharAt
  <2>3. 1 \in QuoteAt(chars) => 1 \in Quotes(chars)
    BY <2>2, QuotesAreRight DEF RightAt
  <2> QED
    BY <2>1, <2>3 DEF FindsQuotes, ScannerStart
<1>3. FindsCuts(chars, ScannerStart)
  BY <1>1, BeforeFirst DEF FindsCuts, ScannerStart
<1>4. FindsLines(chars, ScannerStart)
  <2>1. Len(ScannerStart.begins) = 0 /\ DOMAIN ScannerStart.begins = {}
    BY DEF ScannerStart
  <2>2. Cardinality(Before(LineCuts(chars), ScannerStart.next)) = 0
    BY <1>1, BeforeFirst DEF ScannerStart
  <2> QED
    BY <2>1, <2>2, CommandLineAssumption DEF FindsLines
<1> QED
  BY <1>2, <1>3, <1>4

-----------------------------------------------------------------------------
(* Types.                                                                  *)

LEMMA DvarSetTypes ==
  ASSUME NEW D, NEW d \in [value : D, modified : BOOLEAN], NEW v \in D
  PROVE  DvarSet(d, v) \in [value : D, modified : BOOLEAN]
BY DEF DvarSet

LEMMA TextTypes ==
  ASSUME NEW chars \in Seq(Char)
  PROVE  StripOuterQuotes(chars) \in Seq(Char)
<1>1. SubSeq(chars, 2, Len(chars) - 1) \in Seq(Char)
  OBVIOUS
<1> QED
  BY <1>1 DEF StripOuterQuotes

LEMMA InitTypes == Init => TypeOK
<1> SUFFICES ASSUME Init
             PROVE  TypeOK
  OBVIOUS
<1>1. commandLine \in Seq(Char) /\ scanner \in Scanner(text)
  <2>1. commandLine \in Seq(Char)
    BY DEF Init
  <2> QED
    BY <2>1, TextTypes, StartIsScanner DEF Init, text
<1>2. 0 \in 0 .. Protocol /\ com_maxfps \in 0 .. OriginalMaxFps
  BY ClientAssumption DEF Init
<1>3. NoServer \in Server
  BY <1>2 DEF NoServer, Server
<1> QED
  BY <1>1, <1>2, <1>3 DEF Init, TypeOK, ClientState, DISCONNECTED

\* What a step leaves alone keeps its type.
LEMMA UnchangedTypes ==
  ASSUME TypeOK, UNCHANGED vars
  PROVE  TypeOK'
BY DEF TypeOK, text, vars, start, connection, fps, game

LEMMA StartTypes ==
  ASSUME TypeOK, ParseCommandLine \/ ParseNext \/ Parsed \/ FirstFrame
  PROVE  TypeOK'
<1>0. text \in Seq(Char)
  BY TextTypes DEF TypeOK, text
<1>1. CASE ParseCommandLine
  <2>1. scanner' \in Scanner(text')
    BY <1>0, <1>1, StartIsScanner DEF ParseCommandLine, text
  <2> QED
    BY <1>1, <2>1 DEF ParseCommandLine, TypeOK, connection, fps, game
<1>2. CASE ParseNext
  <2>1. scanner' \in Scanner(text')
    <3>1. Scan(text, scanner) \in Scanner(text)
      BY <1>0, <1>2, StepIsScanner DEF ParseNext, TypeOK
    <3> QED
      BY <1>2, <3>1 DEF ParseNext, text
  <2> QED
    BY <1>2, <2>1 DEF ParseNext, TypeOK, connection, fps, game
<1>3. CASE Parsed
  BY <1>3 DEF Parsed, TypeOK, text, start, connection, fps, game
<1>4. CASE FirstFrame
  <2>1. commandLine' \in Seq(Char) /\ scanner' \in Scanner(text')
    <3>1. commandLine' \in Seq(Char)
      BY <1>4 DEF FirstFrame
    <3>2. text' \in Seq(Char)
      BY <3>1, TextTypes DEF text
    <3> QED
      BY <1>4, <3>1, <3>2, StartIsScanner DEF FirstFrame
  <2> QED
    BY <1>4, <2>1 DEF FirstFrame, TypeOK, connection, fps, game
<1> QED
  BY <1>1, <1>2, <1>3, <1>4

LEMMA FpsTypes ==
  ASSUME TypeOK, FpsFrame_Demo \/ FpsFrame
  PROVE  TypeOK'
<1>1. CASE FpsFrame_Demo
  BY <1>1 DEF FpsFrame_Demo, TypeOK, text, start, connection, game
<1>2. CASE FpsFrame
  <2>1. com_maxfps_limit' \in [value : BOOLEAN, modified : BOOLEAN]
    <3>1. [com_maxfps_limit EXCEPT !.modified = FALSE] \in [value : BOOLEAN, modified : BOOLEAN]
      BY DEF TypeOK, text
    <3> QED
      BY <1>2, <3>1, DvarSetTypes DEF FpsFrame, AfterDisconnect
  <2>2. com_maxfps' \in 0 .. OriginalMaxFps /\ limits' \in {Original, Restricted}
        /\ swallowed' \in BOOLEAN
    <3>1. CASE com_maxfps_limit.modified
      <4>1. ApplyLimit
        BY <1>2 DEF FpsFrame
      <4>2. MaxFps \in 0 .. OriginalMaxFps
        BY ClientAssumption
      <4> QED
        BY <3>1, <4>1, <4>2 DEF ApplyLimit, TypeOK, text
    <3>2. CASE ~com_maxfps_limit.modified
      BY <1>2, <3>2 DEF FpsFrame, ApplyLimit, TypeOK, text
    <3> QED
      BY <3>1, <3>2
  <2> QED
    BY <1>2, <2>1, <2>2 DEF FpsFrame, TypeOK, text, start, connection, game
<1> QED
  BY <1>1, <1>2

LEMMA GameTypes ==
  ASSUME TypeOK, GameFrame
  PROVE  TypeOK'
<1>1. VersionSeen \in [value : 0 .. Protocol, modified : BOOLEAN]
  <2>1. 0 \in 0 .. Protocol
    BY ClientAssumption
  <2>2. [value |-> 0, modified |-> TRUE] \in [value : 0 .. Protocol, modified : BOOLEAN]
    BY <2>1
  <2>3. VersionSeen \in {[value |-> 0, modified |-> TRUE], g_cod2x}
    BY DEF VersionSeen
  <2> QED
    BY <2>2, <2>3 DEF TypeOK, text
<1>2. g_cod2x' \in [value : 0 .. Protocol, modified : BOOLEAN]
  BY <1>1 DEF GameFrame
<1>3. clipFix' \in BOOLEAN /\ sv_cheats' \in BOOLEAN
  <2>1. (VersionSeen.value >= 1) \in BOOLEAN
    BY <1>1
  <2> QED
    BY <2>1, Zenon DEF GameFrame, TypeOK, text
<1> QED
  BY <1>2, <1>3 DEF GameFrame, TypeOK, text, start, connection, fps

LEMMA MoveTypes ==
  ASSUME NEW state \in ClientState, NEW to \in Server, NEW demo \in BOOLEAN,
         Move(state, to, demo)
  PROVE  /\ clientState' \in ClientState /\ server' \in Server /\ demo_isPlaying' \in BOOLEAN
         /\ asked' = FALSE /\ told' = FALSE
BY DEF Move

\* What every event of the game moves, and what it may change besides.
ConnectionEvent ==
    \/ Disconnect \/ CL_Connect_f \/ CL_PlayDemo_f \/ SV_SpawnServer
    \/ Accepted \/ LoadingNewMap \/ GameState \/ Loaded

LEMMA ServersExist == OwnServer \in Server /\ NoServer \in Server
BY ClientAssumption DEF OwnServer, NoServer, Server

LEMMA EventMoves ==
  ASSUME TypeOK, ConnectionEvent
  PROVE  /\ clientState' \in ClientState /\ server' \in Server /\ demo_isPlaying' \in BOOLEAN
         /\ asked' \in BOOLEAN /\ told' = FALSE
         /\ com_sv_running' \in BOOLEAN /\ sv_cheats' \in BOOLEAN /\ clipFix' \in BOOLEAN
         /\ phase = "events"
         /\ UNCHANGED <<phase, start, fps, g_cod2x, game_clientStateLast>>
<1> USE DEF Event, start, game
<1> DISCONNECTED \in ClientState /\ CHALLENGING \in ClientState /\ CONNECTED \in ClientState
    /\ LOADING \in ClientState /\ PRIMED \in ClientState
  BY DEF ClientState
<1>1. CASE Disconnect
  BY <1>1, ServersExist, MoveTypes DEF Disconnect, TypeOK, text
<1>2. CASE CL_Connect_f
  BY <1>2, ServersExist, MoveTypes DEF CL_Connect_f, TypeOK, text
<1>3. CASE CL_PlayDemo_f
  BY <1>3, ServersExist, MoveTypes DEF CL_PlayDemo_f, TypeOK, text
<1>4. CASE SV_SpawnServer
  BY <1>4, ServersExist, MoveTypes DEF SV_SpawnServer, TypeOK, text
<1>5. CASE Accepted
  BY <1>5, ServersExist, MoveTypes DEF Accepted, TypeOK, text
<1>6. CASE LoadingNewMap
  BY <1>6, ServersExist, MoveTypes DEF LoadingNewMap, TypeOK, text
<1>7. CASE GameState
  BY <1>7, ServersExist, MoveTypes DEF GameState, TypeOK, text
<1>8. CASE Loaded
  BY <1>8, ServersExist, MoveTypes DEF Loaded, TypeOK, text
<1> QED
  BY <1>1, <1>2, <1>3, <1>4, <1>5, <1>6, <1>7, <1>8 DEF ConnectionEvent

LEMMA EventTypes ==
  ASSUME TypeOK, ConnectionEvent \/ SetMaxFps \/ EndEvents
  PROVE  TypeOK'
<1>1. CASE ConnectionEvent
  BY <1>1, EventMoves DEF TypeOK, text, start, fps
<1>2. CASE SetMaxFps
  BY <1>2, ClientAssumption DEF SetMaxFps, Event, TypeOK, text, start, connection, game
<1>3. CASE EndEvents
  BY <1>3 DEF EndEvents, TypeOK, text, start, connection, fps, game
<1> QED
  BY <1>1, <1>2, <1>3

LEMMA DrawTypes ==
  ASSUME TypeOK, \/ FirstSnapshot \/ DemoCompleted \/ ServerCommand \/ SetClientVersion
                 \/ SetClientLimit \/ EndFrame
  PROVE  TypeOK'
<1>1. CASE FirstSnapshot
  BY <1>1 DEF FirstSnapshot, TypeOK, text, start, fps, game, ClientState
<1>2. CASE DemoCompleted
  <2>1. DISCONNECTED \in ClientState /\ Move(DISCONNECTED, NoServer, FALSE)
    BY <1>2 DEF DemoCompleted, ClientState
  <2>2. /\ clientState' \in ClientState /\ server' \in Server /\ demo_isPlaying' \in BOOLEAN
        /\ asked' = FALSE /\ told' = FALSE
    BY <2>1, ServersExist, MoveTypes
  <2> QED
    BY <1>2, <2>2 DEF DemoCompleted, TypeOK, text, start, fps, game
<1>3. CASE ServerCommand
  BY <1>3 DEF ServerCommand, TypeOK, text, start, connection, fps, game
<1>4. CASE SetClientVersion
  <2>1. PICK v \in 0 .. Protocol : g_cod2x' = DvarSet(g_cod2x, v)
    BY <1>4 DEF SetClientVersion
  <2>2. g_cod2x' \in [value : 0 .. Protocol, modified : BOOLEAN]
    BY <2>1, DvarSetTypes DEF TypeOK, text
  <2>3. told' \in BOOLEAN
    BY <1>4 DEF SetClientVersion, TypeOK, text
  <2> QED
    BY <1>4, <2>2, <2>3 DEF SetClientVersion, TypeOK, text, start, fps
<1>5. CASE SetClientLimit
  <2>1. com_maxfps_limit' \in [value : BOOLEAN, modified : BOOLEAN]
    BY <1>5, DvarSetTypes DEF SetClientLimit, TypeOK, text
  <2> QED
    BY <1>5, <2>1 DEF SetClientLimit, TypeOK, text, start, connection, game
<1>6. CASE EndFrame
  <2>1. asked' \in BOOLEAN
    BY <1>6 DEF EndFrame
  <2> QED
    BY <1>6, <2>1 DEF EndFrame, TypeOK, text, start, fps, game
<1> QED
  BY <1>1, <1>2, <1>3, <1>4, <1>5, <1>6

\* The actions, grouped as above.
LEMMA NextCases ==
  ASSUME Next
  PROVE  \/ ParseCommandLine \/ ParseNext \/ Parsed \/ FirstFrame
         \/ FpsFrame_Demo \/ FpsFrame
         \/ GameFrame
         \/ ConnectionEvent \/ SetMaxFps \/ EndEvents
         \/ FirstSnapshot \/ DemoCompleted \/ ServerCommand \/ SetClientVersion
         \/ SetClientLimit \/ EndFrame
BY DEF Next, Frame, ConnectionEvent

LEMMA NextTypes == TypeOK /\ [Next]_vars => TypeOK'
BY NextCases, UnchangedTypes, StartTypes, FpsTypes, GameTypes, EventTypes, DrawTypes

\* The state of the client is well formed in every frame, for any versions of
\* servers and any limits.
THEOREM ClientTypeCorrect == Spec => []TypeOK
BY InitTypes, NextTypes, PTL DEF Spec

-----------------------------------------------------------------------------
(* The frame rate limit.                                                   *)

LEMMA LimitFrame ==
  ASSUME TypeOK, LimitInForce, FpsFrame
  PROVE  LimitInForce'
<1>1. CASE com_maxfps_limit.modified
  <2>1. ApplyLimit /\ com_maxfps_limit' = AfterDisconnect
    BY DEF FpsFrame
  <2>2. com_maxfps_limit'.value => com_maxfps_limit.value
    BY <2>1 DEF AfterDisconnect, DvarSet, TypeOK
  <2>3. com_maxfps_limit.value => limits' = Restricted /\ com_maxfps' \in MinFps .. MaxFps
    BY <1>1, <2>1, ClientAssumption DEF ApplyLimit
  <2> QED
    BY <2>2, <2>3 DEF LimitInForce
<1>2. CASE ~com_maxfps_limit.modified
  <2>1. UNCHANGED <<limits, com_maxfps>> /\ com_maxfps_limit' = AfterDisconnect
    BY <1>2 DEF FpsFrame, ApplyLimit
  <2>2. com_maxfps_limit'.value => com_maxfps_limit.value
    BY <2>1 DEF AfterDisconnect, DvarSet, TypeOK
  <2>3. com_maxfps_limit.value => com_maxfps_limit = [value |-> TRUE, modified |-> FALSE]
    BY <1>2 DEF TypeOK
  <2> QED
    BY <2>1, <2>2, <2>3 DEF LimitInForce
<1> QED
  BY <1>1, <1>2

LEMMA NextLimit == TypeOK /\ LimitInForce /\ [Next]_vars => LimitInForce'
<1> SUFFICES ASSUME TypeOK, LimitInForce, [Next]_vars
             PROVE  LimitInForce'
  OBVIOUS
<1>1. CASE UNCHANGED fps
  BY <1>1 DEF fps, LimitInForce
<1>2. CASE FpsFrame_Demo
  BY <1>2 DEF FpsFrame_Demo, LimitInForce
<1>3. CASE FpsFrame
  BY <1>3, LimitFrame
<1>4. CASE SetMaxFps
  BY <1>4, ClientAssumption DEF SetMaxFps, LimitInForce, Restricted
<1>5. CASE SetClientLimit
  <2>1. PICK on \in BOOLEAN : com_maxfps_limit' = DvarSet(com_maxfps_limit, on)
    BY <1>5 DEF SetClientLimit
  <2>2. com_maxfps_limit' = [value |-> TRUE, modified |-> FALSE] => com_maxfps_limit' = com_maxfps_limit
    BY <2>1 DEF DvarSet, TypeOK
  <2> QED
    BY <1>5, <2>2 DEF SetClientLimit, LimitInForce
<1>6. UNCHANGED fps \/ FpsFrame_Demo \/ FpsFrame \/ SetMaxFps \/ SetClientLimit
  <2>1. UNCHANGED vars => UNCHANGED fps
    BY DEF vars
  <2>2. \/ ParseCommandLine \/ ParseNext \/ Parsed \/ FirstFrame \/ GameFrame \/ EndEvents
        => UNCHANGED fps
    BY DEF ParseCommandLine, ParseNext, Parsed, FirstFrame, GameFrame, EndEvents
  <2>3. ConnectionEvent => UNCHANGED fps
    BY EventMoves
  <2>4. \/ FirstSnapshot \/ DemoCompleted \/ ServerCommand \/ SetClientVersion \/ EndFrame
        => UNCHANGED fps
    BY DEF FirstSnapshot, DemoCompleted, ServerCommand, SetClientVersion, EndFrame
  <2> QED
    BY <2>1, <2>2, <2>3, <2>4, NextCases
<1> QED
  BY <1>1, <1>2, <1>3, <1>4, <1>5, <1>6

\* Whatever limits the build sets and whatever values a player tries, once the
\* limit is noticed he is inside of it.
THEOREM LimitHolds == Spec => []LimitInForce
<1>1. Init => TypeOK /\ LimitInForce
  BY InitTypes DEF Init, LimitInForce
<1>2. TypeOK /\ LimitInForce /\ [Next]_vars => (TypeOK /\ LimitInForce)'
  BY NextTypes, NextLimit
<1> QED
  BY <1>1, <1>2, PTL DEF Spec

-----------------------------------------------------------------------------
(* The rules of the server.                                                *)

\* Types and the order of the states, as the steps below use them.
LEMMA ServerFacts ==
  /\ Protocol \in Nat /\ Protocol > 0
  /\ OwnServer.version > 0 /\ NoServer.version = 0 /\ NoServer # OwnServer
BY ClientAssumption DEF OwnServer, NoServer

LEMMA InitVersion == Init => VersionInv
BY DEF Init, VersionInv, VersionIsCurrent, WaitingWasSeen, PlayingWasSeen, DemoIsNoServer,
       OnlyPlayersAreTold, OnLegacyServer, LegacyHasNoVersion, LegacyIsUnpatched, ToldPlays,
       VersionIsPatched, ChangesAreNoticed, DISCONNECTED, CONNECTED, LOADING, ACTIVE

\* Steps that only move the main thread on, or change the frame rate limit.
LEMMA QuietVersion ==
  ASSUME TypeOK, VersionInv, UNCHANGED <<connection, game>>,
         \/ phase' = phase
         \/ phase \in {"init", "parse", "events"} /\ phase' \in {"parse", "started", "draw"}
         \/ phase \in {"started", "fps"} /\ phase' \in {"fps", "game"}
         \/ phase' = "command" /\ clientState = ACTIVE
  PROVE  VersionInv'
<1> USE DEF connection, game, VersionInv
<1>1. VersionIsCurrent'
  BY DEF VersionIsCurrent, OnlyPlayersAreTold, DISCONNECTED, CONNECTED, ACTIVE
<1>2. WaitingWasSeen' /\ PlayingWasSeen' /\ ChangesAreNoticed'
  BY DEF WaitingWasSeen, PlayingWasSeen, ChangesAreNoticed
<1>3. DemoIsNoServer' /\ OnlyPlayersAreTold'
  BY DEF DemoIsNoServer, OnlyPlayersAreTold
<1>4. LegacyHasNoVersion' /\ LegacyIsUnpatched'
  BY DEF LegacyHasNoVersion, LegacyIsUnpatched, OnLegacyServer
<1>5. ToldPlays' /\ VersionIsPatched'
  BY DEF ToldPlays, VersionIsPatched
<1> QED
  BY <1>1, <1>2, <1>3, <1>4, <1>5

\* game_frame: what it sees, it patches in or out.
LEMMA GameVersion ==
  ASSUME TypeOK, VersionInv, GameFrame
  PROVE  VersionInv'
<1> USE DEF VersionInv
<1>1. /\ phase = "game" /\ phase' = "events"
      /\ UNCHANGED <<clientState, server, demo_isPlaying, asked, told>>
      /\ game_clientStateLast' = clientState
  BY DEF GameFrame, connection
<1>2. /\ g_cod2x'.value = VersionSeen.value /\ g_cod2x'.modified = FALSE
      /\ clipFix' = IF VersionSeen.modified THEN VersionSeen.value >= 1 ELSE clipFix
  <2>1. VersionSeen \in {[value |-> 0, modified |-> TRUE], g_cod2x}
    BY DEF VersionSeen
  <2> QED
    BY <2>1 DEF GameFrame, TypeOK
<1>3. VersionIsCurrent'
  BY <1>1, <1>2 DEF VersionSeen, StateChanged, VersionIsCurrent, TypeOK, ClientState, CONNECTED, ACTIVE
<1>4. WaitingWasSeen' /\ PlayingWasSeen' /\ DemoIsNoServer' /\ OnlyPlayersAreTold' /\ ChangesAreNoticed'
  BY <1>1, <1>2 DEF WaitingWasSeen, PlayingWasSeen, DemoIsNoServer, OnlyPlayersAreTold, ChangesAreNoticed
<1>5. LegacyHasNoVersion'
  BY <1>1, <1>2 DEF LegacyHasNoVersion, OnLegacyServer, VersionSeen
<1>6. LegacyIsUnpatched'
  <2> SUFFICES ASSUME OnLegacyServer, clientState = ACTIVE
               PROVE  ~clipFix'
    BY <1>1 DEF LegacyIsUnpatched, OnLegacyServer
  <2>1. g_cod2x.value = 0
    BY DEF LegacyHasNoVersion
  <2>2. CASE game_clientStateLast = ACTIVE
    <3>1. VersionSeen = g_cod2x
      BY <2>1, <2>2 DEF VersionSeen, StateChanged
    <3>2. ~(VersionSeen.value >= 1)
      BY <2>1, <3>1
    <3>3. ~clipFix
      BY <2>2 DEF LegacyIsUnpatched
    <3> QED
      BY <1>2, <3>2, <3>3, Zenon
  <2>3. CASE game_clientStateLast # ACTIVE
    <3>1. VersionSeen = [value |-> 0, modified |-> TRUE]
      BY <2>1, <2>3 DEF VersionSeen, StateChanged, TypeOK, ClientState, DISCONNECTED, CHALLENGING,
                        CONNECTED, LOADING, PRIMED, ACTIVE
    <3>2. ~(VersionSeen.value >= 1) /\ VersionSeen.modified
      BY <3>1
    <3> QED
      BY <1>2, <3>2, Zenon
  <2> QED
    BY <2>2, <2>3
<1>7. ToldPlays'
  BY <1>1, <1>2 DEF ToldPlays, VersionSeen, ACTIVE, CONNECTED
<1>8. VersionIsPatched'
  <2> SUFFICES ASSUME VersionSeen.value > 0
               PROVE  clipFix'
    BY <1>2 DEF VersionIsPatched
  <2>1. VersionSeen = g_cod2x
    BY DEF VersionSeen
  <2>2. VersionSeen.value >= 1
    BY <2>1 DEF TypeOK
  <2>3. ~VersionSeen.modified => clipFix
    BY <2>1 DEF VersionIsPatched
  <2> QED
    BY <1>2, <2>2, <2>3, Zenon
<1> QED
  BY <1>3, <1>4, <1>5, <1>6, <1>7, <1>8

\* An event of the game never makes the client play, and only a client that was
\* seen waiting comes near a server.
LEMMA EventArrives ==
  ASSUME TypeOK, VersionInv, ConnectionEvent
  PROVE  /\ clientState' # ACTIVE
         /\ ~(asked' /\ clientState' = CONNECTED)
         /\ demo_isPlaying' => clientState' = PRIMED /\ server' = NoServer
         /\ clientState' >= LOADING /\ ~demo_isPlaying' =>
               /\ server' = server /\ clipFix' = clipFix
               /\ \/ clientState >= LOADING /\ ~demo_isPlaying
                  \/ game_clientStateLast = CONNECTED
         /\ clipFix' = clipFix \/ clipFix' = TRUE
<1> USE DEF Event, Move, DISCONNECTED, CHALLENGING, CONNECTED, LOADING, PRIMED, ACTIVE
<1>0. /\ demo_isPlaying => clientState \in {PRIMED, ACTIVE} /\ server = NoServer
      /\ phase = "events" /\ asked /\ clientState = CONNECTED => game_clientStateLast = CONNECTED
  BY DEF VersionInv, DemoIsNoServer, WaitingWasSeen
<1>1. CASE Disconnect
  BY <1>1 DEF Disconnect, game
<1>2. CASE CL_Connect_f
  BY <1>2 DEF CL_Connect_f, game
<1>3. CASE CL_PlayDemo_f
  BY <1>3 DEF CL_PlayDemo_f, game
<1>4. CASE SV_SpawnServer
  <2>1. CASE clientState < CONNECTED \/ server # OwnServer
    <3>1. clientState' = CHALLENGING /\ demo_isPlaying' = FALSE /\ clipFix' = TRUE
      BY <1>4, <2>1 DEF SV_SpawnServer
    <3> QED
      BY <3>1
  <2>2. CASE ~(clientState < CONNECTED \/ server # OwnServer)
    <3>1. ~demo_isPlaying
      BY <1>0, <2>2, ServerFacts
    <3> QED
      BY <1>4, <2>2, <3>1 DEF SV_SpawnServer
  <2> QED
    BY <2>1, <2>2
<1>5. CASE Accepted
  BY <1>5 DEF Accepted, game
<1>6. CASE LoadingNewMap
  BY <1>6 DEF LoadingNewMap, game
<1>7. CASE GameState
  BY <1>0, <1>7 DEF GameState
<1>8. CASE Loaded
  BY <1>0, <1>8 DEF Loaded, game
<1> QED
  BY <1>1, <1>2, <1>3, <1>4, <1>5, <1>6, <1>7, <1>8 DEF ConnectionEvent

LEMMA EventVersion ==
  ASSUME TypeOK, VersionInv, ConnectionEvent
  PROVE  VersionInv'
<1> USE DEF VersionInv
<1>1. /\ phase = "events" /\ phase' = "events" /\ told' = FALSE
      /\ UNCHANGED <<g_cod2x, game_clientStateLast>>
  BY EventMoves
<1>2. VersionIsCurrent'
  BY <1>1 DEF VersionIsCurrent
<1>3. WaitingWasSeen' /\ PlayingWasSeen' /\ DemoIsNoServer'
  BY EventArrives DEF WaitingWasSeen, PlayingWasSeen, DemoIsNoServer
<1>4. OnlyPlayersAreTold' /\ ChangesAreNoticed' /\ ToldPlays'
  BY <1>1 DEF OnlyPlayersAreTold, ChangesAreNoticed, ToldPlays
<1>5. OnLegacyServer' => OnLegacyServer \/ game_clientStateLast = CONNECTED
  BY EventArrives DEF OnLegacyServer
<1>6. LegacyHasNoVersion'
  <2>1. game_clientStateLast = CONNECTED => g_cod2x.value = 0
    BY <1>1 DEF VersionIsCurrent, CONNECTED, TypeOK
  <2> QED
    BY <1>1, <1>5, <2>1 DEF LegacyHasNoVersion
<1>7. LegacyIsUnpatched'
  <2>1. OnLegacyServer' => clipFix' = clipFix
    BY EventArrives DEF OnLegacyServer
  <2> QED
    BY <1>1, <1>5, <2>1 DEF LegacyIsUnpatched, CONNECTED, ACTIVE
<1>8. VersionIsPatched'
  BY <1>1, EventArrives DEF VersionIsPatched
<1> QED
  BY <1>2, <1>3, <1>4, <1>6, <1>7, <1>8

\* The client's own frame.
LEMMA DrawVersion ==
  ASSUME TypeOK, VersionInv, FirstSnapshot \/ DemoCompleted \/ EndFrame
  PROVE  VersionInv'
<1> USE DEF VersionInv
<1>1. UNCHANGED <<g_cod2x, clipFix, game_clientStateLast>> /\ phase # "events" /\ phase' # "events"
      /\ phase' # "command"
  BY DEF FirstSnapshot, DemoCompleted, EndFrame, game
<1>2. CASE FirstSnapshot
  <2>1. /\ phase' = phase /\ clientState = PRIMED /\ clientState' = ACTIVE
        /\ UNCHANGED <<demo_isPlaying, server, told>>
    BY <1>2 DEF FirstSnapshot
  <2>2. VersionIsCurrent' /\ WaitingWasSeen' /\ PlayingWasSeen' /\ ChangesAreNoticed'
    BY <1>1, <2>1 DEF VersionIsCurrent, WaitingWasSeen, PlayingWasSeen, ChangesAreNoticed, PRIMED, ACTIVE
  <2>3. DemoIsNoServer' /\ OnlyPlayersAreTold' /\ ToldPlays' /\ VersionIsPatched'
    BY <1>1, <2>1 DEF DemoIsNoServer, OnlyPlayersAreTold, ToldPlays, VersionIsPatched, PRIMED, ACTIVE
  <2>4. LegacyHasNoVersion' /\ LegacyIsUnpatched'
    BY <1>1, <2>1 DEF LegacyHasNoVersion, LegacyIsUnpatched, OnLegacyServer, LOADING, PRIMED, ACTIVE
  <2> QED
    BY <2>2, <2>3, <2>4
<1>3. CASE DemoCompleted
  <2>1. /\ clientState \in {PRIMED, ACTIVE} /\ clientState' = DISCONNECTED
        /\ ~demo_isPlaying' /\ ~told' /\ ~asked' /\ phase = "draw" /\ phase' = "fps"
    BY <1>3 DEF DemoCompleted, Move, DemoIsNoServer
  <2>2. VersionIsCurrent' /\ WaitingWasSeen' /\ PlayingWasSeen' /\ ChangesAreNoticed'
    BY <1>1, <2>1 DEF VersionIsCurrent, WaitingWasSeen, PlayingWasSeen, ChangesAreNoticed
  <2>3. DemoIsNoServer' /\ OnlyPlayersAreTold' /\ ToldPlays' /\ VersionIsPatched'
    BY <1>1, <2>1 DEF DemoIsNoServer, OnlyPlayersAreTold, ToldPlays, VersionIsPatched
  <2>4. LegacyHasNoVersion' /\ LegacyIsUnpatched'
    BY <1>1, <2>1 DEF LegacyHasNoVersion, LegacyIsUnpatched, OnLegacyServer, DISCONNECTED, LOADING
  <2> QED
    BY <2>2, <2>3, <2>4
<1>4. CASE EndFrame
  <2>1. /\ phase' = "fps" /\ UNCHANGED <<clientState, demo_isPlaying, server, told>>
        /\ phase \in {"draw", "command"}
    BY <1>4 DEF EndFrame
  <2>2. VersionIsCurrent' /\ WaitingWasSeen' /\ PlayingWasSeen' /\ ChangesAreNoticed'
    BY <1>1, <2>1 DEF VersionIsCurrent, WaitingWasSeen, PlayingWasSeen, ChangesAreNoticed
  <2>3. DemoIsNoServer' /\ OnlyPlayersAreTold' /\ ToldPlays' /\ VersionIsPatched'
    BY <1>1, <2>1 DEF DemoIsNoServer, OnlyPlayersAreTold, ToldPlays, VersionIsPatched
  <2>4. LegacyHasNoVersion' /\ LegacyIsUnpatched'
    BY <1>1, <2>1 DEF LegacyHasNoVersion, LegacyIsUnpatched, OnLegacyServer
  <2> QED
    BY <2>2, <2>3, <2>4
<1> QED
  BY <1>2, <1>3, <1>4

\* The server tells its version to a client that plays on it.
LEMMA ToldVersion ==
  ASSUME TypeOK, VersionInv, SetClientVersion
  PROVE  VersionInv'
<1> USE DEF VersionInv
<1>1. /\ phase = "command" /\ clientState = ACTIVE
      /\ UNCHANGED <<phase, clientState, demo_isPlaying, server, clipFix, game_clientStateLast, asked>>
      /\ told' = ~demo_isPlaying
  BY DEF SetClientVersion, OnlyPlayersAreTold
<1>2. PICK v \in 0 .. Protocol : /\ demo_isPlaying \/ (v = server.version /\ v > 0)
                                 /\ g_cod2x' = DvarSet(g_cod2x, v)
  BY DEF SetClientVersion
<1>3. g_cod2x'.value = v /\ (~g_cod2x'.modified => ~g_cod2x.modified /\ g_cod2x.value = v)
  BY <1>2 DEF DvarSet, TypeOK
<1>4. VersionIsCurrent' /\ WaitingWasSeen' /\ PlayingWasSeen' /\ ChangesAreNoticed'
  BY <1>1 DEF VersionIsCurrent, WaitingWasSeen, PlayingWasSeen, ChangesAreNoticed
<1>5. DemoIsNoServer' /\ OnlyPlayersAreTold'
  BY <1>1 DEF DemoIsNoServer, OnlyPlayersAreTold
<1>6. ToldPlays'
  BY <1>1, <1>2, <1>3 DEF ToldPlays
<1>7. VersionIsPatched'
  BY <1>1, <1>3 DEF VersionIsPatched
<1>8. LegacyHasNoVersion' /\ LegacyIsUnpatched'
  BY <1>1, <1>2 DEF LegacyHasNoVersion, LegacyIsUnpatched, OnLegacyServer
<1> QED
  BY <1>4, <1>5, <1>6, <1>7, <1>8

LEMMA NextVersion == TypeOK /\ VersionInv /\ [Next]_vars => VersionInv'
<1> SUFFICES ASSUME TypeOK, VersionInv, [Next]_vars
             PROVE  VersionInv'
  OBVIOUS
<1>1. CASE UNCHANGED vars
  BY <1>1, QuietVersion DEF vars
<1>2. CASE ParseCommandLine \/ ParseNext \/ Parsed \/ FirstFrame
  BY <1>2, QuietVersion DEF ParseCommandLine, ParseNext, Parsed, FirstFrame
<1>3. CASE FpsFrame_Demo \/ FpsFrame
  BY <1>3, QuietVersion DEF FpsFrame_Demo, FpsFrame
<1>4. CASE SetMaxFps \/ EndEvents
  BY <1>4, QuietVersion DEF SetMaxFps, EndEvents, Event
<1>5. CASE ServerCommand \/ SetClientLimit
  BY <1>5, QuietVersion DEF ServerCommand, SetClientLimit
<1>6. CASE GameFrame \/ ConnectionEvent
  BY <1>6, GameVersion, EventVersion
<1>7. CASE FirstSnapshot \/ DemoCompleted \/ EndFrame
  BY <1>7, DrawVersion
<1>8. CASE SetClientVersion
  BY <1>8, ToldVersion
<1> QED
  BY <1>1, <1>2, <1>3, <1>4, <1>5, <1>6, <1>7, <1>8, NextCases

LEMMA VersionImplies == VersionInv => ClipFixIsServers
<1> SUFFICES ASSUME VersionInv, phase = "events", clientState = ACTIVE, ~demo_isPlaying
             PROVE  (server.version = 0 => ~clipFix) /\ (told => clipFix)
  BY DEF ClipFixIsServers
<1>1. server.version = 0 => ~clipFix
  BY DEF VersionInv, PlayingWasSeen, LegacyIsUnpatched, OnLegacyServer, LOADING, ACTIVE
<1>2. told => clipFix
  BY DEF VersionInv, ToldPlays, ChangesAreNoticed, VersionIsPatched
<1> QED
  BY <1>1, <1>2

\* The fix for the clip bug follows the server a client plays on, for any number
\* of versions and whatever he did before.
THEOREM FixFollowsServer == Spec => []ClipFixIsServers
<1>1. Init => TypeOK /\ VersionInv
  BY InitTypes, InitVersion
<1>2. TypeOK /\ VersionInv /\ [Next]_vars => (TypeOK /\ VersionInv)'
  BY NextTypes, NextVersion
<1> QED
  BY <1>1, <1>2, VersionImplies, PTL DEF Spec

-----------------------------------------------------------------------------
(* The command line is split.                                              *)

ScannerFinds ==
    phase \in {"parse", "started"} =>
        FindsQuotes(text, scanner) /\ FindsCuts(text, scanner) /\ FindsLines(text, scanner)

StartedIsScanned == phase = "started" => Scanned(text, scanner)

LEMMA NextFinds ==
  ASSUME TypeOK, ScannerFinds, StartedIsScanned, [Next]_vars
  PROVE  ScannerFinds' /\ StartedIsScanned'
<1>0. text \in Seq(Char) /\ scanner \in Scanner(text)
  BY TextTypes DEF TypeOK, text
<1>1. CASE ParseCommandLine
  <2>1. phase' = "parse" /\ text' = text /\ scanner' = ScannerStart
    BY <1>1 DEF ParseCommandLine, text
  <2> QED
    BY <1>0, <2>1, StartFinds DEF ScannerFinds, StartedIsScanned
<1>2. CASE ParseNext
  <2>1. /\ phase = "parse" /\ phase' = "parse" /\ text' = text
        /\ ~Scanned(text, scanner) /\ scanner' = Scan(text, scanner)
    BY <1>2 DEF ParseNext, text
  <2> QED
    BY <1>0, <2>1, StepFindsQuotes, StepFindsCuts, StepFindsLines
    DEF ScannerFinds, StartedIsScanned
<1>3. CASE Parsed
  <2>1. /\ phase = "parse" /\ phase' = "started" /\ text' = text /\ scanner' = scanner
        /\ Scanned(text, scanner)
    BY <1>3 DEF Parsed, start, text
  <2> QED
    BY <2>1 DEF ScannerFinds, StartedIsScanned
<1>4. CASE FirstFrame
  BY <1>4 DEF FirstFrame, ScannerFinds, StartedIsScanned
<1> DEFINE Elsewhere == UNCHANGED start /\ (phase' = phase \/ phase' \notin {"parse", "started"})
<1>5. CASE Elsewhere
  BY <1>5 DEF start, text, ScannerFinds, StartedIsScanned
<1>6. \/ ParseCommandLine \/ ParseNext \/ Parsed \/ FirstFrame
      \/ Elsewhere
  <2>1. UNCHANGED vars => Elsewhere
    BY DEF vars
  <2>2. FpsFrame_Demo \/ FpsFrame \/ GameFrame \/ SetMaxFps \/ EndEvents => Elsewhere
    BY DEF FpsFrame_Demo, FpsFrame, GameFrame, SetMaxFps, Event, EndEvents
  <2>3. ConnectionEvent => Elsewhere
    BY EventMoves
  <2>4. \/ FirstSnapshot \/ DemoCompleted \/ ServerCommand \/ SetClientVersion
        \/ SetClientLimit \/ EndFrame
        => Elsewhere
    BY DEF FirstSnapshot, DemoCompleted, ServerCommand, SetClientVersion, SetClientLimit, EndFrame
  <2> QED
    <3> HIDE DEF Elsewhere
    <3> QED
      BY <2>1, <2>2, <2>3, <2>4, NextCases
<1> QED
  BY <1>1, <1>2, <1>3, <1>4, <1>5, <1>6

LEMMA FoundIsSplit ==
  TypeOK /\ ScannerFinds /\ StartedIsScanned => CommandLineIsSplit
<1> SUFFICES ASSUME TypeOK, ScannerFinds, StartedIsScanned,
                    phase = "started", ~TwoQuotedParts(commandLine)
             PROVE  com_consoleLines(text, scanner) = LinesOf(Unquoted(commandLine))
  BY DEF CommandLineIsSplit
<1>1. text \in Seq(Char) /\ scanner \in Scanner(text) /\ commandLine \in Seq(Char)
  BY TextTypes DEF TypeOK, text
<1>2. com_consoleLines(text, scanner) = LinesOf(text)
  BY <1>1, LinesAreFound DEF ScannerFinds, StartedIsScanned
<1>3. text = Unquoted(commandLine)
  BY <1>1, OuterQuotes DEF text
<1> QED
  BY <1>2, <1>3

\* Command lines of any length, with room for any number of console lines, are
\* split at the separators outside quotes and nowhere else.
THEOREM LinesAreSplit == Spec => []CommandLineIsSplit
<1>1. Init => TypeOK /\ ScannerFinds /\ StartedIsScanned
  BY InitTypes DEF Init, ScannerFinds, StartedIsScanned
<1>2. TypeOK /\ ScannerFinds /\ StartedIsScanned /\ [Next]_vars =>
         (TypeOK /\ ScannerFinds /\ StartedIsScanned)'
  BY NextTypes, NextFinds
<1> QED
  BY <1>1, <1>2, FoundIsSplit, PTL DEF Spec
=============================================================================
