--------------------------- MODULE EvidenceSelection ---------------------------
(***************************************************************************)
(* What a model gets to read of a filing: the keyword windows of            *)
(* radar/extraction.py, and the form-aware sections and windows of          *)
(* radar/evidence_budget.py.  A text is its length and the positions of its *)
(* spaces; which patterns match where is part of the input.                 *)
(***************************************************************************)
EXTENDS Integers, FiniteSets, FiniteSetsExt, Functions, Sequences

CONSTANTS
  TextLength,         (* bound: characters of the normalized text            *)
  Spaces,             (* positions of its spaces                             *)
  HalfWindow,         (* WINDOW_CHARACTERS // 2                              *)
  MaxWindows,         (* MAXIMUM_WINDOWS                                     *)
  Separator,          (* characters between two windows                      *)
  EvidenceBudget,     (* MAXIMUM_EVIDENCE_CHARACTERS                         *)
  MaxCandidates,      (* bound: candidates of one filing                     *)
  EvidenceLabel       (* section kinds, the keys windows are spread over     *)

ASSUME EvidenceAssumption ==
  /\ {TextLength, HalfWindow, MaxWindows, EvidenceBudget} \subseteq Nat \ {0}
  /\ Separator \in Nat /\ MaxCandidates \in Nat
  /\ Spaces \subseteq 1..(TextLength - 2)
  /\ \A i \in Spaces : i + 1 \notin Spaces

VARIABLE evidence     (* the call in progress                                *)

evidenceVars == <<evidence>>

NoEvidence == [op |-> "none"]

Position == 0..(TextLength - 1)
Word == Position \ Spaces

SizeOf(windows) == SumFunctionOnSet([x \in windows |-> x.end - x.start], windows)
Joined(windows) ==
  SizeOf(windows) + (IF windows = {} THEN 0 ELSE Separator * (Cardinality(windows) - 1))

-----------------------------------------------------------------------------
(* Keyword windows: extract_research_excerpt *)

MaxOf(a, b) == IF a > b THEN a ELSE b
MinOf(a, b) == IF a < b THEN a ELSE b

(* _whole_word_window                                                        *)
WholeWordWindow(p, lower, upper) ==
  LET roughStart == MaxOf(lower, p - HalfWindow)
      roughEnd == MinOf(upper, p + HalfWindow)
      before == {i \in Spaces : roughStart <= i /\ i < p}
      after == {i \in Spaces : p < i /\ i < roughEnd}
  IN [start |-> IF roughStart > lower /\ before # {} THEN Min(before) + 1 ELSE roughStart,
      end |-> IF roughEnd < upper /\ after # {} THEN Max(after) ELSE roughEnd]

Touches(w, windows) == \E x \in windows : w.start <= x.end /\ w.end >= x.start

AddWindow(windows, p) ==
  LET w == WholeWordWindow(p, 0, TextLength) IN
  IF Cardinality(windows) >= MaxWindows \/ Touches(w, windows) THEN windows
  ELSE windows \cup {w}

(* _diverse_positions: the first opportunity, the first risk, then all in    *)
(* filing order.  A position that comes again finds its window, or what      *)
(* refused it, still there.                                                  *)
AddFirst(windows, hits) == IF hits = {} THEN windows ELSE AddWindow(windows, Min(hits))

KeywordWindows(opportunities, risks) ==
  LET after[n \in 0..TextLength] ==
        IF n = 0 THEN AddFirst(AddFirst({}, opportunities), risks)
        ELSE IF n - 1 \in opportunities \cup risks THEN AddWindow(after[n - 1], n - 1)
        ELSE after[n - 1]
  IN after[TextLength]

(* The cut of the joined excerpt to its maximum removes nothing: six windows *)
(* of 560 characters and their separators fit in 3,600.                      *)
ExtractExcerpt(opportunities, risks) ==
  evidence' = [op |-> "keywords", opportunities |-> opportunities, risks |-> risks,
               windows |-> KeywordWindows(opportunities, risks)]

-----------------------------------------------------------------------------
(* Form-aware windows: _select_windows *)

(* A candidate names its label; a keyword window reserves a baseline term.   *)
(* Bound: boilerplate has the lower priority; it competes with itself only.  *)
Candidate ==
  {c \in [start : Word, end : Position \cup {TextLength}, label : EvidenceLabel, priority : 0..1,
          boilerplate : BOOLEAN, keyword : BOOLEAN] :
     /\ c.start < c.end /\ c.end - c.start <= 2 * HalfWindow
     /\ c.end - 1 \notin Spaces
     /\ c.keyword => c.priority = 0
     /\ c.boilerplate => c.priority = 1}

Before(c, d) == c.priority < d.priority \/ (c.priority = d.priority /\ c.start < d.start)

(* Boilerplate only counts when there is nothing else.                       *)
Substantive(candidates) ==
  LET kept == {c \in candidates : ~c.boilerplate} IN IF kept = {} THEN candidates ELSE kept

(* sorted() keeps the order in which candidates of one rank were found,      *)
(* which is any.                                                             *)
Rankings(pool) ==
  {r \in [1..Cardinality(pool) -> pool] :
     /\ \A c \in pool : \E i \in DOMAIN r : r[i] = c
     /\ \A i, j \in DOMAIN r : i < j => ~Before(r[j], r[i])}

(* The best of each label, boilerplate excepted.                             *)
Diverse(ranked) ==
  {i \in DOMAIN ranked : ~ranked[i].boilerplate /\ \A j \in 1..(i - 1) : ranked[j].label # ranked[i].label}

OverlapsOne(c, selected) == \E x \in selected : c.start < x.end /\ c.end > x.start

RepeatsKeyword(c, selected) ==
  c.keyword /\ \E x \in selected : x.keyword /\ x.label = c.label

NoSeparator(selected) == EvidenceBudget - SizeOf(selected)

Available(selected) ==
  EvidenceBudget - SizeOf(selected) - Separator * Cardinality(selected)

(* Cut to what is available, at a space if there is one, and trimmed.        *)
CutTo(c, available) ==
  LET end == MinOf(c.end, c.start + available)
      inner == {i \in Spaces : c.start < i /\ i < end}
      cut == IF end < c.end /\ inner # {} THEN Max(inner) ELSE end
  IN [c EXCEPT !.end = IF cut - 1 \in Spaces THEN cut - 1 ELSE cut]

AddCandidate(selected, c) ==
  IF \/ Cardinality(selected) >= MaxWindows
     \/ RepeatsKeyword(c, selected)
     \/ OverlapsOne(c, selected)
     \/ Available(selected) <= 0
  THEN selected
  ELSE selected \cup {CutTo(c, Available(selected))}

(* The candidates at the positions of a turn, in the order of their rank.    *)
SelectFrom(selected, ranked, turn) ==
  LET after[n \in 0..Len(ranked)] ==
        IF n = 0 THEN selected
        ELSE IF n \in turn THEN AddCandidate(after[n - 1], ranked[n])
        ELSE after[n - 1]
  IN after[Len(ranked)]

SelectWindows(ranked) ==
  LET diverse == Diverse(ranked) IN
  SelectFrom(SelectFrom({}, ranked, diverse), ranked, DOMAIN ranked \ diverse)

(* EvidenceBudgetReceipt.selected_hash_and_windows_are_consistent            *)
ReceiptWindows(windows) ==
  /\ \A x, y \in windows : x # y => x.end <= y.start \/ y.end <= x.start
  /\ Cardinality(windows) <= MaxWindows
  /\ \A x \in windows : x.start < x.end /\ x.end - x.start <= 2 * HalfWindow

SelectEvidence(candidates) ==
  \E ranked \in Rankings(Substantive(candidates)) :
    evidence' = [op |-> "form", candidates |-> candidates, windows |-> SelectWindows(ranked)]

EvidenceInit == evidence = NoEvidence

EvidenceReturn == evidence # NoEvidence /\ evidence' = NoEvidence

EvidenceNext ==
  \/ EvidenceReturn
  \/ /\ evidence = NoEvidence
     /\ \E opportunities, risks \in SUBSET Word :
          /\ opportunities \cap risks = {}
          /\ ExtractExcerpt(opportunities, risks)
  \/ /\ evidence = NoEvidence
     /\ \/ SelectEvidence({})
        \/ \E found \in [1..MaxCandidates -> Candidate] : SelectEvidence(Range(found))

EvidenceSpec == EvidenceInit /\ [][EvidenceNext]_evidenceVars

-----------------------------------------------------------------------------
(* Properties *)

(* The excerpt and the form-aware selection keep the contract of their       *)
(* receipt: windows that do not overlap, none empty, and, for the receipt,   *)
(* joined with their separators within the budget, so that the final cut of  *)
(* the joined text removes nothing (EvidenceBudgetReceipt.                   *)
(* selected_hash_and_windows_are_consistent).                                *)
WindowsFitTheBudget ==
  evidence.op \in {"keywords", "form"} =>
    /\ ReceiptWindows(evidence.windows)
    /\ evidence.op = "form" => Joined(evidence.windows) <= EvidenceBudget

(* Both polarities are looked at before more of one: the first opportunity   *)
(* has its window, and the first risk loses its own only to that window,     *)
(* which it touches or which is all there may be, never to a second          *)
(* opportunity (_diverse_positions).                                         *)
NoPolarityIsCrowdedOut ==
  evidence.op = "keywords" =>
    LET First(hits) == WholeWordWindow(Min(hits), 0, TextLength)
        opportunities == evidence.opportunities
        risks == evidence.risks
    IN
    /\ opportunities # {} => First(opportunities) \in evidence.windows
    /\ risks # {} =>
         \/ First(risks) \in evidence.windows
         \/ /\ opportunities # {}
            /\ MaxWindows = 1 \/ Touches(First(risks), {First(opportunities)})

(* Nothing is left out silently: a candidate without a window is boilerplate *)
(* beside substance, or was crowded out by the limits, by an overlap or by   *)
(* a window that reserves the same label; and boilerplate is shown only when *)
(* every candidate is boilerplate (_select_windows).                         *)
NothingIsDroppedSilently ==
  evidence.op = "form" =>
    LET all == evidence.candidates
        shown == evidence.windows
    IN
    /\ \A c \in all :
         \/ \E x \in shown : x.start = c.start /\ x.label = c.label
         \/ c.boilerplate /\ \E d \in all : ~d.boilerplate
         \/ Cardinality(shown) = MaxWindows
         \/ Available(shown) <= 0
         \/ OverlapsOne(c, shown)
         \/ RepeatsKeyword(c, shown)
    /\ (\E x \in shown : x.boilerplate) => \A c \in all : c.boilerplate
    /\ all # {} => shown # {}

(* What the model reads is bounded, balanced, and left out only for a        *)
(* reason.                                                                   *)
ShownEvidenceIsSound ==
  WindowsFitTheBudget /\ NoPolarityIsCrowdedOut /\ NothingIsDroppedSilently

=============================================================================
