--------------------------- MODULE SectionExtraction ---------------------------
(***************************************************************************)
(* How a filing's visible text is cut into named sections, once for the     *)
(* comparison of filings (providers/sec/filing_change.py) and once for the  *)
(* evidence budget (radar/evidence_budget.py).  A text is a sequence of     *)
(* tokens of one unit each: headings, item markers, and prose that may look *)
(* like a table of contents.                                                *)
(***************************************************************************)
EXTENDS Integers, Sequences, FiniteSets, FiniteSetsExt

CONSTANTS
  MaxTokens,          (* bound: tokens of a text                             *)
  MinSection,         (* MINIMUM_EXTRACTED_SECTION_CHARACTERS                *)
  MaxSection          (* MAXIMUM_EXTRACTED_SECTION_CHARACTERS                *)

ASSUME SectionAssumption ==
  /\ MaxTokens \in Nat
  /\ MinSection \in Nat \ {0}
  /\ MaxSection \in Nat /\ MaxSection >= MinSection

(* "risks" is found under its item number in a periodic report, "debt" is    *)
(* not bound to one.  A heading in capitals is preferred in a prospectus.    *)
SectionRule == {"risks", "debt"}

Token == {"risks", "RISKS", "debt", "DEBT", "item", "prose", "contents"}

RuleOf == [t \in Token |->
  CASE t \in {"risks", "RISKS"} -> {"risks"}
    [] t \in {"debt", "DEBT"} -> {"debt"}
    [] OTHER -> {}]

IsUppercase(t) == t \in {"RISKS", "DEBT"}

VARIABLE sectioning    (* the call in progress                               *)

sectionVars == <<sectioning>>

NoSectioning == [op |-> "none"]

-----------------------------------------------------------------------------
(* extract_filing_change_sections *)

AfterItem(text, i) == i > 1 /\ text[i - 1] = "item"

(* _heading_candidates                                                       *)
HeadingCandidates(text, periodic) ==
  {i \in DOMAIN text :
     /\ RuleOf[text[i]] # {}
     /\ periodic /\ "risks" \in RuleOf[text[i]] => AfterItem(text, i)}

ItemsOnly(text, periodic) == {i \in DOMAIN text : text[i] = "item"} \cup {Len(text) + 1}

SectionBoundaries(text, periodic) ==
  HeadingCandidates(text, periodic)
    \cup {i \in DOMAIN text : text[i] = "item"} \cup {Len(text) + 1}

(* The end is the first unit after the section.                              *)
SectionEnd(text, periodic, i) ==
  Min({b \in SectionBoundaries(text, periodic) : b > i} \cup {i + MaxSection})

LooksLikeContents(text, from, to) == \E i \in from..(to - 1) : text[i] = "contents"

SubstantiveSections(text, periodic, rule) ==
  {i \in HeadingCandidates(text, periodic) :
     LET end == SectionEnd(text, periodic, i) IN
     /\ rule \in RuleOf[text[i]]
     /\ end - i >= MinSection
     /\ ~LooksLikeContents(text, i, end)}

PreferredSections(text, periodic, rule) ==
  LET found == SubstantiveSections(text, periodic, rule)
      capitals == {i \in found : IsUppercase(text[i])}
  IN IF ~periodic /\ capitals # {} THEN capitals ELSE found

(* The rules that found a section, each with its first one.                  *)
ChangeSections(text, periodic) ==
  [r \in {q \in SectionRule : PreferredSections(text, periodic, q) # {}} |->
     LET i == Min(PreferredSections(text, periodic, r)) IN
     [start |-> i, end |-> SectionEnd(text, periodic, i)]]

ExtractChangeSections(text, periodic) ==
  sectioning' = [op |-> "change", text |-> text, periodic |-> periodic,
                 result |-> ChangeSections(text, periodic)]

-----------------------------------------------------------------------------
(* _sections of the evidence budget, for a periodic report *)

(* A heading right after its item number is explicit; explicit headings, if  *)
(* there is one, are the only sections, and run to the next item.            *)
ExplicitHeadings(text) ==
  {i \in DOMAIN text : RuleOf[text[i]] # {} /\ AfterItem(text, i)}

LooseHeadings(text) == {i \in DOMAIN text : RuleOf[text[i]] # {}}

NextBoundary(text, boundaries, i) == Min({b \in boundaries : b > i} \cup {Len(text) + 1})

BudgetSections(text) ==
  LET items == {i \in DOMAIN text : text[i] = "item"} IN
  IF ExplicitHeadings(text) # {}
  THEN {[start |-> i - 1, end |-> NextBoundary(text, items, i)] : i \in ExplicitHeadings(text)}
  ELSE {[start |-> i, end |-> NextBoundary(text, items \cup LooseHeadings(text), i)] :
          i \in LooseHeadings(text)}

ExtractBudgetSections(text) ==
  sectioning' = [op |-> "budget", text |-> text, result |-> BudgetSections(text)]

SectionInit == sectioning = NoSectioning

SectionReturn == sectioning # NoSectioning /\ sectioning' = NoSectioning

SectionNext ==
  \/ SectionReturn
  \/ /\ sectioning = NoSectioning
     /\ \E n \in 0..MaxTokens : \E text \in [1..n -> Token] :
          \/ \E periodic \in BOOLEAN : ExtractChangeSections(text, periodic)
          \/ ExtractBudgetSections(text)

SectionSpec == SectionInit /\ [][SectionNext]_sectionVars

-----------------------------------------------------------------------------
(* Properties *)

Apart(x, y) == x.end <= y.start \/ y.end <= x.start

(* The sections two filings are compared by do not overlap, so that one      *)
(* changed sentence is one change; each starts with its own heading, holds   *)
(* no other heading or item, and is never the table of contents; and a       *)
(* section is missing only when every one of its headings is short or in     *)
(* the contents (extract_filing_change_sections).                            *)
ChangeSectionsAreDisjoint ==
  sectioning.op = "change" =>
    LET text == sectioning.text
        found == sectioning.result
    IN
    /\ \A r, q \in DOMAIN found : r # q => Apart(found[r], found[q])
    /\ \A r \in DOMAIN found :
         /\ r \in RuleOf[text[found[r].start]]
         /\ found[r].end - found[r].start \in MinSection..MaxSection
         /\ ~\E i \in (found[r].start + 1)..(found[r].end - 1) :
               text[i] \in {"item", "contents", "DEBT", "debt"}
    /\ \A r \in SectionRule \ DOMAIN found, i \in DOMAIN text :
         /\ r \in RuleOf[text[i]]
         /\ sectioning.periodic /\ r = "risks" => AfterItem(text, i)
         => \E j \in (i + 1)..(i + MaxSection - 1) :
              \/ j > Len(text)
              \/ text[j] \in {"item", "contents"} \/ RuleOf[text[j]] # {}

(* The evidence budget's sections do not overlap either: a window of one is  *)
(* never taken for another's, and a text with a heading has a section        *)
(* (_sections).                                                              *)
BudgetSectionsAreDisjoint ==
  sectioning.op = "budget" =>
    /\ \A x, y \in sectioning.result : x # y => Apart(x, y)
    /\ \A x \in sectioning.result : x.start < x.end
    /\ LooseHeadings(sectioning.text) # {} => sectioning.result # {}

(* Both ways of cutting a filing into sections give sections that do not     *)
(* overlap and miss none silently.                                           *)
SectionsAreDisjoint == ChangeSectionsAreDisjoint /\ BudgetSectionsAreDisjoint
=============================================================================
