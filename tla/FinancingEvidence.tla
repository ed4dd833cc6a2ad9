--------------------------- MODULE FinancingEvidence ---------------------------
(***************************************************************************)
(* Deterministic financing terms (forensics/financing.py and                *)
(* providers/sec/financing.py): phrases found in the visible text of a      *)
(* filing become bounded excerpts with an identity, exact patterns in the   *)
(* excerpts become terms, and the terms and their excerpts a receipt.       *)
(* A text is its length and its spaces; which phrase or pattern occurs      *)
(* where is part of the input.                                              *)
(***************************************************************************)
EXTENDS Integers, FiniteSets, FiniteSetsExt, Functions, Sequences

CONSTANTS
  FtLength,           (* bound: characters of the visible text               *)
  FtSpaces,           (* positions of its spaces                             *)
  FtHalf,             (* MAXIMUM_EVIDENCE_CHARACTERS // 2                    *)
  FtBudget,           (* MAXIMUM_TOTAL_EVIDENCE_CHARACTERS                   *)
  FtMaxExcerpts,      (* MAXIMUM_FINANCING_EVIDENCE                          *)
  FtMaxSignals,       (* max_length of the signals of an excerpt             *)
  FtPhrase            (* length of the phrase of each signal                 *)

VARIABLE financing    (* the call in progress                                *)

financingVars == <<financing>>

NoFinancing == [op |-> "none"]

-----------------------------------------------------------------------------
(* Excerpts: extract_financing_evidence *)

(* FinancingEvidenceSignal, in the order it is declared in; bound: four of   *)
(* them, with one phrase each.  The phrase of OFFERING_PRICE starts with     *)
(* that of PUBLIC_OFFERING and may run over several words.                   *)
FtSignals == <<"ATM_PROGRAM", "OFFERING_CAPACITY", "PUBLIC_OFFERING", "OFFERING_PRICE">>

ASSUME FinancingAssumption ==
  /\ {FtLength, FtHalf, FtBudget, FtMaxExcerpts, FtMaxSignals} \subseteq Nat \ {0}
  /\ FtSpaces \subseteq 1..(FtLength - 2)
  /\ FtPhrase \in [Range(FtSignals) -> 1..FtHalf]

Words == {0} \cup {i + 1 : i \in FtSpaces}

(* Which phrases start at a word of the text.                                *)
PhrasesAt == {{}, {"ATM_PROGRAM"}, {"OFFERING_CAPACITY"}, {"PUBLIC_OFFERING"},
              {"PUBLIC_OFFERING", "OFFERING_PRICE"}}

(* Bound: no phrase starts inside another.                                   *)
FtTexts ==
  {text \in [Words -> PhrasesAt] :
     \A p \in Words : \A s \in text[p] :
       /\ p + FtPhrase[s] <= FtLength
       /\ \A q \in Words : p < q /\ q < p + FtPhrase[s] => text[q] = {}}

(* _find_signal_hits: where a signal is found; the hits of a text are taken  *)
(* by position, and by name at one position.                                 *)
FindSignalHits(text, s) == {p \in Words : s \in text[p]}
ByName == <<"ATM_PROGRAM", "OFFERING_CAPACITY", "OFFERING_PRICE", "PUBLIC_OFFERING">>

(* _prioritize_signal_hits: the first hit of a signal, if it has one.        *)
InTextOrder(text, s) == {}
FirstHit(text, s) == {p \in FindSignalHits(text, s) : \A q \in FindSignalHits(text, s) : p <= q}

(* _whole_word_evidence_window                                               *)
EvidenceWindow(p) ==
  LET roughStart == Max({0, p - FtHalf})
      roughEnd == Min({FtLength, p + FtHalf})
      before == {i \in FtSpaces : roughStart <= i /\ i < p}
      after == {i \in FtSpaces : p < i /\ i < roughEnd}
  IN [start |-> IF roughStart > 0 /\ before # {} THEN Min(before) + 1 ELSE roughStart,
      end |-> IF roughEnd < FtLength /\ after # {} THEN Max(after) ELSE roughEnd]

(* The phrase is read in the excerpt's text: any of its occurrences counts.  *)
Quotes(excerpt, signal, text) ==
  \E p \in Words : /\ signal \in text[p]
                   /\ excerpt.start <= p /\ p + FtPhrase[signal] <= excerpt.end

Characters(excerpts) ==
  SumFunctionOnSet([i \in DOMAIN excerpts |-> excerpts[i].end - excerpts[i].start], DOMAIN excerpts)

(* One hit: it joins the first excerpt it overlaps if that one quotes its    *)
(* phrase, and otherwise makes an excerpt of its own while the budget lasts. *)
(* model_copy adds the signal unchecked: an excerpt may get more than        *)
(* FtMaxSignals of them.                                                     *)
AddHit(text, excerpts, p, s) ==
  LET w == EvidenceWindow(p)
      overlapping == {i \in DOMAIN excerpts :
                        w.start < excerpts[i].end /\ w.end > excerpts[i].start}
      first == Min(overlapping)
  IN
  IF Len(excerpts) >= FtMaxExcerpts THEN excerpts
  ELSE IF overlapping # {} /\ Quotes(excerpts[first], s, text)
  THEN [excerpts EXCEPT ![first].signals = @ \cup {s}]
  ELSE IF Characters(excerpts) + w.end - w.start > FtBudget THEN excerpts
  ELSE Append(excerpts, [start |-> w.start, end |-> w.end, signals |-> {s}])

(* The first hit of each signal first, in the order of their declaration,    *)
(* and then every other hit in the order of the text.                        *)
FirstExcerpts(text) ==
  LET after[i \in 0..Len(FtSignals)] ==
        IF i = 0 THEN <<>>
        ELSE IF FirstHit(text, FtSignals[i]) = {} THEN after[i - 1]
        ELSE AddHit(text, after[i - 1], Min(FirstHit(text, FtSignals[i])), FtSignals[i])
  IN after[Len(FtSignals)]

Excerpts(text) ==
  LET names == Len(ByName)
      At(n) == (n - 1) \div names
      Name(n) == ByName[((n - 1) % names) + 1]
      after[n \in 0..(FtLength * names)] ==
        IF n = 0 THEN FirstExcerpts(text)
        ELSE IF At(n) \in FindSignalHits(text, Name(n)) \ FirstHit(text, Name(n))
        THEN AddHit(text, after[n - 1], At(n), Name(n))
        ELSE after[n - 1]
  IN after[FtLength * names]

(* FinancingEvidenceBundle.evidence_is_unique_and_bounded: an identity is    *)
(* made of the source, the offsets and the text.                             *)
IdentitiesAreUnique(excerpts) ==
  \A i, j \in DOMAIN excerpts :
    i # j => <<excerpts[i].start, excerpts[i].end>> # <<excerpts[j].start, excerpts[j].end>>

(* FinancingEvidenceExcerpt.signals, when the excerpt is validated again.    *)
SignalsFit(excerpts) ==
  \A i \in DOMAIN excerpts : Cardinality(excerpts[i].signals) <= FtMaxSignals

(* The bundle is made of the excerpts as they are; a bundle that does not    *)
(* fit is refused where its receipt is validated from its record.            *)
ExtractFinancingEvidence(text) ==
  LET excerpts == Excerpts(text) IN
  financing' = [op |-> "excerpts", text |-> text, excerpts |-> excerpts,
                fits |-> SignalsFit(excerpts),
                result |-> IF IdentitiesAreUnique(excerpts) THEN "bundle" ELSE "refused"]

-----------------------------------------------------------------------------
(* Terms: parse_financing_terms *)

(* What each parser asks of the bundle: patterns that must match, patterns   *)
(* that may, phrases or signals some excerpt must carry; the bases of the    *)
(* money it reports, the ones the optional patterns add, and how it says the *)
(* issuer's proceeds are known.                                              *)
Parser(must, may, marks, bases, added, proceeds) ==
  [must |-> must, may |-> may, marks |-> marks, bases |-> bases, added |-> added,
   proceeds |-> proceeds]

ShelfAtmTerms ==
  [RESALE_REGISTRATION |-> Parser({"resale"}, {}, {"no proceeds"}, {}, {}, "NONE_TO_ISSUER"),
   ATM_PROGRAM |-> Parser({"atm capacity"}, {"atm sales"}, {"ATM_PROGRAM"},
                          {"MAXIMUM_AGGREGATE_OFFERING"}, {"AGGREGATE_SALE_PRICE"}, "UNKNOWN")]

PublicOfferingTerms ==
  [PUBLIC_OFFERING |-> Parser({"priced offering"}, {}, {"PUBLIC_OFFERING", "OFFERING_PRICE"},
                              {}, {}, "UNKNOWN")]

PrivatePlacementTerms ==
  [PIPE |-> Parser({"placement"}, {"placement gross"}, {"PRIVATE_PLACEMENT"},
                   {}, {"GROSS_PROCEEDS"}, "if reported")]

ConvertiblePreferredWarrantTerms ==
  [CONVERTIBLE_DEBT |-> Parser({"note"}, {"note maturity", "note interest", "note covenants"}, {},
                               {"PRINCIPAL"}, {}, "UNKNOWN"),
   PREFERRED_EQUITY |-> Parser({"preferred"}, {}, {}, {"GROSS_PROCEEDS"}, {}, "REPORTED"),
   WARRANT |-> Parser({"warrant"}, {}, {}, {}, {}, "UNKNOWN")]

WarrantChangeTerms ==
  [WARRANT_REPRICING |-> Parser({"repricing"}, {}, {}, {}, {}, "UNKNOWN"),
   WARRANT_EXERCISE_INDUCEMENT |->
     Parser({"inducement", "new shares", "new price"}, {"inducement gross"}, {},
            {}, {"GROSS_PROCEEDS"}, "if reported")]

EquityLineTerms ==
  [EQUITY_LINE |-> Parser({"equity line"}, {}, {"terminated"}, {"COMMITMENT"}, {}, "UNKNOWN")]

DebtTerms ==
  [DEBT |-> Parser({"notes offering", "notes maturity"}, {}, {}, {"PRINCIPAL"}, {}, "UNKNOWN")]

(* parse_financing_terms asks them all.                                      *)
TermParsers ==
  {ShelfAtmTerms, PublicOfferingTerms, PrivatePlacementTerms, ConvertiblePreferredWarrantTerms,
   WarrantChangeTerms, EquityLineTerms, DebtTerms}
Instruments == UNION {DOMAIN terms : terms \in TermParsers}
FinancingParsers ==
  [i \in Instruments |-> (CHOOSE terms \in TermParsers : i \in DOMAIN terms)[i]]

(* Bound: two excerpts, and what a pattern reads in them: nothing, one       *)
(* value, or two that disagree.  A bundle maps patterns and marks to the     *)
(* excerpts and values; names the pattern, if there is one, that read what   *)
(* is no date or a rate above 100; and says whether its excerpts' signals    *)
(* fit (SignalsFit).                                                         *)
Reading == {{}, {[excerpt |-> 1, value |-> 1]}, {[excerpt |-> 2, value |-> 1]},
            {[excerpt |-> 1, value |-> 1], [excerpt |-> 2, value |-> 2]}}
Marking == {{}, {1}, {2}}

FirstExcerpt(reading) == Min({m.excerpt : m \in reading})

(* _unique_evidence_match                                                    *)
Conflicting(reading) == Cardinality({m.value : m \in reading}) > 1

Complete(p, bundle) ==
  /\ \A q \in p.must : bundle.patterns[q] # {}
  /\ \A s \in p.marks : bundle.marks[s] # {}

(* The proceeds patterns of a placement and of an inducement are searched    *)
(* only once the rest is there; all others always.                           *)
Searched(p, bundle) ==
  p.must \cup (IF p.proceeds # "if reported" \/ Complete(p, bundle) THEN p.may ELSE {})

(* The year a notes offering is due contradicts the maturity date.           *)
DueYearConflicts(p, bundle) ==
  /\ "notes maturity" \in p.must
  /\ Complete(p, bundle)
  /\ bundle.dueYear = "other"

(* _reported_date, and le=100 of FinancingTerm.interest_rate_percent; read   *)
(* when the term is built.                                                   *)
Ranged == {"note maturity", "note interest", "notes offering", "notes maturity"}

OutOfRange(p, bundle) ==
  /\ Complete(p, bundle)
  /\ \E q \in p.must \cup p.may : q \in bundle.invalid /\ bundle.patterns[q] # {}

TermMoney(p, bundle) ==
  p.bases \cup (IF \E q \in p.may : bundle.patterns[q] # {} THEN p.added ELSE {})

ProceedsStatus(p, bundle) ==
  IF p.proceeds # "if reported" THEN p.proceeds
  ELSE IF TermMoney(p, bundle) # {} THEN "REPORTED" ELSE "UNKNOWN"

TermEvidence(p, bundle) ==
  {FirstExcerpt(bundle.patterns[q]) : q \in {r \in p.must \cup p.may : bundle.patterns[r] # {}}}
    \cup {Min(bundle.marks[s]) : s \in p.marks}

ParsedTerm(i, bundle) ==
  LET p == FinancingParsers[i] IN
  [instrument |-> i, money |-> TermMoney(p, bundle), proceeds |-> ProceedsStatus(p, bundle),
   evidence |-> TermEvidence(p, bundle)]

ParsedTerms(bundle) ==
  {ParsedTerm(i, bundle) : i \in {j \in bundle.instruments : Complete(FinancingParsers[j], bundle)}}

(* FinancingTerm.term_semantics_are_closed; its other clauses tie a field to *)
(* the instruments it belongs to, and each parser fills those alone.         *)
TermIsClosed(t) == (t.proceeds = "REPORTED") <=> (t.money \cap {"GROSS_PROCEEDS", "NET_PROCEEDS"} # {})

(* FinancingFilingReceipt: no excerpt supports two terms.                    *)
TermsShareNothing(terms) == \A t, u \in terms : t # u => t.evidence \cap u.evidence = {}

(* choose_financing_tier                                                     *)
EventContext(instruments) ==
  LET Category(i) ==
        CASE i = "RESALE_REGISTRATION" -> "REGISTRATION_CAPACITY"
          [] i \in {"CONVERTIBLE_DEBT", "DEBT"} -> "DEBT_FINANCING"
          [] OTHER -> "EQUITY_FINANCING"
      categories == {Category(i) : i \in instruments}
  IN IF Cardinality(categories) = 1 THEN CHOOSE c \in categories : TRUE ELSE "MULTI_INSTRUMENT"

(* The exceptions of the parsers and of the receipt, and then of the first   *)
(* step of the worker, which validates the receipt from its record before it *)
(* is stored (financing_convergence_decision).  Where several apply, the one *)
(* that comes first decides the error category of the job and no more.       *)
ParseResult(bundle) ==
  LET parsers == {FinancingParsers[i] : i \in bundle.instruments}
      terms == ParsedTerms(bundle)
  IN
  IF \/ \E p \in parsers : \E q \in Searched(p, bundle) : Conflicting(bundle.patterns[q])
     \/ \E p \in parsers : DueYearConflicts(p, bundle)
  THEN "conflict"
  ELSE IF \/ \E p \in parsers : OutOfRange(p, bundle)
          \/ \E t \in terms : ~TermIsClosed(t)
  THEN "refused"
  ELSE IF terms = {} THEN "no terms"
  ELSE IF TermsShareNothing(terms) /\ bundle.fits THEN "receipt" ELSE "refused"

(* SecFinancingIngestionService.ingest, and FinancingWorker._process         *)
Ingest(bundle) ==
  financing' = [op |-> "terms", bundle |-> bundle, terms |-> ParsedTerms(bundle),
                result |-> ParseResult(bundle),
                context |-> EventContext({t.instrument : t \in ParsedTerms(bundle)})]

-----------------------------------------------------------------------------
(* Metadata: financing_filing_from_submissions *)

(* Rows of the issuer's submissions for the accession, and the checks the    *)
(* selected row and the fetched document must pass, in order.                *)
Metadata ==
  [rows : 0..2, identity : BOOLEAN, aligned : BOOLEAN, html : BOOLEAN, contract : BOOLEAN,
   url : BOOLEAN, unchanged : BOOLEAN]

SelectFiling(m) ==
  IF ~m.identity \/ ~m.aligned THEN "refused"
  ELSE IF m.rows = 0 THEN "absent"
  ELSE IF m.rows > 1 \/ ~m.html \/ ~m.contract THEN "refused"
  ELSE IF ~m.url THEN "mismatch"
  ELSE IF m.unchanged THEN "document" ELSE "refused"

IngestMetadata(m) ==
  financing' = [op |-> "metadata", metadata |-> m, result |-> SelectFiling(m)]

-----------------------------------------------------------------------------

BundleOf(instruments) ==
  LET patterns == UNION {FinancingParsers[i].must \cup FinancingParsers[i].may : i \in instruments}
      marks == UNION {FinancingParsers[i].marks : i \in instruments}
  IN [instruments : {instruments}, patterns : [patterns -> Reading], marks : [marks -> Marking],
      dueYear : IF "DEBT" \in instruments THEN {"same", "other"} ELSE {"same"},
      invalid : {{}} \cup {{q} : q \in patterns \cap Ranged}, fits : BOOLEAN]

FinancingInit == financing = NoFinancing

FinancingReturn == financing # NoFinancing /\ financing' = NoFinancing

(* Bound: the two instruments with four patterns are not parsed together.    *)
FinancingNext ==
  \/ FinancingReturn
  \/ /\ financing = NoFinancing
     /\ \E text \in FtTexts : ExtractFinancingEvidence(text)
  \/ /\ financing = NoFinancing
     /\ \E i, j \in Instruments :
          /\ {i, j} # {"CONVERTIBLE_DEBT", "WARRANT_EXERCISE_INDUCEMENT"}
          /\ \E bundle \in BundleOf({i, j}) : Ingest(bundle)
  \/ /\ financing = NoFinancing
     /\ \E m \in Metadata : IngestMetadata(m)

FinancingSpec == FinancingInit /\ [][FinancingNext]_financingVars

-----------------------------------------------------------------------------
(* Properties *)

(* No word ends between the phrase and the edge of the window around it: the *)
(* window is then cut at a space of the phrase, or before it.                *)
NoWordEnds(p, s) ==
  p + FtHalf < FtLength /\ \A i \in FtSpaces : i < p + FtPhrase[s] \/ p + FtHalf <= i

(* The excerpts stay within their limits, and no signal of the text is left  *)
(* out of them while there is room: each signal is on some excerpt, or the   *)
(* number of excerpts or their characters ran out.  An excerpt quotes the    *)
(* phrase of each of its signals, unless it was cut inside the phrase for    *)
(* want of a word that ends (extract_financing_evidence,                     *)
(* _prioritize_signal_hits).                                                 *)
EverySignalIsQuoted ==
  financing.op = "excerpts" =>
    LET x == financing.excerpts
        text == financing.text
    IN
    /\ Len(x) <= FtMaxExcerpts /\ Characters(x) <= FtBudget
    /\ \A i \in DOMAIN x : \A s \in x[i].signals :
         \/ Quotes(x[i], s, text)
         \/ \E p \in FindSignalHits(text, s) :
              NoWordEnds(p, s) /\ EvidenceWindow(p) = [start |-> x[i].start, end |-> x[i].end]
    /\ \A s \in UNION {text[p] : p \in Words} :
         \/ \E i \in DOMAIN x : s \in x[i].signals
         \/ Len(x) = FtMaxExcerpts /\ Cardinality(UNION {x[i].signals : i \in DOMAIN x}) >= FtMaxExcerpts
         \/ LET w == EvidenceWindow(Min(FindSignalHits(text, s))) IN
            Characters(x) + w.end - w.start > FtBudget

(* A parsed filing becomes a receipt or is refused for a reason in its text: *)
(* two values for one amount, a date or rate a term of it cannot hold, one   *)
(* excerpt behind two terms, an excerpt of too many signals.  The parsers    *)
(* never build a term that says of its proceeds what its amounts do not.  A  *)
(* receipt can be read back, has terms, each read from one value within its  *)
(* range, and MULTI_INSTRUMENT of several alone (FinancingTerm,              *)
(* FinancingFilingReceipt, financing_convergence_decision).                  *)
RefusalsHaveACause ==
  financing.op = "terms" =>
    LET bundle == financing.bundle
        Unheld(t) == LET p == FinancingParsers[t.instrument] IN
                     \E q \in p.must \cup p.may : q \in bundle.invalid /\ bundle.patterns[q] # {}
    IN
    /\ \A t \in financing.terms : TermIsClosed(t)
    /\ financing.result = "refused" =>
         ~TermsShareNothing(financing.terms) \/ ~bundle.fits \/ \E t \in financing.terms : Unheld(t)
    /\ financing.result = "receipt" =>
         /\ bundle.fits /\ financing.terms # {} /\ ~\E t \in financing.terms : Unheld(t)
         /\ financing.context = "MULTI_INSTRUMENT" => Cardinality(financing.terms) > 1
         /\ \A t \in financing.terms : \A q \in FinancingParsers[t.instrument].must :
              Cardinality({m.value : m \in bundle.patterns[q]}) = 1

(* Every excerpt shows what it was cut for, every term rests on excerpts of  *)
(* its own, and a filing is refused only for what its text says              *)
(* (extract_financing_evidence, parse_financing_terms).                      *)
FinancingIsTraceable == EverySignalIsQuoted /\ RefusalsHaveACause

=============================================================================
