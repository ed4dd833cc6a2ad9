---------------------------- MODULE AccountingEvents ----------------------------
(***************************************************************************)
(* Deterministic accounting and compliance events (forensics/accounting.py  *)
(* and providers/sec/accounting.py): the sentences of a filing that carry a *)
(* supported signal become bounded evidence, the evidence becomes one event *)
(* per kind, and each event is compared with what earlier filings of the    *)
(* issuer disclosed, as two worker processes get to know them.              *)
(* A text is a sequence of characters, of which the model tells apart the   *)
(* ends of sentences, the headings of items and the phrases that count.      *)
(***************************************************************************)
EXTENDS Integers, FiniteSets, FiniteSetsExt, Functions, Sequences

CONSTANTS
  AcLength,           (* bound: characters of a text                         *)
  AcLate,             (* characters read before the phrase of a late notice  *)
  AcOpening,          (* characters taken for the heading of a region        *)
  AcLookBack,         (* characters of a window before its phrase            *)
  AcLookAhead,        (* characters of a window after its phrase             *)
  AcWindow,           (* MAXIMUM_ACCOUNTING_EVIDENCE_CHARACTERS              *)
  AcMaxEvidence,      (* MAXIMUM_ACCOUNTING_EVIDENCE                         *)
  AcBudget,           (* MAXIMUM_TOTAL_ACCOUNTING_EVIDENCE_CHARACTERS        *)
  AcDisclosed,        (* per filing, in the order of acceptance, the         *)
                      (* fingerprint of its event of each kind, 0 for none   *)
  AcWorker,           (* worker processes                                    *)
  AcPriorLimit,       (* limit of prior_receipts                             *)
  MaxAcClock          (* bound: retrievals                                   *)

(* A phrase lies within its window: 220 characters before it and the longest *)
(* phrase are less than 900.                                                 *)
ASSUME AccountingAssumption ==
  /\ {AcLength, AcOpening, AcWindow, AcMaxEvidence, AcBudget, AcPriorLimit, MaxAcClock}
       \subseteq Nat \ {0}
  /\ {AcLate, AcLookBack, AcLookAhead} \subseteq Nat /\ AcLookBack < AcWindow
  /\ AcDisclosed # <<>> /\ AcDisclosed \in Seq([DOMAIN AcDisclosed[1] -> Nat])

VARIABLES
  accounting,         (* the extraction in progress                          *)
  acReceipts,         (* research_accounting_receipts, by accession          *)
  acStep,             (* what each worker is doing                           *)
  acClock             (* time of the latest retrieval                        *)

accountingVars == <<accounting, acReceipts, acStep, acClock>>

NoAccounting == [op |-> "none"]

-----------------------------------------------------------------------------
(* Evidence: extract_accounting_evidence *)

(* Bound: of the items one with a notice of each of two kinds, and one the   *)
(* parser ignores; of the signals one per kind of event.  A heading, a       *)
(* phrase and the end of a sentence have one character each, and every       *)
(* character is a word; what a form does not read is "text" to it.           *)
AcItem == {"3.01", "4.02", "1.01"}
AcSignal == {"delisting", "material weakness"}
AcForm == {"8-K", "NT 10-K", "10-K"}

AcCharacters(form) ==
  {"text", "stop", "semicolon"} \cup
    CASE form = "8-K" -> AcItem \cup AcSignal
      [] form = "NT 10-K" -> {"unable to file", "material weakness"}
      [] OTHER -> {"material weakness"}

(* _EVENT_BY_SIGNAL                                                          *)
EventBySignal(s) ==
  CASE s \in {"item 3.01", "delisting"} -> "LISTING_COMPLIANCE"
    [] s = "item 4.02" -> "NON_RELIANCE_RESTATEMENT"
    [] s = "late filing" -> "LATE_FILING"
    [] s = "material weakness" -> "INTERNAL_CONTROLS"

(* _signal_allowed                                                           *)
SignalAllowed(s, form, item) ==
  EventBySignal(s) \in
    CASE item = "3.01" -> {"LISTING_COMPLIANCE"}
      [] item = "4.02" -> {"NON_RELIANCE_RESTATEMENT", "INTERNAL_CONTROLS"}
      [] form = "NT 10-K" -> {"LATE_FILING", "INTERNAL_CONTROLS"}
      [] OTHER -> {"INTERNAL_CONTROLS"}

(* _regions: of an 8-K, the longest stretch under each supported item; of a  *)
(* late notice, everything from some way before the phrase; of a periodic    *)
(* report, everything.                                                       *)
Stretches(text, item) ==
  {r \in [from : DOMAIN text, to : DOMAIN text, item : {item},
          base : {IF item = "3.01" THEN "item 3.01" ELSE "item 4.02"}] :
     /\ text[r.from] = item /\ r.from <= r.to
     /\ \A k \in (r.from + 1)..r.to : text[k] \notin AcItem
     /\ r.to < Len(text) => text[r.to + 1] \in AcItem}

LongestStretch(stretches) ==
  CHOOSE r \in stretches : \A q \in stretches :
    \/ q.to - q.from < r.to - r.from
    \/ q.to - q.from = r.to - r.from /\ r.from <= q.from

Regions(text, form) ==
  CASE form = "8-K" ->
         {LongestStretch(Stretches(text, item)) :
            item \in {n \in {"3.01", "4.02"} : Stretches(text, n) # {}}}
    [] form = "NT 10-K" ->
         LET late == {i \in DOMAIN text : text[i] = "unable to file"} IN
         IF late = {} THEN {}
         ELSE {[from |-> Max({1, Min(late) - AcLate}), to |-> Len(text), item |-> "none",
                base |-> "late filing"]}
    [] OTHER -> {[from |-> 1, to |-> Len(text), item |-> "none", base |-> "none"]}

(* _evidence_window: from the sentence the hit begins in to the end of the   *)
(* one it ends in, as far as the region and the reach of a window go.        *)
HitWindow(text, hit, last, r) ==
  LET lower == Max({r.from, hit - AcLookBack})
      before == {i \in lower..(hit - 1) : text[i] \in {"stop", "semicolon"}}
      start == IF before = {} THEN lower ELSE Max(before) + 1
      upper == Min({r.to, last + AcLookAhead})
      after == {i \in (last + 1)..upper : text[i] = "stop"}
      end == IF after = {} THEN upper ELSE Min(after)
  IN [start |-> start, end |-> Min({end, start + AcWindow - 1})]

WindowSize(w) == w.end - w.start + 1

(* The heading of a region, and the first phrase in it of each signal that   *)
(* is allowed there.                                                         *)
Hits(text, form) ==
  UNION {
    (IF r.base = "none" THEN {}
     ELSE {[window |-> HitWindow(text, r.from, Min({r.to, r.from + AcOpening - 1}), r),
            signal |-> r.base]})
      \cup {LET p == Min({i \in r.from..r.to : text[i] = s}) IN
            [window |-> HitWindow(text, p, p, r), signal |-> s] :
              s \in {t \in AcSignal : /\ SignalAllowed(t, form, r.item)
                                      /\ \E i \in r.from..r.to : text[i] = t}}
    : r \in Regions(text, form)}

(* In the order of the text while the limits allow; a window that does not   *)
(* fit is passed over, and a later one may fit.                              *)
Precedes(v, w) == v.start < w.start \/ (v.start = w.start /\ v.end < w.end)

RetainedCharacters(windows) == SumFunctionOnSet([w \in windows |-> WindowSize(w)], windows)

HasRoom(windows, w) ==
  LET before == {v \in windows : Precedes(v, w)} IN
  /\ Cardinality(before) < AcMaxEvidence
  /\ RetainedCharacters(before) + WindowSize(w) <= AcBudget

CountsPassedOver(windows) == {w \in windows : HasRoom(windows, w)}
KeptWindows(windows) ==
  CHOOSE kept \in SUBSET windows : \A w \in windows : w \in kept <=> HasRoom(kept, w)

Evidence(text, form) ==
  LET hits == Hits(text, form) IN
  [w \in KeptWindows({h.window : h \in hits}) |-> {h.signal : h \in {g \in hits : g.window = w}}]

(* build_accounting_filing_receipt: one event per kind, _event_signals       *)
EventSignals(kind, evidence) ==
  {s \in UNION Range(evidence) : EventBySignal(s) = kind}

EventsOf(evidence) ==
  LET kinds == {EventBySignal(s) : s \in UNION Range(evidence)} IN
  [k \in kinds |->
     [signals |-> EventSignals(k, evidence),
      evidence |-> {w \in DOMAIN evidence : \E s \in evidence[w] : EventBySignal(s) = k}]]

(* AccountingFilingReceipt.source_events_and_identity_reconcile and          *)
(* choose_accounting_tier: a receipt without events is not made.             *)
ExtractAccountingEvidence(text, form) ==
  LET evidence == Evidence(text, form) IN
  /\ accounting' = [op |-> "extract", text |-> text, form |-> form, evidence |-> evidence,
                    events |-> EventsOf(evidence),
                    result |-> IF DOMAIN EventsOf(evidence) = {} THEN "no_events" ELSE "receipt"]
  /\ UNCHANGED <<acReceipts, acStep, acClock>>

AccountingReturn ==
  /\ accounting # NoAccounting
  /\ accounting' = NoAccounting
  /\ UNCHANGED <<acReceipts, acStep, acClock>>

-----------------------------------------------------------------------------
(* Comparison with earlier disclosures *)

AcFiling == DOMAIN AcDisclosed
AcKind == DOMAIN AcDisclosed[1]
AcIdle == [at |-> "idle"]
AcNone == [at |-> 0]

(* accounting_filing_from_submissions: what the issuer's submissions say of  *)
(* the accession.  Only one aligned HTML row of a supported form is used.    *)
SubmissionRow == {"one row", "no row", "repeated", "misaligned", "other issuer", "not html",
                  "unsupported"}

(* AccountingWorker._resolve_receipt: the submissions are retrieved, then    *)
(* the earlier receipts are read; a filing is claimed by one worker.         *)
FetchSubmissions(w, f, row) ==
  /\ acStep[w] = AcIdle /\ acReceipts[f] = AcNone
  /\ \A v \in AcWorker : acStep[v] # AcIdle => acStep[v].filing # f
  /\ acClock < MaxAcClock
  /\ acClock' = acClock + 1
  /\ acStep' = IF row # "one row" THEN acStep
               ELSE [acStep EXCEPT ![w] = [at |-> "submissions", filing |-> f, time |-> acClock + 1]]
  /\ UNCHANGED <<accounting, acReceipts>>

(* Which stored receipts may be compared with filing f retrieved at time t.  *)
MayParticipate(g, f, t) == acReceipts[g] # AcNone /\ g < f /\ acReceipts[g].at <= t

PriorReceipts(f, t) ==
  LET known == {g \in AcFiling : MayParticipate(g, f, t)} IN
  {g \in known : Cardinality({h \in known : h > g}) < AcPriorLimit}

ReadPriorReceipts(w) ==
  /\ acStep[w].at = "submissions"
  /\ acStep' = [acStep EXCEPT ![w] = [at |-> "document", filing |-> acStep[w].filing,
                                      prior |-> PriorReceipts(acStep[w].filing, acStep[w].time)]]
  /\ UNCHANGED <<accounting, acReceipts, acClock>>

(* An exact prior if there is one, the latest otherwise.  The worker never   *)
(* claims that its search of the past was complete.                          *)
CompareEvent(f, kind, prior) ==
  LET related == {g \in prior : AcDisclosed[g][kind] # 0}
      exact == {g \in related : AcDisclosed[g][kind] = AcDisclosed[f][kind]}
  IN CASE exact # {} -> [comparison |-> "REPEATED_DISCLOSURE", prior |-> Max(exact)]
       [] exact = {} /\ related # {} -> [comparison |-> "CHANGED_DISCLOSURE", prior |-> Max(related)]
       [] OTHER -> [comparison |-> "PRIOR_COMPARISON_UNAVAILABLE", prior |-> 0]

(* The document is retrieved, and the receipt stored with the completion of  *)
(* the job.                                                                  *)
AppendReceipt(w) ==
  LET f == acStep[w].filing
      t == acClock + 1
      prior == {g \in acStep[w].prior : MayParticipate(g, f, t)}
  IN
  /\ acStep[w].at = "document" /\ acClock < MaxAcClock
  /\ acClock' = t
  /\ acReceipts' = [acReceipts EXCEPT ![f] =
       [at |-> t, read |-> acStep[w].prior,
        events |-> [k \in {k \in AcKind : AcDisclosed[f][k] # 0} |-> CompareEvent(f, k, prior)]]]
  /\ acStep' = [acStep EXCEPT ![w] = AcIdle]
  /\ UNCHANGED accounting

(* A failure or a crash: the job is claimed again later.                     *)
AccountingFails(w) ==
  /\ acStep[w] # AcIdle
  /\ acStep' = [acStep EXCEPT ![w] = AcIdle]
  /\ UNCHANGED <<accounting, acReceipts, acClock>>

AccountingInit ==
  /\ accounting = NoAccounting
  /\ acReceipts = [f \in AcFiling |-> AcNone]
  /\ acStep = [w \in AcWorker |-> AcIdle]
  /\ acClock = 0

AccountingNext ==
  \/ AccountingReturn
  \/ /\ accounting = NoAccounting /\ acClock = 0 /\ \A w \in AcWorker : acStep[w] = AcIdle
     /\ \E n \in 1..AcLength, form \in AcForm : \E text \in [1..n -> AcCharacters(form)] :
          ExtractAccountingEvidence(text, form)
  \/ /\ accounting = NoAccounting
     /\ \E w \in AcWorker :
          \/ \E f \in AcFiling, row \in SubmissionRow : FetchSubmissions(w, f, row)
          \/ ReadPriorReceipts(w)
          \/ AppendReceipt(w)
          \/ AccountingFails(w)

AccountingSpec == AccountingInit /\ [][AccountingNext]_accountingVars

-----------------------------------------------------------------------------
(* Properties *)

AccountingTypeOK ==
  /\ acClock \in 0..MaxAcClock
  /\ DOMAIN acReceipts = AcFiling /\ DOMAIN acStep = AcWorker

(* The limits hold, and what is left out of the evidence would not fit after *)
(* all that was kept.  A notice is an event that cites the heading of its    *)
(* item, or what is read around the phrase of a late notice, unless so much  *)
(* was kept that a window may not fit.  Every other signal is quoted in the  *)
(* window kept for it, and no event is of a kind its item or form does not   *)
(* allow (_regions, _signal_allowed, extract_accounting_evidence).           *)
NoticesAreEvents(text, form, evidence, events) ==
  LET kinds == DOMAIN events
      Mentions(mark) == \E i \in DOMAIN text : text[i] = mark
      Cites(w, s) == LET k == EventBySignal(s) IN
                     s \in evidence[w] /\ k \in kinds /\ w \in events[k].evidence
      used == RetainedCharacters(DOMAIN evidence)
      many == Cardinality(DOMAIN evidence) = AcMaxEvidence
      full == many \/ used + AcWindow > AcBudget
  IN
  /\ Cardinality(DOMAIN evidence) <= AcMaxEvidence /\ used <= AcBudget
  /\ \A h \in Hits(text, form) :
       h.window \in DOMAIN evidence \/ many \/ used + WindowSize(h.window) > AcBudget
  /\ form = "8-K" /\ ~full => \A item \in {"3.01", "4.02"} : Mentions(item) =>
       \E w \in DOMAIN evidence :
         text[w.start] = item /\ Cites(w, IF item = "3.01" THEN "item 3.01" ELSE "item 4.02")
  /\ form = "NT 10-K" /\ ~full /\ Mentions("unable to file") =>
       \E w \in DOMAIN evidence : Cites(w, "late filing")
  /\ \A w \in DOMAIN evidence : \A s \in evidence[w] \cap AcSignal :
       \E i \in w.start..w.end : text[i] = s
  /\ "LISTING_COMPLIANCE" \in kinds => form = "8-K" /\ Mentions("3.01")
  /\ "NON_RELIANCE_RESTATEMENT" \in kinds => form = "8-K" /\ Mentions("4.02")
  /\ "LATE_FILING" \in kinds => form = "NT 10-K" /\ Mentions("unable to file")
  /\ form = "8-K" /\ ~Mentions("4.02") => "INTERNAL_CONTROLS" \notin kinds
  /\ \A k \in kinds : events[k].evidence # {} /\ events[k].signals # {}

(* So it is of every text an extraction reads.                               *)
NoticesBecomeEvents ==
  accounting.op = "extract" =>
    NoticesAreEvents(accounting.text, accounting.form, accounting.evidence, accounting.events)

(* A comparison only looks back: its prior was accepted before the filing    *)
(* and retrieved before the filing was, whatever the order in which two      *)
(* workers process them; a repeat has an equal fingerprint, a change says    *)
(* that no receipt it read had it, and the comparison is unavailable only if *)
(* none it read is about the kind (build_accounting_filing_receipt).         *)
ComparisonsLookBack ==
  \A f \in AcFiling : acReceipts[f] # AcNone =>
    \A k \in DOMAIN acReceipts[f].events :
      LET e == acReceipts[f].events[k]
          g == e.prior
          Same(h) == AcDisclosed[h][k] = AcDisclosed[f][k]
      IN
      /\ e.comparison # "PRIOR_COMPARISON_UNAVAILABLE" =>
           g < f /\ acReceipts[g].at < acReceipts[f].at /\ k \in DOMAIN acReceipts[g].events
      /\ e.comparison = "REPEATED_DISCLOSURE" => Same(g)
      /\ e.comparison = "CHANGED_DISCLOSURE" => ~\E h \in acReceipts[f].read : Same(h)
      /\ e.comparison = "PRIOR_COMPARISON_UNAVAILABLE" =>
           \A h \in acReceipts[f].read : AcDisclosed[h][k] = 0

(* An official notice becomes an event that cites it, and an event is        *)
(* compared with filings known before it (extract_accounting_evidence,       *)
(* build_accounting_filing_receipt).                                         *)
AccountingIsTraceable == NoticesBecomeEvents /\ ComparisonsLookBack
=============================================================================
