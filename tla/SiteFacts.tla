----------------------------- MODULE SiteFacts ------------------------------
(* A project's site (sida/experts/site/site_facts.py and its API): parcels  *)
(* looked up as one site, with the ordinance, the articles behind the       *)
(* building limits and the planned uses, kept in site_facts.json; what the  *)
(* designer chose of it; and the experts that are told of it (hooks.py of   *)
(* the domains, experts/__init__.py).                                       *)
(*                                                                          *)
(* Each handler reads the whole file, asks the services and writes the      *)
(* whole file, without a lock.  A step is what happens between two uses of  *)
(* what the threads share.                                                  *)
EXTENDS PublicData, Sequences, SequencesExt

CONSTANTS
    Requests,     \* threads that serve requests
    Job,          \* the thread of a conversation job
    Sites,        \* sequences of parcels the designer may choose
    UseNames,     \* planned uses
    MaxRequests,  \* bound: requests and expert runs begun
    MaxRuns,      \* bound: expert runs begun, which leave the file alone
    MaxFailures   \* bound: failed calls, refused writes and restarts

Threads == Requests \cup {Job}

ASSUME SiteAssumption ==
    /\ Job \notin Requests
    /\ \A s \in Sites : s # <<>> /\ s \in Seq(Parcels) /\ IsInjective(s)
    /\ MaxRequests \in Nat /\ MaxRuns \in Nat /\ MaxFailures \in Nat

NoOrdinance == [body |-> NoName, of |-> {}, name |-> NoName, articles |-> FALSE, figure |-> "none",
                related |-> {}, dismissed |-> {}, detailed |-> {}]
NoFacts == [parcels |-> <<>>, zones |-> {}, chars |-> {}, missing |-> {},
            ordinance |-> NoOrdinance, restrictions |-> "known", limits |-> {}, uses |-> {}]

VARIABLES
    file,      \* site_facts.json
    problem,   \* _last_problem: why the last retrieval gave nothing
    pc, own,   \* where each thread is, and what it has read
    requests, runs, failures,  \* counts for the bounds
    picked,    \* history: choices the designer made, with their ordinance
    alone      \* history: searches that no other search overlapped

vars == <<file, problem, pc, own, requests, runs, failures, picked, alone>>
counts == <<requests, runs>>

Idle == [facts |-> NoFacts, left |-> <<>>, problem |-> "none"]

Init ==
    /\ file = NoFacts /\ problem = "none"
    /\ pc = [t \in Threads |-> "idle"] /\ own = [t \in Threads |-> Idle]
    /\ requests = 0 /\ runs = 0 /\ failures = 0 /\ picked = {} /\ alone = {}

Goto(t, step) == pc' = [pc EXCEPT ![t] = step]
Return(t)     == Goto(t, "idle") /\ own' = [own EXCEPT ![t] = Idle]
Failing(n)    == failures + n <= MaxFailures /\ failures' = failures + n
Lost(outcome) == IF outcome \in {"failed", "hidden"} THEN 1 ELSE 0

Begin(t) ==
    /\ t \in Requests /\ pc[t] = "idle" /\ requests + runs < MaxRequests
    /\ requests' = requests + 1
    /\ UNCHANGED runs

\* save_facts: the whole file is replaced, or the write fails.
SaveFacts(facts, failed) ==
    IF failed = 0 THEN file' = facts ELSE UNCHANGED file
----------------------------------------------------------------------------
(* What is said of a site.                                                  *)

\* parcel_zoning: what the land-use rows say, a statutory zone or none; what
\* the land characteristics say only if there are no rows.
ParcelZoned(f, p) == IF p \in f.zones THEN p \in Zoning ELSE p \in f.chars \cap Recorded

\* summarize: the zoning of the parcels as one site.
Zoned(f) == {p \in ToSet(f.parcels) : ParcelZoned(f, p)}

\* municipality of the first parcel's address.
Municipality(f) == Body[Head(f.parcels)]

\* zone_codes_by_area: of the rows, those the parcel lies in and has a code of.
ZoneCodes(f) == f.zones \cap Coded
----------------------------------------------------------------------------
(* Looking a site up (PUT /site).                                           *)

\* The parcels of an address, or parcels by number; each must be among the
\* hits, or exist.
FindParcels(t) ==
    /\ Begin(t)
    /\ \E outcome \in Search \cup ParcelByPnu :
         /\ Failing(Lost(outcome))
         /\ IF outcome = "rows"
              THEN /\ \E s \in Sites :
                        own' = [own EXCEPT ![t].left = s, ![t].facts.parcels = s]
                   /\ Goto(t, "parcel")
              ELSE UNCHANGED <<pc, own>>
    /\ UNCHANGED <<file, problem, picked, alone>>

\* lookup_parcel: failed calls are recorded, not raised; the shape is no fact.
LookUpParcel(t) ==
    LET p == Head(own[t].left)
    IN  /\ pc[t] = "parcel"
        /\ \E u \in LandUse(p), c \in Characteristics(p), b \in Buildings :
             /\ Failing(Lost(u) + Lost(c) + Lost(b))
             /\ own' = [own EXCEPT
                  ![t].left = Tail(@),
                  ![t].facts.zones   = @ \cup {x \in {p} : u = "rows"},
                  ![t].facts.chars   = @ \cup {x \in {p} : c = "rows"},
                  ![t].facts.missing = @ \cup {<<p, w[1]>> : w \in {x \in
                      {<<"land_use", u>>, <<"characteristics", c>>, <<"buildings", b>>} :
                          x[2] = "failed"}}]
        /\ Goto(t, IF Len(own[t].left) = 1 THEN "previous" ELSE "parcel")
        /\ UNCHANGED <<file, problem, counts, picked, alone>>

\* refresh takes over the saved ordinance and the names of the saved uses.
LoadPrevious(t) ==
    /\ pc[t] = "previous"
    /\ own' = [own EXCEPT ![t].facts.ordinance = file.ordinance, ![t].facts.uses = file.uses]
    /\ Goto(t, "attach")
    /\ UNCHANGED <<file, problem, counts, failures, picked, alone>>

\* Mutant of CarriedOver: whichever ordinance it was.
CarriedByLabel(labels, before, found) == labels \cap found.related

\* What the designer chose stays when the same ordinance is found again.
CarriedOver(labels, before, found) ==
    {x \in labels : before.name = found.name /\ x \in found.related}

\* The ordinance found for the site, with the choices that still stand.
OrdinanceOf(f, found) ==
    [name |-> found.name, articles |-> found.articles, figure |-> found.figure,
     related |-> found.related, body |-> Municipality(f), of |-> Zoned(f),
     dismissed |-> CarriedOver(f.ordinance.dismissed, f.ordinance, found),
     detailed  |-> CarriedOver(f.ordinance.detailed, f.ordinance, found)]

\* Mutant of AttachOrdinance: without zoning the earlier ordinance is left.
AttachOrKeep(f, found) ==
    IF Zoned(f) = {} THEN f.ordinance ELSE OrdinanceOf(f, found)

\* attach_ordinance: "an older site's ordinance must not linger".
AttachOrdinance(f, found) ==
    IF Zoned(f) = {} THEN NoOrdinance ELSE OrdinanceOf(f, found)

\* use_check: the rules of each zone for one use; one failure fails them all.
UseCheck(f, name, outcome) ==
    [name |-> name, of |-> ZoneCodes(f), known |-> outcome = "rows"]

\* attach_restrictions; and the uses of the earlier site are checked again.
AttachLimits(f, laws, rules) ==
    [f EXCEPT !.restrictions = IF laws = "failed" THEN laws ELSE "known", !.limits = ZoneCodes(f),
              !.uses = {UseCheck(f, u.name, rules) : u \in f.uses}]

\* The slow part, then the file.
AttachAndSave(t) ==
    LET f == own[t].facts
    IN  /\ pc[t] = "attach"
        /\ \E found \in IF Zoned(f) = {} THEN {NotFound} ELSE Ordinance(Municipality(f)),
              laws \in ZoneLaws(ZoneCodes(f)), rules \in UseRules(ZoneCodes(f)), failed \in 0..1 :
             /\ Failing(failed + Lost(laws) + (IF f.uses = {} THEN 0 ELSE Lost(rules))
                        + (IF Zoned(f) # {} /\ ~found.articles THEN 1 ELSE 0))
             /\ SaveFacts(AttachLimits([f EXCEPT !.ordinance = AttachOrdinance(f, found)],
                                       laws, rules), failed)
        /\ Return(t)
        /\ UNCHANGED <<problem, counts, picked, alone>>

LookUp(t) ==
    \/ FindParcels(t) \/ LookUpParcel(t) \/ LoadPrevious(t)
    \/ AttachAndSave(t)
----------------------------------------------------------------------------
(* The designer's changes.  Each begins with load_facts.                    *)

\* check_use: the name must be one the service knows; the file read before the
\* service was asked is what is saved.
BeginCheckUse(t) ==
    /\ Begin(t) /\ file # NoFacts
    /\ own' = [own EXCEPT ![t].facts = file]
    /\ Goto(t, "check_use")
    /\ UNCHANGED <<file, problem, failures, picked, alone>>

CheckUse(t) ==
    LET f == own[t].facts
    IN  /\ pc[t] = "check_use"
        /\ \E known \in SearchUses, name \in UseNames, rules \in UseRules(ZoneCodes(f)) :
             /\ IF known = "rows"
                  THEN /\ Failing(Lost(rules))
                       /\ SaveFacts([f EXCEPT !.uses = {u \in @ : u.name # name}
                                                \cup {UseCheck(f, name, rules)}], 0)
                  ELSE Failing(Lost(known)) /\ UNCHANGED file
        /\ Return(t)
        /\ UNCHANGED <<problem, counts, picked, alone>>

RemoveUse(t) ==
    /\ Begin(t)
    /\ \E u \in file.uses : own' = [own EXCEPT ![t].facts = [file EXCEPT !.uses = @ \ {u}]]
    /\ Goto(t, "save")
    /\ UNCHANGED <<file, problem, failures, picked, alone>>

Toggled(set, x, on) == IF on THEN set \cup {x} ELSE set \ {x}

\* set_option: one related article hidden, or asked for in full, or not.
SetOption(t) ==
    /\ Begin(t)
    /\ \E x \in file.ordinance.related, on \in BOOLEAN, key \in {"dismissed", "detailed"} :
         /\ own' = [own EXCEPT ![t].facts = [file EXCEPT !.ordinance[key] = Toggled(@, x, on)]]
         /\ picked' = IF on THEN picked \cup {<<file.ordinance.name, key, x>>} ELSE picked
    /\ Goto(t, "save")
    /\ UNCHANGED <<file, problem, failures, alone>>

SaveChange(t) ==
    /\ pc[t] = "save"
    /\ SaveFacts(own[t].facts, 0) /\ Return(t)
    /\ UNCHANGED <<problem, counts, failures, picked, alone>>

Change(t) == BeginCheckUse(t) \/ CheckUse(t) \/ RemoveUse(t) \/ SetOption(t) \/ SaveChange(t)
----------------------------------------------------------------------------
(* What the experts are told.                                               *)

SiteWide(what) == {<<NoName, what>>}

\* _missing_lines: the failures recorded on the parcels, of the kinds asked.
MissingLines(f, kinds) == {m \in f.missing : m[2] \in kinds}

\* _parcel_line: a parcel without land characteristics says so itself.
ParcelLines(f) == {<<p, "characteristics">> : p \in ToSet(f.parcels) \ f.chars}

\* physical_lines: what they call unknown.
PhysicalLines(f) == ParcelLines(f) \cup MissingLines(f, {"characteristics", "buildings"})

\* restriction_lines.
RestrictionLines(f) == IF f.restrictions = "failed" THEN SiteWide("restrictions") ELSE {}

\* use_lines: no use was asked for, or nothing is known of one.
UseLines(f) ==
    IF f.uses = {} \/ (\E u \in f.uses : ~u.known) THEN SiteWide("uses") ELSE {}

\* _ordinance_line: no ordinance, or none with articles on the ratios.
OrdinanceLine(f) == IF f.ordinance.articles THEN {} ELSE SiteWide("ordinance")

\* _figure_text: a figure that was not read is called unknown and quoted.
FigureText(figure) == IF figure = "figure" THEN {} ELSE SiteWide("figure")

\* _ordinance_value_lines: none without articles.
OrdinanceValueLines(f) == IF f.ordinance.articles THEN FigureText(f.ordinance.figure) ELSE {}

\* Mutant of RegulatoryLines: figures in place of the articles.
FiguresOnly(f) ==
    (IF Zoned(f) = {} THEN SiteWide("zoning") ELSE OrdinanceValueLines(f))
    \cup UseLines(f) \cup RestrictionLines(f) \cup MissingLines(f, {"land_use", "buildings"})

\* regulatory_lines: the ordinance is spoken of when there is zoning.
RegulatoryLines(f) ==
    (IF Zoned(f) = {} THEN SiteWide("zoning") ELSE OrdinanceLine(f) \cup OrdinanceValueLines(f))
    \cup UseLines(f) \cup RestrictionLines(f) \cup MissingLines(f, {"land_use", "buildings"})

\* facts_block: what it says is unknown.
FactsBlock(f, kind) == IF kind = "regulatory" THEN RegulatoryLines(f) ELSE PhysicalLines(f)

\* ordinance_options: the articles on a district the site lies in, by the
\* district rows of its parcels and the text of the ordinance.
Applying(f) ==
    LET body == f.ordinance.body
    IN  {x \in Local[body] : f.zones \cap Within[body][x] # {}}

\* ordinance_text: of the articles that are not hidden, those on districts are
\* given in full when the site lies there and else left out, whatever was asked
\* for; of the others the titles, and the text where it was asked for.
OrdinanceText(f) ==
    LET shown  == f.ordinance.related \ f.ordinance.dismissed
        others == shown \ Local[f.ordinance.body]
    IN  IF f.ordinance.articles
          THEN [titles |-> others,
                texts  |-> (shown \cap Applying(f)) \cup (others \cap f.ordinance.detailed)]
          ELSE [titles |-> {}, texts |-> {}]

Searching(t) == pc[t] \in {"passages", "warn"}

\* focus_queries: without zoning and without a usable line of the brief there
\* is no question; only the regulation checker has a collection.
Questions(kind) ==
    CASE kind = "physical" -> {"none"}
      [] kind = "regulatory" /\ Zoned(file) = {} -> {"asked", "no_query"}
      [] OTHER -> {"asked"}

\* Mutant of Retrieve: the last problem is left when nothing is asked.
RetrieveOnly(t, kind) ==
    /\ \E question \in Questions(kind) :
         /\ problem' = CASE question = "asked" -> "none" [] question = "no_query" -> question
                         [] question = "none" -> problem
         /\ own' = [own EXCEPT ![t].problem = IF question = "no_query" THEN question ELSE "none"]
         /\ Goto(t, IF question = "asked" THEN "passages" ELSE "warn")
    /\ alone' = {u \in {t} : ~\E other \in Threads \ {t} : Searching(other)}

\* retrieve_for_agent, retrieve_passages: the last problem is forgotten first.
Retrieve(t, kind) ==
    /\ \E question \in Questions(kind) :
         /\ problem' = IF question = "no_query" THEN question ELSE "none"
         /\ own' = [own EXCEPT ![t].problem = problem']
         /\ Goto(t, IF question = "asked" THEN "passages" ELSE "warn")
    /\ alone' = {u \in {t} : ~\E other \in Threads \ {t} : Searching(other)}

\* An expert of a conversation job.  The Conductor does not choose the site
\* reader before a site was looked up (run_needs), the designer may.
BeginRun(t) ==
    /\ t = Job /\ pc[t] = "idle" /\ runs < MaxRuns /\ requests + runs < MaxRequests
    /\ runs' = runs + 1
    /\ \E kind \in {"physical", "regulatory"}, by_designer \in BOOLEAN :
         /\ kind = "physical" /\ ~by_designer => file # NoFacts
         /\ Retrieve(t, kind)
    /\ UNCHANGED <<file, requests, failures, picked>>

\* search_law asks for the designer, with no project.
BeginSearch(t) ==
    /\ Begin(t) /\ Retrieve(t, "search")
    /\ UNCHANGED <<file, failures, picked>>

\* diagnose_retrieval: why nothing was found.
Diagnose(t) ==
    /\ pc[t] = "passages"
    /\ \E outcome \in LawSearch :
         /\ Failing(Lost(outcome))
         /\ problem' = IF outcome = "rows" THEN "none" ELSE outcome
         /\ own' = [own EXCEPT ![t].problem = problem']
    /\ Goto(t, "warn")
    /\ UNCHANGED <<file, counts, picked, alone>>

\* last_retrieval_warning, for the designer.
Warn(t) ==
    /\ pc[t] = "warn"
    /\ Return(t)
    /\ UNCHANGED <<file, problem, counts, failures, picked, alone>>

Run(t) ==
    \/ BeginRun(t) \/ BeginSearch(t) \/ Diagnose(t) \/ Warn(t)
----------------------------------------------------------------------------
\* The server stops and starts: what was in memory is gone.
Restart ==
    /\ Failing(1)
    /\ problem' = "none" /\ alone' = {}
    /\ pc' = [t \in Threads |-> "idle"] /\ own' = [t \in Threads |-> Idle]
    /\ UNCHANGED <<file, counts, picked>>

Next ==
    \/ \E t \in Threads : LookUp(t) \/ Change(t) \/ Run(t)
    \/ Restart

Spec == Init /\ [][Next]_vars
----------------------------------------------------------------------------
(* Properties.                                                              *)

TypeOK ==
    /\ file.parcels \in Sites \cup {<<>>}
    /\ problem \in Answers \cup {"no_query"}
    /\ failures \in 0..MaxFailures /\ alone \subseteq Threads

\* Every part of the saved site is of the site's own parcels, however lookups,
\* checks of uses and choices overlap and whatever fails: the ordinance is of
\* the body and the zones there are now, the articles behind the limits and
\* every checked use of the zones there are now, each use once.
PartsAgree ==
    /\ TypeOK
    /\ LET o == file.ordinance
       IN  o # NoOrdinance => /\ Zoned(file) # {} /\ o.of = Zoned(file)
                              /\ o.body = Municipality(file)
                              /\ o.name \in {Title[o.body], NoName}
    /\ file.limits = ZoneCodes(file)
    /\ \A u, v \in file.uses : u.of = ZoneCodes(file) /\ (u.name = v.name => u = v)

\* A choice about an article does not come to stand for the article of the same
\* number in an ordinance of another name, wherever the site moves: the designer
\* once hid, or asked for, this label while an ordinance of the saved name was on
\* file, and an expert is given the text of no other article unless the site lies
\* in its district.  Names are all the code compares (site_facts.py:137-141): the
\* choices do pass between two bodies whose ordinances have one name.
ChoicesAreOfThisOrdinance ==
    LET o == file.ordinance
    IN  /\ \A key \in {"dismissed", "detailed"} : \A x \in o[key] : <<o.name, key, x>> \in picked
        /\ \A x \in OrdinanceText(file).texts :
              <<o.name, "detailed", x>> \in picked \/ x \in Applying(file)

\* "Failed calls are recorded" and "shown as unknown": an expert run that
\* reads the file now is told of every recorded failure of its part of the
\* site, and of zoning, an ordinance, a ratio or a use that nothing is known of.
SaysWhatIsUnknown ==
    file # NoFacts =>
        LET said == FactsBlock(file, "regulatory")
            has(what) == \E m \in said : m[2] = what
        IN  /\ {m \in file.missing : m[2] # "land_use"} \subseteq FactsBlock(file, "physical")
            /\ {m \in file.missing : m[2] # "characteristics"} \subseteq said
            /\ file.ordinance.figure # "figure" => has("zoning") \/ has("ordinance") \/ has("figure")
            /\ file.restrictions = "failed" => has("restrictions")
            /\ (\A u \in file.uses : ~u.known) => has("uses")

\* A search that no other search overlaps warns of its own problem, and an
\* expert without a collection of nothing: "stale warning must not leak to
\* other experts".
WarnsOfItsOwnProblem ==
    \A t \in alone : pc[t] = "warn" => problem = own[t].problem

\* "Looking the same site up again keeps what the designer hid" (the API's
\* page and its test): a lookup of the parcels that are saved does not change
\* the hidden articles.
ChoicesSurviveLookup ==
    [][\A t \in Requests :
         pc[t] = "attach" /\ file' # file /\ file'.parcels = file.parcels
           => file.ordinance.dismissed \subseteq file'.ordinance.dismissed]_vars
=============================================================================
