----------------------------- MODULE StatePatch -----------------------------
(* What a model's answer does to project_state.md and what the approval     *)
(* card says of it: sida/state_updater.py.  All of it is a function of the  *)
(* answer and the file.                                                     *)
(*                                                                          *)
(* A state file is its "- **Field**:" lines, its Module Status rows in a    *)
(* table or not, and its other "## " sections with their lines, in their    *)
(* order.  The revision comment is StateApproval's and left out here, as    *)
(* are comments, which every reader of a state drops.  A text is "" (none), *)
(* "options" (a template's "a | b"), or says something.                     *)
EXTENDS Integers, Sequences, FiniteSets, FiniteSetsExt, SequencesExt

CONSTANTS
    Modules,    \* the experts' ids
    Own,        \* the expert whose output the answer is about
    Caps,       \* SECTION_CAPS: headings the model may replace, with their caps
    Foreign,    \* other headings: a designer's, or one the model made up
    Sayings,    \* texts that say something
    Today,      \* the day of the proposal
    MaxItems    \* bound: items of one section in an answer

Statuses == {"pending", "in_progress", "done", "stale"}
MetaKeys == {"phase", "active_focus"}   \* what an answer may say of Meta
Texts_   == Sayings \cup {"", "options"}

ASSUME PatchAssumption ==
    /\ Own \in Modules /\ Caps \in [DOMAIN Caps -> Nat \ {0}]
    /\ Foreign \cap DOMAIN Caps = {}
    /\ {"", "options"} \cap Sayings = {} /\ Today \in Sayings /\ MaxItems \in Nat
----------------------------------------------------------------------------
(* Reading the answer.                                                      *)

\* _clean_bullets: no empty item, none twice, and as many as the cap allows.
CleanBullets(items, cap) ==
    LET out[n \in 0..Len(items)] ==
            IF n = 0 THEN <<>>
            ELSE IF items[n] = "" \/ items[n] \in Range(out[n - 1]) THEN out[n - 1]
            ELSE Append(out[n - 1], items[n])
        all == out[Len(items)]
    IN  SubSeq(all, 1, Min({cap, Len(all)}))

\* replace_section_bullets: the first section of that heading, or a new one at
\* the end.  An assignment to a dict, such as StatePatch.sections, does the same.
ReplaceSection(sections, section) ==
    LET at == {i \in DOMAIN sections : sections[i].heading = section.heading}
    IN  IF at = {} THEN Append(sections, section) ELSE [sections EXCEPT ![Min(at)] = section]

\* The sections of an answer that a patch keeps: of headings in SECTION_CAPS, and
\* not those whose list comes out empty.  patch.sections is a dict.
ReadSections(sections) ==
    LET read(s) == CleanBullets(s.items, Caps[s.heading])
        put[n \in 0..Len(sections)] ==
            IF n = 0 THEN <<>>
            ELSE LET s == sections[n]
                 IN  IF s.heading \notin DOMAIN Caps THEN put[n - 1]
                     ELSE IF read(s) = <<>> THEN put[n - 1]
                     ELSE ReplaceSection(put[n - 1], [heading |-> s.heading, items |-> read(s)])
    IN  put[Len(sections)]

\* parse_state_patch: what cannot be read says nothing and leaves "done"; an
\* unknown status counts as "done", and texts that are empty are dropped.
ParsePatch(answer) ==
    IF ~answer.readable
      THEN [status |-> "done", takeaway |-> "", meta |-> <<>>, sections |-> <<>>]
      ELSE [status   |-> IF answer.status \in Statuses THEN answer.status ELSE "done",
            takeaway |-> answer.takeaway,
            meta     |-> [k \in {k \in MetaKeys : answer.meta[k] # ""} |-> answer.meta[k]],
            sections |-> ReadSections(answer.sections)]
----------------------------------------------------------------------------
(* Applying it.                                                             *)

\* f where it says something, and g elsewhere.
Over(f, g) == [x \in DOMAIN f \cup DOMAIN g |-> IF x \in DOMAIN f THEN f[x] ELSE g[x]]

\* Mutant of UpdateRow: the table is written anew with the one row.
OneRow(state, status, takeaway) ==
    [state EXCEPT !.rows = [m \in {Own} |-> [status |-> status, takeaway |-> takeaway]]]

\* update_module_row: the expert's row is replaced, or added to the table when
\* there is one.  A "|" in the takeaway becomes a "/" and says something.
UpdateRow(state, status, takeaway) ==
    LET said == IF takeaway = "options" THEN CHOOSE s \in Sayings : TRUE ELSE takeaway
        row  == [m \in {Own} |-> [status |-> status, takeaway |-> said]]
    IN  IF Own \in DOMAIN state.rows \/ state.table
          THEN [state EXCEPT !.rows = Over(row, @)] ELSE state

\* update_meta_line: a field the file has not is left out.
UpdateMeta(state, fields) ==
    [state EXCEPT !.meta = [f \in DOMAIN @ |-> IF f \in DOMAIN fields THEN fields[f] ELSE @[f]]]

\* The loop over patch.sections: section after section is replaced.
ReplaceSections(sections, replaced) ==
    LET after[n \in 0..Len(replaced)] ==
            IF n = 0 THEN sections ELSE ReplaceSection(after[n - 1], replaced[n])
    IN  after[Len(replaced)]

\* apply_patch: the row, the fields and the date, and the sections.
ApplyPatch(state, patch) ==
    LET row  == UpdateRow(state, patch.status, patch.takeaway)
        meta == UpdateMeta(row, Over([f \in {"Last updated"} |-> Today], patch.meta))
    IN  [meta EXCEPT !.sections = ReplaceSections(@, patch.sections)]
----------------------------------------------------------------------------
(* The approval card.                                                       *)

\* _plain: a template's option list counts as empty.
Plain(text) == IF text = "options" THEN "" ELSE text

\* _state_parts: what a state says; of a heading that stands twice, the last
\* section.
StateParts(state) ==
    LET at(h) == {i \in DOMAIN state.sections : state.sections[i].heading = h}
    IN  [meta  |-> [f \in DOMAIN state.meta |-> Plain(state.meta[f])],
         rows  |-> [m \in DOMAIN state.rows |-> [state.rows[m] EXCEPT !.takeaway = Plain(@)]],
         items |-> [h \in DOMAIN Caps \cup Foreign |->
                      IF at(h) = {} THEN {}
                      ELSE {Plain(x) : x \in Range(state.sections[Max(at(h))].items)} \ {""}]]

\* state_changes: the fields and rows of the new state that read differently
\* from the old one's, and the lines added to and removed from its sections.
StateChanges(old, new) ==
    LET o == StateParts(old)
        n == StateParts(new)
    IN  [fields  |-> [f \in {f \in DOMAIN n.meta \ {"Last updated"} :
                              f \notin DOMAIN o.meta \/ o.meta[f] # n.meta[f]} |-> n.meta[f]],
         rows    |-> [m \in {m \in DOMAIN n.rows : m \notin DOMAIN o.rows \/ o.rows[m] # n.rows[m]}
                       |-> n.rows[m]],
         added   |-> [h \in DOMAIN n.items |-> n.items[h] \ o.items[h]],
         removed |-> [h \in DOMAIN n.items |-> o.items[h] \ n.items[h]]]
----------------------------------------------------------------------------
(* The property, over bounded states and answers.                           *)

\* What the file says outside the date, every section of a heading counted.
Says(state) ==
    [meta  |-> [f \in DOMAIN state.meta \ {"Last updated"} |-> Plain(state.meta[f])],
     rows  |-> StateParts(state).rows,
     lines |-> UNION {{<<s.heading, Plain(x)>> : x \in {x \in Range(s.items) : Plain(x) # ""}} :
                         s \in Range(state.sections)}]

\* What somebody who knows the file and reads the card takes an approval for.
AsTold(state, card) ==
    LET said == Says(state)
    IN  [meta  |-> Over(card.fields, said.meta),
         rows  |-> Over(card.rows, said.rows),
         lines |-> {l \in said.lines : l[2] \notin card.removed[l[1]]}
                     \cup {l \in (DOMAIN Caps) \X Texts_ : l[2] \in card.added[l[1]]}]

\* A heading that stands twice is the designer's: the patch changes the first
\* and the card reads the last.
HeadingsOnce(sections) ==
    \A i, j \in DOMAIN sections : sections[i].heading = sections[j].heading => i = j

\* An approval does what its card says and no more, except for the date; a
\* section it changes is within its cap, says no line twice and is not emptied;
\* and the same answer to the new state changes nothing.
Told(state, answer) ==
    LET patch == ParsePatch(answer)
        new   == ApplyPatch(state, patch)
    IN  /\ HeadingsOnce(state.sections) =>
             /\ Says(new) = AsTold(state, StateChanges(state, new))
             /\ HeadingsOnce(new.sections)
        /\ \A s \in Range(new.sections) \ Range(state.sections) :
             /\ s.heading \in DOMAIN Caps /\ Len(s.items) \in 1..Caps[s.heading]
             /\ Cardinality(Range(s.items)) = Len(s.items)
        /\ ApplyPatch(new, patch) = new

Row(status, takeaway) == [status |-> status, takeaway |-> takeaway]
SomeRows == {Row("pending", "")} \cup {Row("done", s) : s \in Sayings}
AllRows  == UNION {[ms -> SomeRows] : ms \in SUBSET Modules}
AllMeta  == UNION {[fs -> {Today, "options"}] : fs \in SUBSET (MetaKeys \cup {"Last updated"})}
NoAnswer == [readable |-> FALSE]
Answer(status, takeaway, meta, sections) ==
    [readable |-> TRUE, status |-> status, takeaway |-> takeaway, meta |-> meta, sections |-> sections]
Sections(items) == [heading : DOMAIN Caps \cup Foreign, items : items]

\* Fields and rows, and then sections: no part of a patch meets the other's.
PatchesAreTold ==
    /\ \A rows \in AllRows, meta \in AllMeta, table \in BOOLEAN :
         LET state == [table |-> table, rows |-> rows, meta |-> meta, sections |-> <<>>]
         IN  table \/ rows = <<>> =>
               /\ Told(state, NoAnswer)
               /\ \A status \in {"done", "unknown"}, takeaway \in Texts_, said \in [MetaKeys -> Texts_] :
                     Told(state, Answer(status, takeaway, said, <<>>))
    /\ \A old \in BoundedSeq(Sections(BoundedSeq({"options"} \cup Sayings, 1)), 2) :
         LET state == [table |-> FALSE, rows |-> <<>>, meta |-> <<>>, sections |-> old]
             none  == [k \in MetaKeys |-> ""]
         IN  /\ \A s \in Sections(BoundedSeq(Texts_, MaxItems)) : Told(state, Answer("done", "", none, <<s>>))
             /\ \A s, r \in Sections(BoundedSeq(Sayings, 1)) : Told(state, Answer("done", "", none, <<s, r>>))
=============================================================================
