--------------------------- MODULE SiteFactsProofs ----------------------------
(* Theorems about SiteFacts for any parcels, bodies, sites, uses and threads *)
(* and any number of requests, runs and failures: every copy of the site's   *)
(* facts that may still be written agrees in itself, although the handlers   *)
(* read and write the file without a lock.                                   *)
EXTENDS SiteFacts, SequenceTheorems, TLAPS

Titles     == {Title[b] : b \in Bodies} \cup {NoName}
MissingOf  == {"land_use", "characteristics", "buildings"}
Ordinances == [body: Bodies \cup {NoName}, of: SUBSET Parcels, name: Titles, articles: BOOLEAN,
               figure: {"figure", "unread", "none"}, related: SUBSET Options,
               dismissed: SUBSET Options, detailed: SUBSET Options]
Founds     == [name: Titles, articles: BOOLEAN,
               figure: {"figure", "unread", "none"}, related: SUBSET Options]
Uses       == [name: UseNames, of: SUBSET Parcels, known: BOOLEAN]
Facts      == [parcels: Seq(Parcels), zones: SUBSET Parcels, chars: SUBSET Parcels,
               missing: SUBSET (Parcels \X MissingOf), ordinance: Ordinances,
               restrictions: {"known", "failed"}, limits: SUBSET Parcels,
               uses: SUBSET Uses]
Problems   == Answers \cup {"no_query"}
Owned      == [facts: Facts, left: Seq(Parcels), problem: Problems]

\* A lookup builds the facts of a new site; a change has read the saved ones.
LookingUp == {"parcel", "previous", "attach"}
Changing  == {"check_use", "save"}
Steps     == {"idle", "passages", "warn"} \cup LookingUp \cup Changing

TypesInv ==
    /\ file \in Facts /\ own \in [Threads -> Owned] /\ pc \in [Threads -> Steps]
    /\ problem \in Problems /\ failures \in 0..MaxFailures /\ alone \subseteq Threads

\* The parts of one copy of the facts are of one site.
Agree(f) ==
    /\ f.ordinance # NoOrdinance =>
          /\ Zoned(f) # {} /\ f.ordinance.of = Zoned(f)
          /\ f.ordinance.body = Municipality(f)
          /\ f.ordinance.name \in {Title[f.ordinance.body], NoName}
    /\ f.limits = ZoneCodes(f)
    /\ \A u, v \in f.uses : u.of = ZoneCodes(f) /\ (u.name = v.name => u = v)

\* What an ordinance hides, or is asked for in full, was picked so of its name.
Picked(o) ==
    \A key \in {"dismissed", "detailed"} : \A x \in o[key] : <<o.name, key, x>> \in picked

Whole(f) == f.parcels \in Sites \cup {<<>>} /\ Agree(f) /\ Picked(f.ordinance)

\* What a thread with o is about to write once it is at this step: a lookup
\* replaces all but the choices.
CopyAt(step, o) ==
    /\ step = "idle" => o.facts = NoFacts
    /\ step \in Changing => Whole(o.facts)
    /\ step \in LookingUp => o.facts.parcels \in Sites /\ Picked(o.facts.ordinance)
    /\ step = "parcel" => o.left # <<>>

CopiesInv == Whole(file) /\ \A t \in Threads : CopyAt(pc[t], own[t])

\* A search that began alone stays the only one until it has warned.
SearchInv ==
    /\ \A t \in alone, u \in Threads : Searching(t) /\ Searching(u) => t = u
    /\ WarnsOfItsOwnProblem

SiteInv == TypesInv /\ CopiesInv /\ SearchInv
----------------------------------------------------------------------------
(* The types of what the operators return.                                  *)

LEMMA NoFactsTypes ==
    NoOrdinance \in Ordinances /\ NoFacts \in Facts /\ Idle \in Owned
BY DEF NoOrdinance, NoFacts, Idle, Ordinances, Titles, Facts, Owned, Problems, Answers

\* A lookup's parcels are some, and have a body.
LEMMA SiteTypes ==
    \A s \in Sites : s \in Seq(Parcels) /\ s # <<>> /\ Body[Head(s)] \in Bodies
<1> SUFFICES ASSUME NEW s \in Sites
             PROVE  s \in Seq(Parcels) /\ s # <<>> /\ Body[Head(s)] \in Bodies
    OBVIOUS
<1>1. s \in Seq(Parcels) /\ s # <<>>
  BY SiteAssumption
<1>2. Head(s) \in Parcels
  BY <1>1
<1>3. QED BY <1>1, <1>2 DEF Bodies

\* What the service can find for a body has the name of its ordinance or none.
LEMMA FoundTypes ==
    \A body \in Bodies : \A found \in Ordinance(body) :
        found \in Founds /\ found.name \in {Title[body], NoName}
<1> SUFFICES ASSUME NEW body \in Bodies, NEW found \in Ordinance(body)
             PROVE  found \in Founds /\ found.name \in {Title[body], NoName}
    OBVIOUS
<1>1. NotFound \in Founds /\ NotFound.name = NoName
  BY DEF NotFound, Founds, Titles
<1>2. CASE found = NotFound
  BY <1>1, <1>2
<1>3. CASE found = [NotFound EXCEPT !.name = Title[body]]
  BY <1>3 DEF NotFound, Founds, Titles
<1>4. CASE \E base \in PickArticles, value \in UNION {ZoneValues(text) : text \in FollowAnnex} :
             found = [name |-> Title[body], articles |-> base, related |-> Options,
                      figure |-> IF base THEN value ELSE "none"]
  <2>1. \A value \in UNION {ZoneValues(text) : text \in FollowAnnex} :
          value \in {"figure", "unread"}
    BY DEF ZoneValues
  <2>2. QED BY <1>4, <2>1 DEF PickArticles, Founds, Titles
<1>5. QED BY <1>2, <1>3, <1>4 DEF Ordinance

LEMMA NotFoundTypes == NotFound \in Founds
BY DEF NotFound, Founds, Titles

\* The zoned parcels of a site are parcels.
LEMMA ZonedTypes == \A f \in Facts : Zoned(f) \subseteq Parcels /\ ZoneCodes(f) \subseteq Parcels
BY DEF Facts, Zoned, ZoneCodes, ParcelZoned

LEMMA OutcomeTypes ==
    \A outcome : Lost(outcome) \in 0..1
BY DEF Lost

LEMMA FailingTypes ==
    ASSUME failures \in 0..MaxFailures, NEW n \in Nat, Failing(n)
    PROVE  failures' \in 0..MaxFailures
BY SiteAssumption DEF Failing

\* Checking a use gives it the zones of the facts it is checked with, and the
\* name stays the only one of its kind.
LEMMA UseTypes ==
    ASSUME NEW f \in Facts, NEW name \in UseNames, NEW outcome
    PROVE  UseCheck(f, name, outcome) \in Uses
BY ZonedTypes DEF UseCheck, Uses
----------------------------------------------------------------------------
(* One thread moves, the others stay.                                       *)

Alone(t) == \A u \in Threads : u # t => pc'[u] = pc[u] /\ own'[u] = own[u]

\* A thread goes to a step with a record it may have.
LEMMA Moving ==
    ASSUME TypesInv, NEW t \in Threads, NEW step \in Steps, NEW o \in Owned,
           Goto(t, step), own' = [own EXCEPT ![t] = o]
    PROVE  /\ pc' \in [Threads -> Steps] /\ own' \in [Threads -> Owned]
           /\ pc'[t] = step /\ own'[t] = o /\ Alone(t)
BY DEF TypesInv, Goto, Alone

LEMMA Returning ==
    ASSUME TypesInv, NEW t \in Threads, Return(t)
    PROVE  /\ pc' \in [Threads -> Steps] /\ own' \in [Threads -> Owned]
           /\ pc'[t] = "idle" /\ own'[t] = Idle /\ Alone(t)
BY NoFactsTypes, Moving DEF Return, Steps

\* What is picked stays picked, so that only the thread that moved and the file
\* it may have written are to be shown whole.
LEMMA CopiesMove ==
    ASSUME CopiesInv, NEW t \in Threads, Alone(t), picked \subseteq picked',
           Whole(file)', CopyAt(pc[t], own[t])'
    PROVE  CopiesInv'
<1>1. \A f : Picked(f.ordinance) => Picked(f.ordinance)'
  BY DEF Picked
<1>2. ASSUME NEW u \in Threads, u # t PROVE CopyAt(pc[u], own[u])'
  <2>1. pc'[u] = pc[u] /\ own'[u] = own[u] /\ CopyAt(pc[u], own[u])
    BY <1>2 DEF Alone, CopiesInv
  <2>2. QED BY <2>1 DEF CopyAt, Whole, Picked
<1>3. QED BY <1>2 DEF CopiesInv

\* A thread that returns leaves nothing to be written.
LEMMA NothingLeft ==
    ASSUME NEW t \in Threads, pc'[t] = "idle", own'[t] = Idle
    PROVE  CopyAt(pc[t], own[t])'
BY DEF CopyAt, Changing, LookingUp, Idle

LEMMA FileStays ==
    ASSUME CopiesInv, file' = file, picked \subseteq picked'
    PROVE  Whole(file)'
BY DEF CopiesInv, Whole, Picked

\* A step outside the searches leaves what they warn of.
LEMMA SearchStays ==
    ASSUME SearchInv, NEW t \in Threads, Alone(t), alone \subseteq Threads,
           problem' = problem, alone' = alone, pc'[t] \notin {"passages", "warn"}
    PROVE  SearchInv'
BY DEF SearchInv, WarnsOfItsOwnProblem, Searching, Alone
----------------------------------------------------------------------------
(* Looking a site up.                                                       *)

LEMMA FindParcelsKeeps ==
    ASSUME SiteInv, NEW t \in Threads, FindParcels(t) PROVE SiteInv'
<1>1. /\ TypesInv /\ CopiesInv /\ SearchInv /\ own[t] \in Owned /\ pc[t] = "idle"
      /\ UNCHANGED <<file, problem, picked, alone>>
  BY DEF SiteInv, TypesInv, FindParcels, Begin
<1>2. failures' \in 0..MaxFailures
  BY <1>1, FailingTypes, OutcomeTypes DEF FindParcels, TypesInv
<1>3. CASE UNCHANGED <<pc, own>>
  BY <1>1, <1>2, <1>3
     DEF SiteInv, TypesInv, CopiesInv, CopyAt, Whole, Picked, SearchInv,
         WarnsOfItsOwnProblem, Searching
<1>4. CASE \E s \in Sites : /\ own' = [own EXCEPT ![t].left = s, ![t].facts.parcels = s]
                            /\ Goto(t, "parcel")
  <2>1. PICK s \in Sites : /\ own' = [own EXCEPT ![t].left = s, ![t].facts.parcels = s]
                           /\ Goto(t, "parcel")
    BY <1>4
  <2>2. s \in Seq(Parcels) /\ s # <<>>
    BY SiteTypes
  <2> DEFINE f == [own[t].facts EXCEPT !.parcels = s]
             o == [own[t] EXCEPT !.left = s, !.facts = f]
  <2>3. f \in Facts /\ f.parcels = s /\ f.ordinance = own[t].facts.ordinance
    BY <1>1, <2>2 DEF Owned, Facts
  <2>4. own' = [own EXCEPT ![t] = o]
    BY <1>1, <2>1 DEF TypesInv, Owned
  <2> HIDE DEF f
  <2>5. o \in Owned /\ o.facts = f /\ o.left = s
    BY <1>1, <2>2, <2>3 DEF Owned
  <2> HIDE DEF o
  <2>6. /\ pc' \in [Threads -> Steps] /\ own' \in [Threads -> Owned]
        /\ pc'[t] = "parcel" /\ own'[t] = o /\ Alone(t)
    BY <1>1, <2>1, <2>4, <2>5, Moving DEF Steps, LookingUp
  <2>7. own[t].facts.ordinance = NoOrdinance
    BY <1>1 DEF CopiesInv, CopyAt, NoFacts
  <2>8. CopyAt(pc[t], own[t])'
    BY <2>2, <2>3, <2>5, <2>6, <2>7 DEF CopyAt, Changing, Picked, NoOrdinance
  <2>9. CopiesInv'
    BY <1>1, <2>6, <2>8, CopiesMove, FileStays
  <2>10. SearchInv'
    BY <1>1, <2>6, SearchStays DEF TypesInv
  <2>11. TypesInv'
    BY <1>1, <1>2, <2>6 DEF TypesInv
  <2>12. QED BY <2>9, <2>10, <2>11 DEF SiteInv
<1>5. QED BY <1>3, <1>4 DEF FindParcels

LEMMA LookUpParcelKeeps ==
    ASSUME SiteInv, NEW t \in Threads, LookUpParcel(t) PROVE SiteInv'
<1> DEFINE g == own[t].facts
           p == Head(own[t].left)
<1>1. /\ TypesInv /\ CopiesInv /\ SearchInv /\ own[t] \in Owned /\ pc[t] = "parcel"
      /\ UNCHANGED <<file, problem, picked, alone>>
  BY DEF SiteInv, TypesInv, LookUpParcel
<1>2. /\ g \in Facts /\ own[t].left \in Seq(Parcels) /\ own[t].left # <<>>
      /\ g.parcels \in Sites /\ Picked(g.ordinance)
  BY <1>1 DEF CopiesInv, CopyAt, LookingUp, Owned
<1>3. p \in Parcels /\ Tail(own[t].left) \in Seq(Parcels)
      /\ (Len(own[t].left) # 1 => Tail(own[t].left) # <<>>)
  <2>1. /\ p \in Parcels /\ Tail(own[t].left) \in Seq(Parcels)
        /\ Len(Tail(own[t].left)) = Len(own[t].left) - 1 /\ Len(own[t].left) \in Nat
    BY <1>2, HeadTailProperties, LenProperties
  <2>2. Tail(own[t].left) = <<>> => Len(Tail(own[t].left)) = 0
    BY EmptySeq
  <2>3. QED BY <2>1, <2>2
<1>4. PICK u \in LandUse(p), c \in Characteristics(p), b \in Buildings :
        /\ Failing(Lost(u) + Lost(c) + Lost(b))
        /\ own' = [own EXCEPT
             ![t].left = Tail(@),
             ![t].facts.zones   = @ \cup {x \in {p} : u = "rows"},
             ![t].facts.chars   = @ \cup {x \in {p} : c = "rows"},
             ![t].facts.missing = @ \cup {<<p, w[1]>> : w \in {x \in
                 {<<"land_use", u>>, <<"characteristics", c>>, <<"buildings", b>>} :
                     x[2] = "failed"}}]
  BY DEF LookUpParcel
<1>5. failures' \in 0..MaxFailures
  <2>1. Lost(u) + Lost(c) + Lost(b) \in Nat
    BY OutcomeTypes
  <2>2. QED BY <1>1, <1>4, <2>1, FailingTypes DEF TypesInv
<1> DEFINE zones == g.zones \cup {x \in {p} : u = "rows"}
           chars == g.chars \cup {x \in {p} : c = "rows"}
           kinds == {x \in {<<"land_use", u>>, <<"characteristics", c>>, <<"buildings", b>>} :
                       x[2] = "failed"}
           missing == g.missing \cup {<<p, w[1]>> : w \in kinds}
           f == [g EXCEPT !.zones = zones, !.chars = chars, !.missing = missing]
           o == [own[t] EXCEPT !.left = Tail(own[t].left), !.facts = f]
<1>6. zones \subseteq Parcels /\ chars \subseteq Parcels
  BY <1>2, <1>3 DEF Facts
<1>7. missing \subseteq Parcels \X MissingOf
  <2>1. \A w \in kinds : w[1] \in MissingOf
    BY DEF MissingOf
  <2> HIDE DEF kinds
  <2>2. \A w \in kinds : <<p, w[1]>> \in Parcels \X MissingOf
    BY <1>3, <2>1
  <2>3. QED BY <1>2, <2>2 DEF Facts
<1>8. own' = [own EXCEPT ![t] = o]
  BY <1>1, <1>4, Zenon DEF TypesInv, Owned
<1> HIDE DEF zones, chars, missing, p
<1>9. f \in Facts /\ f.parcels = g.parcels /\ f.ordinance = g.ordinance
  BY <1>2, <1>6, <1>7 DEF Facts
<1> HIDE DEF f
<1>10. o \in Owned /\ o.facts = f /\ o.left = Tail(own[t].left)
  BY <1>1, <1>3, <1>9 DEF Owned
<1> HIDE DEF o, g
<1>11. PICK step \in {"previous", "parcel"} :
         Goto(t, step) /\ (step = "parcel" => Len(own[t].left) # 1)
  BY DEF LookUpParcel
<1>12. /\ pc' \in [Threads -> Steps] /\ own' \in [Threads -> Owned]
       /\ pc'[t] = step /\ own'[t] = o /\ Alone(t)
  BY <1>1, <1>8, <1>10, <1>11, Moving DEF Steps, LookingUp
<1>13. CopyAt(pc[t], own[t])'
  <2>1. Picked(own[t].facts.ordinance)'
    BY <1>1, <1>2, <1>9, <1>10, <1>12 DEF Picked
  <2>2. QED BY <1>2, <1>3, <1>9, <1>10, <1>11, <1>12, <2>1 DEF CopyAt, Changing
<1>14. CopiesInv'
  BY <1>1, <1>12, <1>13, CopiesMove, FileStays
<1>15. SearchInv'
  BY <1>1, <1>11, <1>12, SearchStays DEF TypesInv
<1>16. TypesInv'
  BY <1>1, <1>5, <1>12 DEF TypesInv
<1>17. QED BY <1>14, <1>15, <1>16 DEF SiteInv

\* The choices a lookup takes over were picked of the ordinance it takes over.
LEMMA LoadPreviousKeeps ==
    ASSUME SiteInv, NEW t \in Threads, LoadPrevious(t) PROVE SiteInv'
<1>1. /\ TypesInv /\ CopiesInv /\ SearchInv /\ own[t] \in Owned /\ pc[t] = "previous"
      /\ file \in Facts
      /\ UNCHANGED <<file, problem, failures, picked, alone>>
  BY DEF SiteInv, TypesInv, LoadPrevious
<1> DEFINE f == [own[t].facts EXCEPT !.ordinance = file.ordinance, !.uses = file.uses]
           o == [own[t] EXCEPT !.facts = f]
<1>2. /\ f \in Facts /\ f.parcels = own[t].facts.parcels
      /\ f.ordinance = file.ordinance
  BY <1>1 DEF Owned, Facts
<1>3. own' = [own EXCEPT ![t] = o]
  BY <1>1 DEF LoadPrevious, TypesInv, Owned
<1> HIDE DEF f
<1>4. o \in Owned /\ o.facts = f
  BY <1>1, <1>2 DEF Owned
<1> HIDE DEF o
<1>5. /\ pc' \in [Threads -> Steps] /\ own' \in [Threads -> Owned]
      /\ pc'[t] = "attach" /\ own'[t] = o /\ Alone(t)
  BY <1>1, <1>3, <1>4, Moving DEF LoadPrevious, Steps, LookingUp
<1>6. own[t].facts.parcels \in Sites /\ Picked(file.ordinance)
  BY <1>1 DEF CopiesInv, CopyAt, LookingUp, Whole
<1>7. CopyAt(pc[t], own[t])'
  BY <1>1, <1>2, <1>4, <1>5, <1>6 DEF CopyAt, Changing, Picked
<1>8. CopiesInv'
  BY <1>1, <1>5, <1>7, CopiesMove, FileStays
<1>9. SearchInv'
  BY <1>1, <1>5, SearchStays DEF TypesInv
<1>10. TypesInv'
  BY <1>1, <1>5 DEF TypesInv
<1>11. QED BY <1>8, <1>9, <1>10 DEF SiteInv

\* The ordinance a lookup saves is the one found for its own parcels, and keeps
\* a choice only if it is an earlier one of the same ordinance.
LEMMA AttachedOrdinance ==
    ASSUME NEW f \in Facts, f.parcels \in Sites, Picked(f.ordinance),
           NEW found \in IF Zoned(f) = {} THEN {NotFound} ELSE Ordinance(Municipality(f))
    PROVE  LET o == AttachOrdinance(f, found)
           IN  /\ o \in Ordinances /\ Picked(o)
               /\ o # NoOrdinance =>
                     /\ Zoned(f) # {} /\ o.of = Zoned(f)
                     /\ o.body = Municipality(f) /\ o.name \in {Title[o.body], NoName}
<1> DEFINE body == Municipality(f)
<1>1. body \in Bodies
  BY SiteTypes DEF Municipality
<1>2. CASE Zoned(f) = {}
  BY <1>2, NoFactsTypes DEF AttachOrdinance, NoOrdinance, Picked
<1>3. CASE Zoned(f) # {}
  <2>1. found \in Founds /\ found.name \in {Title[body], NoName}
    BY <1>1, <1>3, FoundTypes
  <2> DEFINE hidden == CarriedOver(f.ordinance.dismissed, f.ordinance, found)
             full   == CarriedOver(f.ordinance.detailed, f.ordinance, found)
             o == [name |-> found.name, articles |-> found.articles, figure |-> found.figure,
                   related |-> found.related, body |-> body, of |-> Zoned(f),
                   dismissed |-> hidden, detailed  |-> full]
  <2>2. AttachOrdinance(f, found) = o
    BY <1>3 DEF AttachOrdinance, OrdinanceOf
  <2>3. hidden \subseteq Options /\ full \subseteq Options
    BY DEF CarriedOver, Facts, Ordinances
  <2>4. /\ \A x \in hidden : <<found.name, "dismissed", x>> \in picked
        /\ \A x \in full : <<found.name, "detailed", x>> \in picked
    BY DEF CarriedOver, Picked
  <2>5. Zoned(f) \subseteq Parcels
    BY ZonedTypes
  <2> HIDE DEF hidden, full, body
  <2>6. o \in Ordinances
    BY <1>1, <2>1, <2>3, <2>5 DEF Ordinances, Founds
  <2>7. Picked(o)
    BY <2>4 DEF Picked
  <2>8. QED BY <1>3, <2>1, <2>2, <2>6, <2>7 DEF body
<1>4. QED BY <1>2, <1>3

\* The facts a lookup saves agree, whatever the services answered.
LEMMA AttachedFacts ==
    ASSUME NEW f \in Facts, f.parcels \in Sites, Picked(f.ordinance), NEW laws, NEW rules,
           NEW found \in IF Zoned(f) = {} THEN {NotFound} ELSE Ordinance(Municipality(f))
    PROVE  LET h == AttachLimits([f EXCEPT !.ordinance = AttachOrdinance(f, found)],
                                 laws, rules)
           IN  h \in Facts /\ Whole(h)
<1> DEFINE o == AttachOrdinance(f, found)
           g == [f EXCEPT !.ordinance = o]
           uses == {UseCheck(g, u.name, rules) : u \in g.uses}
           told == IF laws = "failed" THEN laws ELSE "known"
           h == AttachLimits(g, laws, rules)
<1>1. /\ o \in Ordinances /\ Picked(o)
      /\ o # NoOrdinance =>
            /\ Zoned(f) # {} /\ o.of = Zoned(f)
            /\ o.body = Municipality(f) /\ o.name \in {Title[o.body], NoName}
  BY AttachedOrdinance
<1> HIDE DEF o
<1>2. /\ g \in Facts /\ g.parcels = f.parcels /\ g.zones = f.zones
      /\ g.chars = f.chars /\ g.ordinance = o /\ g.uses = f.uses
  BY <1>1 DEF Facts
<1> HIDE DEF g
<1>3. uses \subseteq Uses
  BY <1>2, UseTypes DEF Facts, Uses
<1>4. \A u, v \in uses : u.of = ZoneCodes(g) /\ (u.name = v.name => u = v)
  BY DEF UseCheck
<1>5. h = [g EXCEPT !.restrictions = told, !.limits = ZoneCodes(g), !.uses = uses]
  BY DEF AttachLimits
<1> HIDE DEF h, uses
<1>6. told \in {"known", "failed"} /\ ZoneCodes(g) \subseteq Parcels
  BY <1>2, ZonedTypes
<1> HIDE DEF told
<1>7. /\ h \in Facts /\ h.parcels = f.parcels /\ h.zones = g.zones /\ h.chars = f.chars
      /\ h.ordinance = o /\ h.uses = uses /\ h.limits = ZoneCodes(g)
  BY <1>2, <1>3, <1>5, <1>6 DEF Facts
<1>8. Zoned(h) = Zoned(f) /\ Municipality(h) = Municipality(f)
      /\ ZoneCodes(h) = ZoneCodes(g)
  BY <1>2, <1>7 DEF Zoned, ParcelZoned, Municipality, ZoneCodes
<1>9. Agree(h)
  BY <1>1, <1>4, <1>7, <1>8 DEF Agree
<1>10. Whole(h)
  BY <1>1, <1>7, <1>9 DEF Whole
<1>11. QED BY <1>7, <1>10 DEF h, g, o

\* A write replaces the file by a copy that is whole, or leaves it.
LEMMA FileWritten ==
    ASSUME CopiesInv, TypesInv, picked' = picked, NEW h, NEW failed,
           SaveFacts(h, failed), h \in Facts /\ Whole(h)
    PROVE  file' \in Facts /\ Whole(file)'
<1>1. file' = h \/ file' = file
  BY DEF SaveFacts
<1>2. CASE file' = h
  BY <1>2 DEF Whole, Picked
<1>3. CASE file' = file
  BY <1>3, FileStays DEF TypesInv
<1>4. QED BY <1>1, <1>2, <1>3

\* A thread that returns after a write, or without one.
LEMMA ReturnKeeps ==
    ASSUME SiteInv, NEW t \in Threads, Return(t), UNCHANGED <<problem, picked, alone>>,
           failures' \in 0..MaxFailures, file' \in Facts, Whole(file)'
    PROVE  SiteInv'
<1>1. TypesInv /\ CopiesInv /\ SearchInv
  BY DEF SiteInv
<1>2. /\ pc' \in [Threads -> Steps] /\ own' \in [Threads -> Owned]
      /\ pc'[t] = "idle" /\ own'[t] = Idle /\ Alone(t)
  BY <1>1, Returning
<1>3. CopiesInv'
  BY <1>1, <1>2, NothingLeft, CopiesMove
<1>4. SearchInv'
  BY <1>1, <1>2, SearchStays DEF TypesInv
<1>5. TypesInv'
  BY <1>1, <1>2 DEF TypesInv
<1>6. QED BY <1>3, <1>4, <1>5 DEF SiteInv

LEMMA AttachAndSaveKeeps ==
    ASSUME SiteInv, NEW t \in Threads, AttachAndSave(t) PROVE SiteInv'
<1> DEFINE f == own[t].facts
<1>1. /\ TypesInv /\ CopiesInv /\ f \in Facts /\ f.parcels \in Sites
      /\ Picked(f.ordinance) /\ Return(t) /\ UNCHANGED <<problem, picked, alone>>
  BY DEF SiteInv, TypesInv, CopiesInv, CopyAt, LookingUp, AttachAndSave, Owned
<1>2. PICK found \in IF Zoned(f) = {} THEN {NotFound} ELSE Ordinance(Municipality(f)),
           laws \in ZoneLaws(ZoneCodes(f)), rules \in UseRules(ZoneCodes(f)),
           failed \in 0..1 :
        /\ Failing(failed + Lost(laws) + (IF f.uses = {} THEN 0 ELSE Lost(rules))
                   + (IF Zoned(f) # {} /\ ~found.articles THEN 1 ELSE 0))
        /\ SaveFacts(AttachLimits([f EXCEPT !.ordinance = AttachOrdinance(f, found)],
                                  laws, rules), failed)
  BY DEF AttachAndSave
<1> DEFINE h == AttachLimits([f EXCEPT !.ordinance = AttachOrdinance(f, found)], laws, rules)
           n == failed + Lost(laws) + (IF f.uses = {} THEN 0 ELSE Lost(rules))
                   + (IF Zoned(f) # {} /\ ~found.articles THEN 1 ELSE 0)
<1>3. h \in Facts /\ Whole(h)
  BY <1>1, AttachedFacts
<1>4. n \in Nat
  BY OutcomeTypes
<1>5. Failing(n) /\ SaveFacts(h, failed)
  BY <1>2
<1> HIDE DEF h, n
<1>6. failures' \in 0..MaxFailures
  BY <1>1, <1>4, <1>5, FailingTypes DEF TypesInv
<1>7. file' \in Facts /\ Whole(file)'
  BY <1>1, <1>3, <1>5, FileWritten
<1>8. QED BY <1>1, <1>6, <1>7, ReturnKeeps
----------------------------------------------------------------------------
(* The designer's changes.                                                  *)

\* A thread that has read the file, and changed its copy or not.
LEMMA CopyTaken ==
    ASSUME SiteInv, NEW t \in Threads, NEW f \in Facts, NEW step \in Changing,
           Goto(t, step), own' = [own EXCEPT ![t].facts = f],
           picked \subseteq picked', Whole(f)',
           UNCHANGED <<file, problem, failures, alone>>
    PROVE  SiteInv'
<1> DEFINE o == [own[t] EXCEPT !.facts = f]
<1>1. TypesInv /\ CopiesInv /\ SearchInv /\ own[t] \in Owned
  BY DEF SiteInv, TypesInv
<1>2. o \in Owned /\ o.facts = f
  BY <1>1 DEF Owned
<1>3. own' = [own EXCEPT ![t] = o]
  BY <1>1 DEF TypesInv, Owned
<1> HIDE DEF o
<1>4. /\ pc' \in [Threads -> Steps] /\ own' \in [Threads -> Owned]
      /\ pc'[t] = step /\ own'[t] = o /\ Alone(t)
  BY <1>1, <1>2, <1>3, Moving DEF Steps
<1>5. CopyAt(pc[t], own[t])'
  BY <1>2, <1>4 DEF CopyAt, Changing, LookingUp, Whole, Picked
<1>6. CopiesInv'
  BY <1>1, <1>4, <1>5, CopiesMove, FileStays
<1>7. SearchInv'
  BY <1>1, <1>4, SearchStays DEF TypesInv, Changing
<1>8. TypesInv'
  BY <1>1, <1>4 DEF TypesInv
<1>9. QED BY <1>6, <1>7, <1>8 DEF SiteInv

LEMMA BeginCheckUseKeeps ==
    ASSUME SiteInv, NEW t \in Threads, BeginCheckUse(t) PROVE SiteInv'
<1>1. file \in Facts /\ Whole(file)
  BY DEF SiteInv, TypesInv, CopiesInv
<1>2. \A f : f = file => Whole(f)'
  BY <1>1 DEF BeginCheckUse, Whole, Picked
<1>3. QED BY <1>1, <1>2, CopyTaken DEF BeginCheckUse, Changing

\* A use checked again takes the place of the use of its name.
LEMMA CheckUseKeeps ==
    ASSUME SiteInv, NEW t \in Threads, CheckUse(t) PROVE SiteInv'
<1> DEFINE f == own[t].facts
<1>1. /\ TypesInv /\ CopiesInv /\ f \in Facts /\ Whole(f)
      /\ Return(t) /\ UNCHANGED <<problem, picked, alone>>
  BY DEF SiteInv, TypesInv, CopiesInv, CopyAt, Changing, CheckUse, Owned
<1>2. PICK known \in SearchUses, name \in UseNames, rules \in UseRules(ZoneCodes(f)) :
        IF known = "rows"
          THEN /\ Failing(Lost(rules))
               /\ SaveFacts([f EXCEPT !.uses = {u \in @ : u.name # name}
                                        \cup {UseCheck(f, name, rules)}], 0)
          ELSE Failing(Lost(known)) /\ UNCHANGED file
  BY DEF CheckUse
<1>3. failures' \in 0..MaxFailures
  <2>1. Lost(rules) \in Nat /\ Lost(known) \in Nat
    BY OutcomeTypes
  <2>2. QED BY <1>1, <1>2, <2>1, FailingTypes DEF TypesInv
<1> DEFINE uses == {u \in f.uses : u.name # name} \cup {UseCheck(f, name, rules)}
           h == [f EXCEPT !.uses = uses]
<1>4. uses \subseteq Uses
  BY <1>1, UseTypes DEF Facts
<1>5. \A u, v \in uses : u.of = ZoneCodes(f) /\ (u.name = v.name => u = v)
  BY <1>1 DEF Whole, Agree, UseCheck
<1> HIDE DEF uses
<1>6. /\ h \in Facts /\ h.parcels = f.parcels /\ h.zones = f.zones /\ h.chars = f.chars
      /\ h.ordinance = f.ordinance /\ h.limits = f.limits /\ h.uses = uses
  BY <1>1, <1>4 DEF Facts
<1>7. Zoned(h) = Zoned(f) /\ Municipality(h) = Municipality(f) /\ ZoneCodes(h) = ZoneCodes(f)
  BY <1>6 DEF Zoned, ParcelZoned, Municipality, ZoneCodes
<1>8. Whole(h)
  BY <1>1, <1>5, <1>6, <1>7 DEF Whole, Agree
<1>9. SaveFacts(h, 0) \/ file' = file
  BY <1>2 DEF uses
<1> HIDE DEF h
<1>10. file' \in Facts /\ Whole(file)'
  BY <1>1, <1>6, <1>8, <1>9, FileWritten, FileStays DEF TypesInv
<1>11. QED BY <1>1, <1>3, <1>10, ReturnKeeps

LEMMA RemoveUseKeeps ==
    ASSUME SiteInv, NEW t \in Threads, RemoveUse(t) PROVE SiteInv'
<1>1. file \in Facts /\ Whole(file)
  BY DEF SiteInv, TypesInv, CopiesInv
<1>2. PICK u \in file.uses :
        own' = [own EXCEPT ![t].facts = [file EXCEPT !.uses = @ \ {u}]]
  BY DEF RemoveUse
<1> DEFINE h == [file EXCEPT !.uses = file.uses \ {u}]
<1>3. /\ h \in Facts /\ h.parcels = file.parcels /\ h.zones = file.zones
      /\ h.chars = file.chars /\ h.ordinance = file.ordinance /\ h.limits = file.limits
      /\ h.uses = file.uses \ {u}
  BY <1>1 DEF Facts
<1>4. own' = [own EXCEPT ![t].facts = h]
  BY <1>2
<1> HIDE DEF h
<1>5. /\ Zoned(h) = Zoned(file) /\ Municipality(h) = Municipality(file)
      /\ ZoneCodes(h) = ZoneCodes(file)
  BY <1>3 DEF Zoned, ParcelZoned, Municipality, ZoneCodes
<1>6. Whole(h)
  BY <1>1, <1>3, <1>5 DEF Whole, Agree
<1>7. \A f : f = h => Whole(f)'
  BY <1>6 DEF RemoveUse, Whole, Picked
<1>8. QED BY <1>3, <1>4, <1>7, CopyTaken DEF RemoveUse, Changing

\* A choice is made in the copy of the ordinance it was picked of.
LEMMA SetOptionKeeps ==
    ASSUME SiteInv, NEW t \in Threads, SetOption(t) PROVE SiteInv'
<1>1. file \in Facts /\ Whole(file) /\ file.ordinance \in Ordinances
  BY DEF SiteInv, TypesInv, CopiesInv, Facts
<1>2. PICK x \in file.ordinance.related, on \in BOOLEAN, key \in {"dismissed", "detailed"} :
        /\ own' = [own EXCEPT ![t].facts = [file EXCEPT !.ordinance[key] = Toggled(@, x, on)]]
        /\ picked' = IF on THEN picked \cup {<<file.ordinance.name, key, x>>} ELSE picked
  BY DEF SetOption
<1> DEFINE b == file.ordinance
           d == Toggled(b.dismissed, x, on)
           e == Toggled(b.detailed, x, on)
           o == IF key = "dismissed" THEN [b EXCEPT !.dismissed = d]
                ELSE [b EXCEPT !.detailed = e]
           h == [file EXCEPT !.ordinance = o]
<1>3. own' = [own EXCEPT ![t].facts = h]
  <2>1. CASE key = "dismissed"
    BY <1>2, <2>1
  <2>2. CASE key = "detailed"
    BY <1>2, <2>2
  <2>3. QED BY <2>1, <2>2
<1>4. d \subseteq Options /\ e \subseteq Options
  BY <1>1 DEF Toggled, Ordinances
<1>5. /\ \A y \in d : y \in b.dismissed \/ (on /\ y = x)
      /\ \A y \in e : y \in b.detailed \/ (on /\ y = x)
  BY DEF Toggled
<1> HIDE DEF d, e
<1>6. /\ o \in Ordinances /\ o.name = b.name /\ o.of = b.of /\ o.body = b.body
      /\ \A k \in {"dismissed", "detailed"} : \A y \in o[k] :
              y \in b[k] \/ (on /\ k = key /\ y = x)
  BY <1>1, <1>4, <1>5 DEF Ordinances
<1>7. b # NoOrdinance
  BY DEF NoOrdinance
<1> HIDE DEF o
<1>8. /\ h \in Facts /\ h.parcels = file.parcels /\ h.zones = file.zones
      /\ h.chars = file.chars /\ h.ordinance = o /\ h.limits = file.limits
      /\ h.uses = file.uses
  BY <1>1, <1>6 DEF Facts
<1> HIDE DEF h
<1>9. /\ Zoned(h) = Zoned(file) /\ Municipality(h) = Municipality(file)
      /\ ZoneCodes(h) = ZoneCodes(file)
  BY <1>8 DEF Zoned, ParcelZoned, Municipality, ZoneCodes
<1>10. Agree(h) /\ h.parcels \in Sites \cup {<<>>}
  BY <1>1, <1>6, <1>7, <1>8, <1>9 DEF Whole, Agree
<1>11. \A k \in {"dismissed", "detailed"} : \A y \in o[k] : <<o.name, k, y>> \in picked'
  <2>1. \A k \in {"dismissed", "detailed"} : \A y \in b[k] : <<b.name, k, y>> \in picked
    BY <1>1 DEF Whole, Picked
  <2>2. picked \subseteq picked' /\ (on => <<b.name, key, x>> \in picked')
    BY <1>2
  <2> HIDE DEF b
  <2>3. QED BY <1>6, <2>1, <2>2
<1>12. \A f : f = h => Whole(f)'
  BY <1>8, <1>10, <1>11 DEF Whole, Picked
<1>13. picked \subseteq picked'
  BY <1>2
<1>14. QED BY <1>3, <1>8, <1>12, <1>13, CopyTaken DEF SetOption, Changing

LEMMA SaveChangeKeeps ==
    ASSUME SiteInv, NEW t \in Threads, SaveChange(t) PROVE SiteInv'
<1>1. /\ TypesInv /\ CopiesInv /\ own[t].facts \in Facts /\ Whole(own[t].facts)
      /\ failures' \in 0..MaxFailures
  BY DEF SiteInv, TypesInv, CopiesInv, CopyAt, Changing, SaveChange, Owned
<1>2. file' \in Facts /\ Whole(file)'
  BY <1>1, FileWritten DEF SaveChange
<1>3. QED BY <1>1, <1>2, ReturnKeeps DEF SaveChange
----------------------------------------------------------------------------
(* Searching and warning.                                                   *)

\* A search leaves the facts of its thread and the file.
LEMMA SearchCopies ==
    ASSUME TypesInv, CopiesInv, NEW t \in Threads, NEW step \in {"passages", "warn"},
           NEW p \in Problems, Goto(t, step), own' = [own EXCEPT ![t].problem = p],
           UNCHANGED <<file, picked>>
    PROVE  /\ pc' \in [Threads -> Steps] /\ own' \in [Threads -> Owned]
           /\ pc'[t] = step /\ own'[t].problem = p /\ Alone(t) /\ CopiesInv'
<1> DEFINE o == [own[t] EXCEPT !.problem = p]
<1>1. o \in Owned /\ o.problem = p
  BY DEF TypesInv, Owned
<1>2. own' = [own EXCEPT ![t] = o]
  BY DEF TypesInv, Owned
<1> HIDE DEF o
<1>3. /\ pc' \in [Threads -> Steps] /\ own' \in [Threads -> Owned]
      /\ pc'[t] = step /\ own'[t] = o /\ Alone(t)
  BY <1>1, <1>2, Moving DEF Steps
<1>4. CopyAt(pc[t], own[t])'
  BY <1>3 DEF CopyAt, Changing, LookingUp
<1>5. QED BY <1>1, <1>3, <1>4, CopiesMove, FileStays

\* A search forgets the last problem, and counts as alone only if nobody else
\* searches; a search that was alone is no longer.
LEMMA RetrieveKeeps ==
    ASSUME SiteInv, NEW t \in Threads, NEW kind, Retrieve(t, kind),
           UNCHANGED <<file, failures, picked>>
    PROVE  SiteInv'
<1>1. TypesInv /\ CopiesInv /\ SearchInv
  BY DEF SiteInv
<1>2. PICK question \in {"asked", "no_query", "none"} :
         /\ problem' = IF question = "no_query" THEN question ELSE "none"
         /\ own' = [own EXCEPT ![t].problem = problem']
         /\ Goto(t, IF question = "asked" THEN "passages" ELSE "warn")
  BY DEF Retrieve, Questions
<1>3. problem' \in Problems
  BY <1>2 DEF Problems, Answers
<1>4. PICK step \in {"passages", "warn"} : Goto(t, step)
  BY <1>2
<1>5. \A p : p = problem' => own' = [own EXCEPT ![t].problem = p]
  BY <1>2
<1>6. /\ pc' \in [Threads -> Steps] /\ own' \in [Threads -> Owned]
      /\ pc'[t] = step /\ own'[t].problem = problem' /\ Alone(t) /\ CopiesInv'
  BY <1>1, <1>3, <1>4, <1>5, SearchCopies
<1>7. alone' = {u \in {t} : ~\E other \in Threads \ {t} : Searching(other)}
  BY DEF Retrieve
<1>8. SearchInv'
  <2>1. ASSUME NEW a \in alone', NEW u \in Threads, Searching(u)' PROVE a = u
    BY <1>6, <1>7, <2>1 DEF Alone, Searching
  <2>2. \A a \in alone' : pc'[a] = "warn" => problem' = own'[a].problem
    BY <1>6, <1>7
  <2>3. QED BY <2>1, <2>2 DEF SearchInv, WarnsOfItsOwnProblem
<1>9. TypesInv'
  BY <1>1, <1>3, <1>6, <1>7 DEF TypesInv
<1>10. QED BY <1>6, <1>8, <1>9 DEF SiteInv

\* What is found is said by the search it was found for: no search that began
\* alone is at its warning while another is still asking.
LEMMA DiagnoseKeeps ==
    ASSUME SiteInv, NEW t \in Threads, Diagnose(t) PROVE SiteInv'
<1>1. TypesInv /\ CopiesInv /\ SearchInv /\ pc[t] = "passages"
  BY DEF SiteInv, Diagnose
<1>2. PICK outcome \in LawSearch :
         /\ Failing(Lost(outcome))
         /\ problem' = IF outcome = "rows" THEN "none" ELSE outcome
         /\ own' = [own EXCEPT ![t].problem = problem']
  BY DEF Diagnose
<1>3. problem' \in Problems /\ failures' \in 0..MaxFailures
  <2>1. Lost(outcome) \in Nat
    BY OutcomeTypes
  <2>2. failures' \in 0..MaxFailures
    BY <1>1, <1>2, <2>1, FailingTypes DEF TypesInv
  <2>3. QED BY <1>2, <2>2 DEF Problems, Answers, LawSearch
<1>4. \A p : p = problem' => own' = [own EXCEPT ![t].problem = p]
  BY <1>2
<1>5. /\ pc' \in [Threads -> Steps] /\ own' \in [Threads -> Owned]
      /\ pc'[t] = "warn" /\ own'[t].problem = problem' /\ Alone(t) /\ CopiesInv'
  BY <1>1, <1>3, <1>4, SearchCopies DEF Diagnose
<1>6. SearchInv'
  <2>1. alone' = alone /\ \A u \in Threads : Searching(u)' <=> Searching(u)
    BY <1>1, <1>5 DEF Diagnose, Searching, Alone
  <2>2. ASSUME NEW a \in alone, pc'[a] = "warn" PROVE problem' = own'[a].problem
    <3>1. a \in Threads
      BY <1>1 DEF TypesInv
    <3>2. a = t
      BY <1>1, <1>5, <2>2, <3>1 DEF SearchInv, Searching, Alone
    <3>3. own'[t].problem = problem'
      BY <1>5
    <3>4. QED BY <3>2, <3>3
  <2>3. \A a \in alone, u \in Threads : Searching(a)' /\ Searching(u)' => a = u
    BY <1>1, <2>1 DEF SearchInv, TypesInv
  <2>4. QED BY <2>1, <2>2, <2>3 DEF SearchInv, WarnsOfItsOwnProblem
<1>7. TypesInv'
  BY <1>1, <1>3, <1>5 DEF Diagnose, TypesInv
<1>8. QED BY <1>5, <1>6, <1>7 DEF SiteInv

LEMMA WarnKeeps ==
    ASSUME SiteInv, NEW t \in Threads, Warn(t) PROVE SiteInv'
<1>1. TypesInv /\ CopiesInv /\ SearchInv
  BY DEF SiteInv
<1>2. file' \in Facts /\ Whole(file)'
  BY <1>1, FileStays DEF Warn, TypesInv
<1>3. QED BY <1>1, <1>2, ReturnKeeps DEF Warn, TypesInv

LEMMA RestartKeeps ==
    ASSUME SiteInv, Restart PROVE SiteInv'
<1>1. TypesInv /\ CopiesInv
  BY DEF SiteInv
<1>2. /\ alone' = {} /\ file' = file /\ problem' = "none" /\ picked' = picked
      /\ pc' = [t \in Threads |-> "idle"] /\ own' = [t \in Threads |-> Idle]
  BY DEF Restart
<1>3. failures' \in 0..MaxFailures
  BY <1>1, FailingTypes DEF Restart, TypesInv
<1>4. TypesInv'
  BY <1>1, <1>2, <1>3, NoFactsTypes DEF TypesInv, Steps, Problems, Answers
<1>5. CopiesInv'
  <2>1. Whole(file)'
    BY <1>1, <1>2, FileStays
  <2>2. \A t \in Threads : CopyAt(pc[t], own[t])'
    BY <1>2, NothingLeft
  <2>3. QED BY <2>1, <2>2 DEF CopiesInv
<1>6. SearchInv'
  BY <1>2 DEF SearchInv, WarnsOfItsOwnProblem
<1>7. QED BY <1>4, <1>5, <1>6 DEF SiteInv
----------------------------------------------------------------------------
LEMMA SiteNext == SiteInv /\ [Next]_vars => SiteInv'
<1> SUFFICES ASSUME SiteInv, [Next]_vars PROVE SiteInv'
    OBVIOUS
<1>1. ASSUME NEW t \in Threads, LookUp(t) \/ Change(t) PROVE SiteInv'
  BY <1>1, FindParcelsKeeps, LookUpParcelKeeps, LoadPreviousKeeps, AttachAndSaveKeeps,
     BeginCheckUseKeeps, CheckUseKeeps, RemoveUseKeeps, SetOptionKeeps, SaveChangeKeeps
     DEF LookUp, Change
<1>2. ASSUME NEW t \in Threads, Run(t) PROVE SiteInv'
  <2>1. CASE BeginRun(t)
    BY <2>1, RetrieveKeeps DEF BeginRun
  <2>2. CASE BeginSearch(t)
    BY <2>2, RetrieveKeeps DEF BeginSearch
  <2>3. QED BY <1>2, <2>1, <2>2, DiagnoseKeeps, WarnKeeps DEF Run
<1>3. CASE UNCHANGED vars
  BY <1>3 DEF vars, SiteInv, TypesInv, CopiesInv, Whole, Picked, CopyAt, SearchInv,
              WarnsOfItsOwnProblem, Searching
<1>4. QED BY <1>1, <1>2, <1>3, RestartKeeps DEF Next

\* What every handler has read, builds or has saved is of one site, although
\* they read and write site_facts.json without a lock (site_facts.py, api.py).
THEOREM SiteInvariant == Spec => []SiteInv
<1>1. Init => SiteInv
  <2> SUFFICES ASSUME Init PROVE SiteInv
      OBVIOUS
  <2>1. TypesInv
    BY NoFactsTypes, SiteAssumption DEF Init, TypesInv, Steps, Problems, Answers
  <2>2. Whole(file)
    BY DEF Init, NoFacts, NoOrdinance, Whole, Agree, Picked, ZoneCodes
  <2>3. CopiesInv
    BY <2>2 DEF Init, CopiesInv, CopyAt, Changing, LookingUp, Idle
  <2>4. SearchInv
    BY DEF Init, SearchInv, WarnsOfItsOwnProblem
  <2>5. QED BY <2>1, <2>3, <2>4 DEF SiteInv
<1>2. QED BY <1>1, SiteNext, PTL DEF Spec

\* The ordinance, the articles behind the limits and the checked uses are those
\* of the parcels that are saved.
THEOREM PartsAgreeHolds == Spec => []PartsAgree
<1>1. SiteInv => PartsAgree
  <2> SUFFICES ASSUME SiteInv PROVE PartsAgree
      OBVIOUS
  <2>1. TypeOK
    BY DEF SiteInv, TypesInv, CopiesInv, Whole, Problems, TypeOK
  <2>2. Agree(file)
    BY DEF SiteInv, CopiesInv, Whole
  <2>3. QED BY <2>1, <2>2 DEF Agree, PartsAgree
<1>2. QED BY <1>1, SiteInvariant, PTL

\* What the designer hid or asked for does not come to stand for the article of
\* the same label in an ordinance of another name (attach_ordinance), and the
\* experts get the text of no other article unless the site lies in its district
\* (ordinance_text).
THEOREM ChoicesAreOfThisOrdinanceHolds == Spec => []ChoicesAreOfThisOrdinance
<1>1. SiteInv => ChoicesAreOfThisOrdinance
  <2> SUFFICES ASSUME SiteInv PROVE ChoicesAreOfThisOrdinance
      OBVIOUS
  <2> DEFINE o == file.ordinance
  <2>1. \A key \in {"dismissed", "detailed"} : \A x \in o[key] : <<o.name, key, x>> \in picked
    BY DEF SiteInv, CopiesInv, Whole, Picked
  <2>2. \A x \in OrdinanceText(file).texts : x \in o.detailed \/ x \in Applying(file)
    BY DEF OrdinanceText
  <2>3. QED BY <2>1, <2>2 DEF ChoicesAreOfThisOrdinance
<1>2. QED BY <1>1, SiteInvariant, PTL

\* An expert is told of every failed call of its part of the site, and of all
\* that nothing is known of (facts_block, _missing_lines).
THEOREM SaysWhatIsUnknownHolds == Spec => []SaysWhatIsUnknown
<1>1. SiteInv => SaysWhatIsUnknown
  <2> SUFFICES ASSUME SiteInv PROVE SaysWhatIsUnknown
      OBVIOUS
  <2> DEFINE said == FactsBlock(file, "regulatory")
  <2>1. \A m \in file.missing : m[2] \in MissingOf
    BY DEF SiteInv, TypesInv, Facts
  <2>2. {m \in file.missing : m[2] # "land_use"} \subseteq FactsBlock(file, "physical")
    BY <2>1 DEF MissingOf, FactsBlock, PhysicalLines, MissingLines
  <2>3. {m \in file.missing : m[2] # "characteristics"} \subseteq said
    BY <2>1 DEF MissingOf, FactsBlock, RegulatoryLines, MissingLines
  <2>4. \A what : SiteWide(what) \subseteq said => \E m \in said : m[2] = what
    BY DEF SiteWide
  <2>5. file.ordinance.figure # "figure" =>
          \E what \in {"zoning", "ordinance", "figure"} : SiteWide(what) \subseteq said
    BY DEF FactsBlock, RegulatoryLines, OrdinanceLine, OrdinanceValueLines, FigureText
  <2>6. file.restrictions = "failed" => SiteWide("restrictions") \subseteq said
    BY DEF FactsBlock, RegulatoryLines, RestrictionLines
  <2>7. (\A u \in file.uses : ~u.known) => SiteWide("uses") \subseteq said
    BY DEF FactsBlock, RegulatoryLines, UseLines
  <2> HIDE DEF said
  <2>8. QED BY <2>2, <2>3, <2>4, <2>5, <2>6, <2>7 DEF SaysWhatIsUnknown, said
<1>2. QED BY <1>1, SiteInvariant, PTL

\* A search that began alone warns of its own problem and of no earlier one
\* (retrieve_for_agent, last_retrieval_warning).
THEOREM WarnsOfItsOwnProblemHolds == Spec => []WarnsOfItsOwnProblem
<1>1. SiteInv => WarnsOfItsOwnProblem
  BY DEF SiteInv, SearchInv
<1>2. QED BY <1>1, SiteInvariant, PTL
=============================================================================
