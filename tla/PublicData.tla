----------------------------- MODULE PublicData -----------------------------
(* What the public services can answer a lookup, as the clients of the site *)
(* and regulation experts tell it apart: VWorld (experts/site/landapi.py),  *)
(* data.go.kr (experts/site/datago.py) and law.go.kr                        *)
(* (experts/regulation/lawapi.py, ordinance.py, rag.py).                    *)
(*                                                                          *)
(* The services are external.  A definition is the set of outcomes its      *)
(* function can have: rows, no rows, or a failure, whatever its kind -- no  *)
(* key, a key refused, a limit, the network after all attempts, an answer   *)
(* that cannot be read.  No function guesses: what is not answered fails.   *)
EXTENDS Integers, FiniteSets

CONSTANTS
    Parcels,     \* land parcels (PNU)
    Merged,      \* those of a province whose numbering changed in 2026
    Zoning,      \* those whose land-use rows name a statutory zone they lie in
    Coded,       \* those whose land-use rows have the code of a zone they lie in
    Recorded,    \* those whose land characteristics name a statutory zone
    Body,        \* parcel -> the body whose ordinance applies (municipality)
    Title,       \* body -> the name of its ordinance; it has no province, so
                 \* that two bodies may have ordinances of one name
    Options,     \* labels of an ordinance's related articles
    Local,       \* body -> the labels of its articles on districts ("site")
    Within,      \* body -> label -> the parcels in a district of that article
    NoName       \* no ordinance found

Bodies == {Body[p] : p \in Parcels}

ASSUME DataAssumption ==
    /\ Merged \subseteq Parcels /\ Zoning \subseteq Parcels
    /\ Coded \subseteq Parcels /\ Recorded \subseteq Parcels
    /\ Body \in [Parcels -> Bodies]
    /\ NoName \notin Bodies /\ \A b \in Bodies : Title[b] # NoName
    /\ Local \in [Bodies -> SUBSET Options]
    /\ Within \in [Bodies -> [Options -> SUBSET Parcels]]

Answers == {"rows", "none", "failed"}
----------------------------------------------------------------------------
(* VWorld.                                                                  *)

\* _http_get: a busy server and the network are tried three times.
HttpGet(outcomes) == outcomes \cup {"failed"}

\* _raise_for_code: an answer with an error code is a failure.
RaiseForCode(outcomes) == outcomes \cup {"failed"}

\* search_parcels: the lot number first, the road name if there is no hit;
\* hits in another city are dropped.
Search == HttpGet(RaiseForCode({"rows", "none"}))

\* _ned: an unknown parcel's answer has no data root and no error code.
Ned == HttpGet(RaiseForCode({"rows", "none"}))

\* _feature_list: every page or none; a page without hits ends the list.
FeatureList == HttpGet(RaiseForCode({"rows", "none"}))

\* parcel_by_pnu: a number that is no parcel is refused.
ParcelByPnu == FeatureList

\* regions: the merged province's list, from memory or asked for.
Regions == FeatureList \ {"none"}

\* _other_numbering: a renumbered parcel's other number needs the list; a
\* list that cannot be had hides that there is one.
OtherNumbering(p) ==
    IF p \in Merged THEN {IF list = "failed" THEN "hidden" ELSE "other" : list \in Regions}
    ELSE {"same"}

\* _ned_either_numbering: without rows, once more under the other number.
EitherNumbering(p) ==
    (Ned \ {"none"})
    \cup UNION {CASE other = "hidden" -> {"hidden"}
                  [] other = "other"  -> Ned
                  [] other = "same"   -> {"none"} : other \in OtherNumbering(p)}

LandUse(p)         == EitherNumbering(p)
Characteristics(p) == EitherNumbering(p)
----------------------------------------------------------------------------
(* data.go.kr: a page at a time, ten at most; an error may come as XML or   *)
(* as JSON whatever was asked for.                                          *)

XmlItems  == {"rows", "none", "failed"}

\* No building registered is an answer like any other.
Buildings == {"rows", "failed"}

\* zone_laws and use_rules ask nothing when no zone has a code.
ZoneLaws(zones) == IF zones = {} THEN {"none"} ELSE XmlItems
UseRules(zones) == IF zones = {} THEN {"none"} ELSE XmlItems

\* search_uses: the exact name is among the names found, or it is not.
SearchUses == XmlItems
----------------------------------------------------------------------------
(* law.go.kr.                                                               *)

\* _get_json: the same call is made once more when the reply is not JSON.
GetJson(outcomes) == outcomes \cup {"failed"}

\* find_planning_ordinance: the body's own ordinance among the hits, one in
\* force before one to come.
FindOrdinance == GetJson({"rows", "none"})

\* pick_articles: whether some article states the base ratios.
PickArticles == BOOLEAN

\* follow_annex: an article that names no zones has its figures in an annex,
\* which may be missing, unreadable or out of reach.
FollowAnnex == {"text", "annex", "no_annex"}

\* zone_values: a figure read by rule, and none outside the statutory range,
\* none of several figures or of a decimal; a zone may not be listed.
ZoneValues(text) == IF text = "no_annex" THEN {"unread"} ELSE {"figure", "unread"}

\* lookup: the base articles with their figures and the other articles about
\* the ratios.  A failure after the hit leaves the name alone.
NotFound == [name |-> NoName, articles |-> FALSE, figure |-> "none", related |-> {}]
Ordinance(body) ==
    UNION {IF hit # "rows" THEN {NotFound}
           ELSE {[NotFound EXCEPT !.name = Title[body]]}
                \cup {[name |-> Title[body], articles |-> base, related |-> Options,
                       figure |-> IF base THEN value ELSE "none"] :
                         base \in PickArticles,
                         value \in UNION {ZoneValues(text) : text \in FollowAnnex}} :
           hit \in FindOrdinance}

\* LawSearchRetriever: the first few questions, a few passages of each, merged
\* in turns; one question that fails fails them all.
LawSearch == {"rows", "none", "failed"}
=============================================================================
