-------------------------- MODULE ApprovalContract --------------------------
(* What the approval desk promises about the two documents of a project,    *)
(* in atomic steps and without threads, locks, backups or sessions          *)
(* (docs/state-editing.md): a document changes by a designer saving over    *)
(* the version they were shown, or by the designer approving the one        *)
(* proposal on offer while what it was made from still stands; besides them *)
(* only the program's upkeep writes the state, and it alone may come        *)
(* between what a designer was shown and what they write.  The state never  *)
(* claims an output that was not approved into it; and an offer that was    *)
(* answered, replaced or lost in a restart never comes back.                *)
EXTENDS Integers

CONSTANTS Agents, Designer, Requests, None, Texts, InitText, Synced, MaxVersion,
          MaxProposals

VARIABLES docs, modules, shown, offer, spent,
          since,     \* versions of the state since a designer last wrote it
          accepted   \* the outputs that were approved into the state

vars == <<docs, modules, shown, offer, spent, since, accepted>>

Blank == [text |-> InitText, reflected |-> [a \in Agents |-> 0]]

Init ==
    /\ docs    = [k \in {"brief", "state"} |-> Blank]
    /\ modules = [a \in Agents |-> 0]
    /\ shown   = [r \in Requests |-> [kind |-> "state", doc |-> Blank]]
    /\ offer   = None
    /\ spent   = {}
    /\ since   = {Blank}
    /\ accepted = {}

OfferIds == IF offer = None THEN {} ELSE {offer.id}

Show(r, k) ==
    /\ shown' = [shown EXCEPT ![r] = [kind |-> k, doc |-> docs[k]]]
    /\ UNCHANGED <<docs, modules, offer, spent, since, accepted>>

\* What document k has been since a designer last wrote it.
Window(k) == IF k = "state" THEN since ELSE {docs["brief"]}

\* The body is the designer's to write, the records are not.
Save(r, text) ==
    LET k   == shown[r].kind
        new == [shown[r].doc EXCEPT !.text = text]
    IN  /\ shown[r].doc \in Window(k)
        /\ docs'  = [docs EXCEPT ![k] = new]
        /\ since' = IF k = "state" THEN {new} ELSE since
        /\ shown' = [shown EXCEPT ![r].doc = new]
        /\ UNCHANGED <<modules, offer, spent, accepted>>

\* The program brings the state's rows up to date, in the text it read: the
\* rest of what was written meanwhile may be lost, and no record is made up.
Upkeep ==
    \E text \in Texts, records \in [Agents -> 0..MaxVersion] :
        LET synced == [text |-> Synced[text], reflected |-> records]
        IN  /\ \A a \in Agents : records[a] # 0 => <<a, records[a]>> \in accepted
            /\ docs'  = [docs EXCEPT !["state"] = synced]
            /\ since' = since \cup {synced}
            /\ UNCHANGED <<modules, shown, offer, spent, accepted>>

Produce(a) ==
    /\ modules' = [modules EXCEPT ![a] = @ + 1]
    /\ UNCHANGED <<docs, shown, offer, spent, since, accepted>>

\* A new offer records at most the one output it was made from.
Offer ==
    /\ offer' # None
    /\ offer'.id \notin spent \cup OfferIds
    /\ offer'.author \in Agents
    /\ offer'.output \in 1..modules[offer'.author]
    /\ offer'.new.reflected \in
          {offer'.base.reflected,
           [offer'.base.reflected EXCEPT ![offer'.author] = offer'.output]}
    /\ spent' = spent \cup OfferIds
    /\ UNCHANGED <<docs, modules, shown, since, accepted>>

\* Skipped, replaced, overtaken by a failed request or lost in a restart.
Withdraw ==
    /\ offer' = None
    /\ spent \cup OfferIds \subseteq spent'
    /\ UNCHANGED <<docs, modules, shown, since, accepted>>

Approve ==
    /\ offer # None
    /\ offer.base \in since
    /\ docs["brief"] = offer.brief
    /\ docs'     = [docs EXCEPT !["state"] = offer.new]
    /\ since'    = {offer.new}
    /\ accepted' = accepted \cup {<<offer.author, offer.output>>}
    /\ offer'    = None
    /\ spent'    = spent \cup {offer.id}
    /\ UNCHANGED <<modules, shown>>

Next ==
    \/ \E r \in Requests :
          \/ \E k \in {"brief", "state"} : Show(r, k)
          \/ \E text \in Texts : Save(r, text)
    \/ \E a \in Agents : Produce(a)
    \/ Offer \/ Withdraw \/ Approve \/ Upkeep

Spec == Init /\ [][Next]_vars
=============================================================================
