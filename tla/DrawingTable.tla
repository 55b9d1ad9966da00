------------------------------ MODULE DrawingTable ------------------------------
(***************************************************************************)
(* The drawing table of one project (sida/board.py): the papers the       *)
(* designer laid down, the AI section (tray), the idea board and the       *)
(* uploaded photo files.  Every operation holds the module's lock, so an   *)
(* operation is one step; an upload and the removal of a photo touch both  *)
(* board.json and a file and are two steps, with a crash in between.       *)
(*                                                                         *)
(* A paper is its id, kind, photo file, expert and origin; "note" stands   *)
(* for notes, schemes and tracings.  A photo file is named after the paper *)
(* it came with.  uuid4 ids are ids nothing mentions.  Time passes in      *)
(* ticks, Day of them to a day.                                            *)
(***************************************************************************)
EXTENDS Naturals, FiniteSets, Sequences, SequencesExt

CONSTANTS
    Names,      \* paper ids, and the names of the photo files
    Site,       \* the id of the site paper
    Experts,    \* experts whose results come as papers
    None,       \* no file, no expert, no paper, nothing in progress
    MaxPapers,  \* MAX_PAPERS (300)
    MaxTray,    \* MAX_TRAY (40)
    MaxIdeas,   \* MAX_IDEAS (40)
    MaxLinks,   \* MAX_IDEA_PAPERS (8)
    Day         \* ORPHAN_SECONDS, in ticks

ASSUME TableConstants ==
    /\ MaxPapers \in Nat \ {0} /\ MaxTray \in Nat \ {0}
    /\ MaxIdeas \in Nat /\ MaxLinks \in Nat /\ Day \in Nat \ {0}
    /\ Site \notin Names /\ None \notin Names \cup Experts \cup {Site}

VARIABLES
    board,   \* board.json: [papers, tray, ideas]
    files,   \* board_photos/: file name -> ticks since its mtime (Day: a day or more)
    busy,    \* the operation between its two writes, or None
    removed  \* photo file -> [age, by]: ticks since its paper left the board, and how

vars == <<board, files, busy, removed>>

Kinds == {"site", "note", "photo", "expert"}
Paper == [id : Names \cup {Site}, kind : Kinds, file : Names \cup {None},
          agent : Experts \cup {None}, origin : {"ai", "designer"}, made : {"ai", "designer"}]
\* An operation between its two writes.
Operation == [op : {"delete"}, file : Names] \cup [op : {"upload"}, paper : Paper]
ASSUME NoneIsNothing == None \notin Paper \cup Operation
Link == [id : Names \cup {Site}, meant : BOOLEAN]
Idea == [text : BOOLEAN, held : Paper \cup {None}, links : SUBSET Link]

Held(b) == {i.held : i \in Range(b.ideas)} \ {None}
Ids(ps) == {p.id : p \in ps}
Everywhere(b) == b.papers \cup Range(b.tray) \cup Held(b)

TakenOnTable(b) == Ids(b.papers \cup Range(b.tray))        \* mutant: held papers forgotten
\* A paper id that a new paper may not take.
Taken(b) == Ids(Everywhere(b))

ThereOnTable(b) == Ids(b.papers \cup Range(b.tray))        \* mutant: held papers forgotten
\* Papers a saved link may name when the board is read.
There(b) == Ids(b.papers \cup Range(b.tray) \cup Held(b))

\* The board as every operation and every prompt reads it: links to papers that are gone drop out.
Load(b) ==
    [b EXCEPT !.ideas = [i \in DOMAIN b.ideas |->
        [b.ideas[i] EXCEPT !.links = {l \in b.ideas[i].links : l.id \in There(b)}]]]

\* Writing the board.  `meant` is the model's memory of a link: it turns false for good
\* when the paper the link was made for is on the board no more.
Saved(b) ==
    [b EXCEPT !.ideas = [i \in DOMAIN b.ideas |->
        [b.ideas[i] EXCEPT !.links =
            {[l EXCEPT !.meant = l.meant /\ l.id \in Ids(Everywhere(b))] : l \in b.ideas[i].links}]]]

Read == Load(board)
Save(b) == board' = Saved(b)

\* An id as uuid4 makes them: nothing mentions it.
Fresh ==
    LET mentioned == Taken(board) \cup DOMAIN files \cup DOMAIN removed
                     \cup {p.file : p \in Everywhere(board)}
                     \cup UNION {{l.id : l \in i.links} : i \in Range(board.ideas)}
    IN  Names \ mentioned

\* How a photo left: by a removal, with its idea, or by a removal the server stopped in.
Ways == {"paper", "idea", "stopped"}

NewPaper(id, kind, file, agent, by) ==
    [id |-> id, kind |-> kind, file |-> file, agent |-> agent, origin |-> by, made |-> by]

Init ==
    /\ board = [papers |-> {NewPaper(Site, "site", None, None, "designer")},
                tray |-> <<>>, ideas |-> <<>>]
    /\ files = <<>>
    /\ busy = None
    /\ removed = <<>>

OnlyBoard == UNCHANGED <<files, busy, removed>>

\* The model's memory of photos that left the board less than a day ago.
Removal(file, by) ==
    [f \in DOMAIN removed \cup {file} |-> IF f = file THEN [age |-> 0, by |-> by] ELSE removed[f]]

---------------------------------------------------------------------------
(* Papers on the table *)

AddPaper(id) ==
    /\ busy = None
    /\ Cardinality(Read.papers) < MaxPapers
    /\ id \notin Taken(Read)
    /\ Save([Read EXCEPT !.papers = @ \cup {NewPaper(id, "note", None, None, "designer")}])
    /\ OnlyBoard

\* An undo lays a removed photo back, from the file the server still keeps.
AddPhotoBack(id, file) ==
    /\ busy = None
    /\ file \in DOMAIN files
    /\ file \notin {p.file : p \in Read.papers}
    /\ Cardinality(Read.papers) < MaxPapers
    /\ id \notin Taken(Read)
    /\ Save([Read EXCEPT !.papers = @ \cup {NewPaper(id, "photo", file, None, "designer")}])
    /\ OnlyBoard

\* What an edit leaves of a paper: the marks of the AI are kept.
Edited(p) == p

UpdatePaper(p) ==
    /\ busy = None
    /\ p \in Read.papers
    /\ Save([Read EXCEPT !.papers = (@ \ {p}) \cup {Edited(p)}])
    /\ OnlyBoard

DeletePaper(p) ==
    /\ busy = None
    /\ p \in Read.papers
    /\ p.kind # "site"
    /\ Save([Read EXCEPT !.papers = @ \ {p}])
    /\ IF p.kind = "photo" /\ p.file \in DOMAIN files
         THEN /\ busy'    = [op |-> "delete", file |-> p.file]
              /\ removed' = Removal(p.file, "paper")
         ELSE UNCHANGED <<busy, removed>>
    /\ UNCHANGED files

Untouched(file) == files                                    \* mutant: the file's day began long ago
\* The removed photo's file starts its day.
Touched(file) == [files EXCEPT ![file] = 0]

DeleteTouches ==
    /\ busy # None /\ busy.op = "delete"
    /\ files' = Touched(busy.file)
    /\ busy' = None
    /\ UNCHANGED <<board, removed>>

---------------------------------------------------------------------------
(* Uploads *)

\* Files _prune_photos leaves: used by a paper, or younger than a day.
Kept(b) ==
    LET used == {p.file : p \in b.papers \cup Held(b)}
    IN  {f \in DOMAIN files : f \in used \/ files[f] < Day}

AddPhoto(id) ==
    /\ busy = None
    /\ Cardinality(Read.papers) < MaxPapers
    /\ id \in Fresh
    /\ files' = [f \in Kept(Read) \cup {id} |-> IF f = id THEN 0 ELSE files[f]]
    /\ busy' = [op |-> "upload", paper |-> NewPaper(id, "photo", id, None, "designer")]
    /\ UNCHANGED <<board, removed>>

AddPhotoSaves ==
    /\ busy # None /\ busy.op = "upload"
    /\ Save([Read EXCEPT !.papers = @ \cup {busy.paper}])
    /\ busy' = None
    /\ UNCHANGED <<files, removed>>

\* The board cannot be written: atomic_write_text raises SidaError, which the handler's
\* `except OSError` does not catch, so the file stays.
AddPhotoFails ==
    /\ busy # None /\ busy.op = "upload"
    /\ busy' = None
    /\ UNCHANGED <<board, files, removed>>

---------------------------------------------------------------------------
(* The AI section *)

\* The AI section keeps its newest papers.
ToTray(t, p) ==
    LET longer == Append(t, p)
    IN  IF Len(longer) > MaxTray THEN Tail(longer) ELSE longer

ProposePaper(id) ==
    /\ busy = None
    /\ id \in Fresh
    /\ Save([Read EXCEPT !.tray = ToTray(@, NewPaper(id, "note", None, None, "ai"))])
    /\ OnlyBoard

\* An expert's earlier result still in the AI section is replaced.
Earlier(t, agent) ==
    LET kept[n \in 0 .. Len(t)] ==
            IF n = 0 THEN <<>>
            ELSE IF t[n].kind = "expert" /\ t[n].agent = agent THEN kept[n - 1]
            ELSE Append(kept[n - 1], t[n])
    IN  kept[Len(t)]

ExpertResult(agent, id) ==
    /\ busy = None
    /\ id \in Fresh
    /\ Save([Read EXCEPT !.tray = ToTray(Earlier(@, agent), NewPaper(id, "expert", None, agent, "ai"))])
    /\ OnlyBoard

PlacePaper(i) ==
    /\ busy = None
    /\ i \in DOMAIN Read.tray
    /\ Save([Read EXCEPT !.tray = RemoveAt(@, i), !.papers = @ \cup {Read.tray[i]}])
    /\ OnlyBoard

DiscardPaper(i) ==
    /\ busy = None
    /\ i \in DOMAIN Read.tray
    /\ Save([Read EXCEPT !.tray = RemoveAt(@, i)])
    /\ OnlyBoard

---------------------------------------------------------------------------
(* The idea board *)

LinksTo(ids) == {[id |-> n, meant |-> TRUE] : n \in ids}

Linkable(ids) == ids \subseteq Taken(Read) /\ Cardinality(ids) <= MaxLinks

AddIdea(ids, at) ==
    /\ busy = None
    /\ Len(Read.ideas) < MaxIdeas
    /\ Linkable(ids)
    /\ at \in 1 .. Len(Read.ideas) + 1
    /\ Save([Read EXCEPT !.ideas = InsertAt(@, at, [text |-> TRUE, held |-> None, links |-> LinksTo(ids)])])
    /\ OnlyBoard

UpdateIdea(i, text, ids) ==
    /\ busy = None
    /\ i \in DOMAIN Read.ideas
    /\ text \/ Read.ideas[i].held # None
    /\ Linkable(ids)
    /\ Save([Read EXCEPT !.ideas[i] =
                [text |-> text, held |-> @.held,
                 links |-> {l \in @.links : l.id \in ids} \cup LinksTo(ids \ {l.id : l \in @.links})]])
    /\ OnlyBoard

DeleteIdea(i) ==
    /\ busy = None
    /\ i \in DOMAIN Read.ideas
    /\ Save([Read EXCEPT !.ideas = RemoveAt(@, i)])
    /\ removed' = LET held == Read.ideas[i].held
                  IN  IF held # None /\ held.kind = "photo" THEN Removal(held.file, "idea") ELSE removed
    /\ UNCHANGED <<files, busy>>

OrderIdeas(i, j) ==  \* two ideas change places; other orders are several such requests
    /\ busy = None
    /\ i \in DOMAIN Read.ideas /\ j \in DOMAIN Read.ideas /\ i < j
    /\ Save([Read EXCEPT !.ideas[i] = Read.ideas[j], !.ideas[j] = Read.ideas[i]])
    /\ OnlyBoard

StowPaper(p, at) ==
    /\ busy = None
    /\ p \in Read.papers
    /\ p.kind # "site"
    /\ Len(Read.ideas) < MaxIdeas
    /\ at \in 1 .. Len(Read.ideas) + 1
    /\ Save([Read EXCEPT !.papers = @ \ {p},
                         !.ideas = InsertAt(@, at, [text |-> FALSE, held |-> p, links |-> {}])])
    /\ OnlyBoard

NoteOf(idea, id) ==                                         \* mutant: the text counts first
    IF idea.text \/ idea.held = None THEN NewPaper(id, "note", None, None, "designer") ELSE idea.held
\* The paper an idea becomes on the table.
PaperOf(idea, id) ==
    IF idea.held # None THEN idea.held ELSE NewPaper(id, "note", None, None, "designer")

PlaceIdea(i, id) ==
    /\ busy = None
    /\ i \in DOMAIN Read.ideas
    /\ Cardinality(Read.papers) < MaxPapers
    /\ Read.ideas[i].held # None \/ id \in Fresh
    /\ Save([Read EXCEPT !.ideas = RemoveAt(@, i), !.papers = @ \cup {PaperOf(Read.ideas[i], id)}])
    /\ OnlyBoard

\* The hidden buildings are saved with the rest of the board (their list is left out).
SetHidden ==
    /\ busy = None
    /\ Save(Read)
    /\ OnlyBoard

---------------------------------------------------------------------------
(* The world *)

\* The server stops between two writes; the lock goes with it.  A removal it stops in has
\* left the board, and its file as old as it was.
Crash ==
    /\ busy # None
    /\ busy' = None
    /\ removed' = IF busy.op = "delete"
                  THEN [f \in DOMAIN removed |->
                          IF f = busy.file THEN [removed[f] EXCEPT !.by = "stopped"] ELSE removed[f]]
                  ELSE removed
    /\ UNCHANGED <<board, files>>

TimePasses ==
    /\ DOMAIN files # {}
    /\ files' = [f \in DOMAIN files |-> IF files[f] < Day THEN files[f] + 1 ELSE Day]
    /\ removed' = [f \in {g \in DOMAIN removed : removed[g].age + 1 < Day} |->
                      [removed[f] EXCEPT !.age = @ + 1]]
    /\ UNCHANGED <<board, busy>>

DesignerActs ==
    \/ \E id \in Names : AddPaper(id) \/ AddPhoto(id)
    \/ \E id, file \in Names : AddPhotoBack(id, file)
    \/ \E p \in board.papers : UpdatePaper(p) \/ DeletePaper(p)
    \/ \E p \in board.papers, at \in 1 .. MaxIdeas : StowPaper(p, at)
    \/ \E i \in 1 .. MaxTray : PlacePaper(i) \/ DiscardPaper(i)
    \/ \E ids \in SUBSET (Names \cup {Site}), at \in 1 .. MaxIdeas : AddIdea(ids, at)
    \/ \E i \in 1 .. MaxIdeas, text \in BOOLEAN, ids \in SUBSET (Names \cup {Site}) :
          UpdateIdea(i, text, ids)
    \/ \E i, j \in 1 .. MaxIdeas : OrderIdeas(i, j)
    \/ \E i \in 1 .. MaxIdeas : DeleteIdea(i)
    \/ \E i \in 1 .. MaxIdeas, id \in Names : PlaceIdea(i, id)
    \/ SetHidden

AIActs ==
    \/ \E id \in Names : ProposePaper(id)
    \/ \E agent \in Experts, id \in Names : ExpertResult(agent, id)

Next ==
    \/ DesignerActs
    \/ AIActs
    \/ DeleteTouches \/ AddPhotoSaves \/ AddPhotoFails
    \/ Crash \/ TimePasses

Spec == Init /\ [][Next]_vars

---------------------------------------------------------------------------
(* Properties *)

\* The shape of the state; busy names a paper or file of an operation in progress.
TypeOK ==
    /\ board \in [papers : SUBSET Paper, tray : Seq(Paper), ideas : Seq(Idea)]
    /\ DOMAIN files \subseteq Names /\ files \in [DOMAIN files -> 0 .. Day]
    /\ DOMAIN removed \subseteq Names
    /\ removed \in [DOMAIN removed -> [age : 0 .. Day - 1, by : Ways]]
    /\ busy \in {None} \cup Operation

\* The papers and the places they lie in.
Places(b) ==
    {[where |-> "table", at |-> 0, paper |-> p] : p \in b.papers}
    \cup {[where |-> "tray", at |-> i, paper |-> b.tray[i]] : i \in DOMAIN b.tray}
    \cup {[where |-> "idea", at |-> i, paper |-> b.ideas[i].held] :
             i \in {j \in DOMAIN b.ideas : b.ideas[j].held # None}}

\* An id names one paper, wherever it lies: on the table, in the AI section or held in an idea
\* (board-api.md: a held paper keeps its id).  A request that names a paper can then mean only one.
\* And a paper the AI made says so wherever the designer carried it and however it was edited.
OnePaperPerId ==
    /\ TypeOK
    /\ \A x, y \in Places(board) : x.paper.id = y.paper.id => x = y
    /\ \A p \in Everywhere(board) : p.origin = p.made

\* A photo on the table or held in an idea has its file at every moment of an upload, a removal
\* or the clearing of old files, and one taken off the table has it for a day from the moment the
\* board is written without it, so that an undo can lay it back.  The one removal that has no
\* such day is the one the server stopped in, between the board's write and the touch: the next
\* upload clears its file as soon as that was a day old before.
PhotosHaveFiles ==
    /\ \A p \in board.papers \cup Held(board) : p.kind = "photo" => p.file \in DOMAIN files
    /\ \A f \in DOMAIN removed : removed[f].by = "paper" => f \in DOMAIN files

\* A link of an idea, as the board is read, names the paper the designer linked, never a later
\* paper with its id; and it holds as long as that paper is on the table, in the AI section or
\* in an idea.
LinksKeepTheirPaper ==
    \A i \in DOMAIN board.ideas : Read.ideas[i].links = {l \in board.ideas[i].links : l.meant}

\* A paper the designer has on the table or in an idea goes only when the designer deletes it or
\* its idea; being carried between the two it stays the same paper.
DesignerKeepsPapers ==
    [][\A p \in board.papers \cup Held(board) :
          \/ \E q \in board'.papers \cup Held(board') : q.id = p.id /\ q.kind = p.kind /\ q.file = p.file
          \/ DeletePaper(p)
          \/ \E i \in DOMAIN board.ideas : board.ideas[i].held = p /\ DeleteIdea(i)]_vars
=============================================================================
